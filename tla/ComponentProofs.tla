--------------------------- MODULE ComponentProofs ---------------------------
(* The jobs that a user runs in the repository itself, and what the        *)
(* smaller components promise together.                                    *)
EXTENDS Components, RecordProofs, RunPartProofs, SequenceTheorems, TLAPS

----------------------------------------------------------------------------
(* Jobs in the user's tree (SoloJobs)                                      *)

Patches == UNION {[F -> Nat \X Nat] : F \in SUBSET SoloFiles}
Tree == [SoloFiles -> Nat]
SoloType ==
    [at : {"away", "run", "guard", "cleanup"},
     status : {"none", "running", "completed", "failed", "torn", "reverted"},
     place : Places, stashed : BOOLEAN, patch : Patches, base : Tree, alone : BOOLEAN]

SoloTypeOK ==
    /\ head \in [Places -> Tree] /\ trees \in [Places -> Tree]
    /\ stashes \in Seq(Patches)
    /\ solo \in [SoloRuns -> SoloType]
    /\ edits \in Nat /\ mine \in Tree /\ exposed \subseteq SoloFiles

(* No edit is older than it can be.                                        *)
PatchIsPast(patch) == \A f \in DOMAIN patch : patch[f][1] <= edits /\ patch[f][2] <= edits
EditsAreCounted ==
    /\ \A p \in Places, f \in SoloFiles : head[p][f] <= edits /\ trees[p][f] <= edits
    /\ \A f \in SoloFiles : mine[f] <= edits
    /\ \A i \in 1 .. Len(stashes) : PatchIsPast(stashes[i])
    /\ \A j \in SoloRuns : PatchIsPast(solo[j].patch)

JobsHavePlaces ==
    \A j \in SoloRuns :
        /\ solo[j].place \in {Root, j}
        /\ solo[j].stashed => solo[j].place = Root
        /\ solo[j].at = "cleanup" => solo[j].stashed
        /\ solo[j].at = "run" => DOMAIN solo[j].patch = {}

(* What the user has not committed is under no stash and no patch, and a   *)
(* job that was not let into the tree with it has not taken it either.     *)
NeverBeneath ==
    \A f \in SoloFiles : mine[f] # 0 =>
        /\ head[Root][f] # mine[f]
        /\ \A i \in 1 .. Len(stashes) : f \in DOMAIN stashes[i] => stashes[i][f][1] # mine[f]
        /\ \A j \in SoloRuns : solo[j].place = Root /\ f \in DOMAIN solo[j].patch => solo[j].patch[f][1] # mine[f]

SomeoneInRoot == \E j \in SoloRuns : solo[j].at # "away" /\ solo[j].place = Root

NeverTaken ==
    \A f \in SoloFiles \ exposed : mine[f] # 0 =>
        /\ \A j \in SoloRuns : solo[j].place = Root /\ f \in DOMAIN solo[j].patch => solo[j].patch[f][2] # mine[f]
        /\ SomeoneInRoot => trees[Root][f] # mine[f]

AloneIsKnown ==
    \A j \in SoloRuns : solo[j].alone =>
        /\ solo[j].at = "run" => head[solo[j].place] = solo[j].base
        /\ \A f \in DOMAIN solo[j].patch : solo[j].patch[f][1] = solo[j].base[f]

SoloInv ==
    /\ SoloTypeOK /\ EditsAreCounted /\ JobsHavePlaces
    /\ NeverBeneath /\ NeverTaken /\ AloneIsKnown /\ UserWorkIsKept

LEMMA PlacesAreApart ==
  /\ Root \in Places /\ SoloRuns \subseteq Places /\ \A j \in SoloRuns : j # Root
  /\ Beside("nobody") <=> SomeoneInRoot
  BY SoloAssumption DEF Places, Beside, Running, SomeoneInRoot

LEMMA PatchSays ==
  ASSUME NEW patch \in Patches
  PROVE  /\ DOMAIN patch \subseteq SoloFiles
         /\ \A f \in DOMAIN patch : patch[f] \in Nat \X Nat /\ patch[f][1] \in Nat /\ patch[f][2] \in Nat
  BY DEF Patches

LEMMA DiffIsPatch ==
  ASSUME SoloTypeOK, NEW place \in Places
  PROVE  /\ DiffIn(place) \in Patches
         /\ DOMAIN DiffIn(place) = {f \in SoloFiles : trees[place][f] # head[place][f]}
         /\ \A f \in DOMAIN DiffIn(place) :
              DiffIn(place)[f][1] = head[place][f] /\ DiffIn(place)[f][2] = trees[place][f]
  <1> DEFINE F == {f \in SoloFiles : trees[place][f] # head[place][f]}
  <1>1. DiffIn(place) = [f \in F |-> <<head[place][f], trees[place][f]>>]
    BY DEF DiffIn
  <1>2. \A f \in F : head[place][f] \in Nat /\ trees[place][f] \in Nat
    BY DEF SoloTypeOK, Tree
  <1>3. DiffIn(place) \in [F -> Nat \X Nat] /\ F \in SUBSET SoloFiles
    BY <1>1, <1>2
  <1>4. DiffIn(place) \in Patches
    BY <1>3 DEF Patches
  <1>5. QED
    BY <1>1, <1>4

LEMMA NoPatchIsEmpty == NoPatch \in Patches /\ DOMAIN NoPatch = {}
  <1>1. DOMAIN NoPatch = {} /\ NoPatch \in [{} -> Nat \X Nat]
    BY DEF NoPatch
  <1>2. {} \in SUBSET SoloFiles
    OBVIOUS
  <1>3. QED
    BY <1>1, <1>2 DEF Patches

LEMMA NoRunHasType ==
  /\ NoRun \in SoloType /\ NoRun.at = "away" /\ NoRun.patch = NoPatch /\ ~NoRun.alone /\ ~NoRun.stashed
  /\ NoRun.place = Root
  BY NoPatchIsEmpty, PlacesAreApart DEF NoRun, SoloType, Tree

(* What begins: a run with nothing to undo yet.                            *)
LEMMA StartedSays ==
  ASSUME SoloTypeOK, NEW j \in SoloRuns, NEW place \in Places, NEW stashed \in BOOLEAN
  PROVE  LET new == Started(j, place, stashed)
         IN  /\ new \in [SoloRuns -> SoloType]
             /\ \A k \in SoloRuns \ {j} : new[k] = solo[k]
             /\ new[j].at = "run" /\ new[j].place = place /\ new[j].stashed = stashed /\ new[j].patch = NoPatch
             /\ new[j].base = IF place = Root /\ ~stashed THEN trees[Root] ELSE head[Root]
             /\ new[j].alone => (place = Root => stashed \/ Clean)
  <1> DEFINE calm == /\ place = Root => stashed \/ Clean
                     /\ ~ \E k \in SoloRuns \ {j} : Running(k) /\ solo[k].place = place
             base == IF place = Root /\ ~stashed THEN trees[Root] ELSE head[Root]
             run == [NoRun EXCEPT !.at = "run", !.status = "running", !.place = place, !.stashed = stashed,
                                  !.base = base, !.alone = calm]
  <1>1. Started(j, place, stashed) = [solo EXCEPT ![j] = run]
    BY Zenon DEF Started
  <1>2. calm \in BOOLEAN
    OBVIOUS
  <1>3. calm => (place = Root => stashed \/ Clean)
    OBVIOUS
  <1>4. base \in Tree
    BY PlacesAreApart DEF SoloTypeOK
  <1> HIDE DEF calm, base
  <1>5. /\ run \in SoloType /\ run.at = "run" /\ run.place = place /\ run.stashed = stashed
        /\ run.patch = NoPatch /\ run.base = base /\ run.alone = calm
    BY <1>2, <1>4, NoRunHasType DEF SoloType
  <1> HIDE DEF run
  <1>6. solo \in [SoloRuns -> SoloType]
    BY DEF SoloTypeOK
  <1>7. QED
    BY <1>1, <1>3, <1>5, <1>6 DEF base

LEMMA AloneEnds ==
  ASSUME NEW r \in SoloType
  PROVE  LET s == [r EXCEPT !.alone = FALSE]
         IN /\ s \in SoloType /\ ~s.alone
            /\ s.at = r.at /\ s.place = r.place /\ s.stashed = r.stashed
            /\ s.patch = r.patch /\ s.base = r.base /\ s.status = r.status
  BY DEF SoloType

LEMMA GoesOn ==
  ASSUME NEW r \in SoloType, NEW at \in {"away", "run", "guard", "cleanup"},
         NEW status \in {"none", "running", "completed", "failed", "torn", "reverted"}
  PROVE  [r EXCEPT !.at = at, !.status = status] \in SoloType
  BY DEF SoloType

(* A job under way beside which something was changed is not alone.        *)
LEMMA DisturbedSays ==
  ASSUME SoloTypeOK, NEW place, NEW but
  PROVE  LET new == Disturbed(place, but)
         IN  /\ new \in [SoloRuns -> SoloType]
             /\ \A k \in SoloRuns :
                  /\ new[k].at = solo[k].at /\ new[k].place = solo[k].place /\ new[k].stashed = solo[k].stashed
                  /\ new[k].patch = solo[k].patch /\ new[k].base = solo[k].base /\ new[k].status = solo[k].status
                  /\ new[k].alone => solo[k].alone
                  /\ new[k].alone /\ solo[k].place = place => k = but \/ solo[k].at = "away"
  <1> DEFINE new == Disturbed(place, but)
  <1>1. solo \in [SoloRuns -> SoloType]
    BY DEF SoloTypeOK
  <1>2. ASSUME NEW k \in SoloRuns
        PROVE  \/ new[k] = solo[k] /\ ~(k # but /\ solo[k].at # "away" /\ solo[k].place = place)
               \/ new[k] = [solo[k] EXCEPT !.alone = FALSE]
    BY DEF Disturbed, Running
  <1>3. new = [k \in SoloRuns |-> new[k]]
    BY DEF Disturbed
  <1> HIDE DEF new
  <1>4. \A k \in SoloRuns : new[k] \in SoloType
    <2>1. ASSUME NEW k \in SoloRuns PROVE new[k] \in SoloType
      <3>1. solo[k] \in SoloType
        BY <1>1
      <3>2. [solo[k] EXCEPT !.alone = FALSE] \in SoloType
        BY <3>1, AloneEnds
      <3>3. QED
        BY <1>2, <3>1, <3>2, Zenon
    <2>2. QED
      BY <2>1
  <1>5. new \in [SoloRuns -> SoloType]
    BY <1>3, <1>4
  <1>6. ASSUME NEW k \in SoloRuns
        PROVE  /\ new[k].at = solo[k].at /\ new[k].place = solo[k].place /\ new[k].stashed = solo[k].stashed
               /\ new[k].patch = solo[k].patch /\ new[k].base = solo[k].base /\ new[k].status = solo[k].status
               /\ new[k].alone => solo[k].alone
               /\ new[k].alone /\ solo[k].place = place => k = but \/ solo[k].at = "away"
    <2>1. CASE new[k] = solo[k] /\ ~(k # but /\ solo[k].at # "away" /\ solo[k].place = place)
      BY <2>1, Zenon
    <2>2. CASE new[k] = [solo[k] EXCEPT !.alone = FALSE]
      <3>1. solo[k] \in SoloType
        BY <1>1
      <3>2. QED
        BY <2>2, <3>1, AloneEnds, Zenon
    <2>3. QED
      BY <1>2, <2>1, <2>2, Zenon
  <1>7. QED
    BY <1>5, <1>6 DEF new

LEMMA SoloInitInv == SoloInit => SoloInv
  <1> SUFFICES ASSUME SoloInit PROVE SoloInv
    OBVIOUS
  <1>1. SoloTypeOK
    BY NoRunHasType, EmptySeq DEF SoloInit, SoloTypeOK, Tree
  <1>2. QED
    BY <1>1, NoRunHasType, NoPatchIsEmpty, PlacesAreApart
    DEF SoloInit, SoloInv, EditsAreCounted, PatchIsPast, JobsHavePlaces, NeverBeneath, NeverTaken, AloneIsKnown,
        UserWorkIsKept

(* A job moves on without touching a file.                                 *)
LEMMA JobMovesOn ==
  ASSUME SoloInv, UNCHANGED <<head, trees, stashes, edits, mine, exposed>>, solo' \in [SoloRuns -> SoloType],
         \A k \in SoloRuns :
            /\ solo'[k].place = solo[k].place /\ solo'[k].patch = solo[k].patch /\ solo'[k].base = solo[k].base
            /\ solo'[k].stashed = solo[k].stashed /\ (solo'[k].alone => solo[k].alone)
            /\ solo'[k].at # "away" => solo[k].at # "away"
            /\ solo'[k].at = "run" => solo[k].at = "run"
            /\ solo'[k].at = "cleanup" => solo[k].stashed
  PROVE  SoloInv'
  <1>1. SoloTypeOK' /\ EditsAreCounted' /\ JobsHavePlaces'
    BY DEF SoloInv, SoloTypeOK, EditsAreCounted, PatchIsPast, JobsHavePlaces
  <1>2. NeverBeneath' /\ UserWorkIsKept'
    BY DEF SoloInv, NeverBeneath, UserWorkIsKept
  <1>3. NeverTaken'
    BY DEF SoloInv, NeverTaken, SomeoneInRoot
  <1>4. AloneIsKnown'
    BY DEF SoloInv, AloneIsKnown
  <1>5. QED
    BY <1>1, <1>2, <1>3, <1>4 DEF SoloInv

LEMMA FinishSteps ==
  ASSUME SoloInv, NEW j \in SoloRuns, FinishRun(j) \/ RunDies(j)
  PROVE  SoloInv'
  <1>1. solo \in [SoloRuns -> SoloType] /\ JobsHavePlaces
    BY DEF SoloInv, SoloTypeOK
  <1>2. CASE FinishRun(j)
    <2>1. PICK status \in {"completed", "failed"} :
            solo' = [solo EXCEPT ![j].status = status, ![j].at = IF solo[j].stashed THEN "cleanup" ELSE "away"]
      BY <1>2 DEF FinishRun
    <2>2. solo[j].at \in {"run", "guard"} /\ UNCHANGED <<head, trees, stashes, edits, mine, exposed>>
      BY <1>2 DEF FinishRun
    <2> DEFINE at == IF solo[j].stashed THEN "cleanup" ELSE "away"
    <2>3. at \in {"cleanup", "away"} /\ (at = "cleanup" => solo[j].stashed)
      OBVIOUS
    <2>4. solo' = [solo EXCEPT ![j] = [solo[j] EXCEPT !.status = status, !.at = at]]
      BY <2>1
    <2> HIDE DEF at
    <2>5. [solo[j] EXCEPT !.status = status, !.at = at] \in SoloType
      BY <1>1, <2>3 DEF SoloType
    <2>6. solo' \in [SoloRuns -> SoloType]
      BY <1>1, <2>4, <2>5
    <2>7. \A k \in SoloRuns :
            /\ solo'[k].place = solo[k].place /\ solo'[k].patch = solo[k].patch /\ solo'[k].base = solo[k].base
            /\ solo'[k].stashed = solo[k].stashed /\ (solo'[k].alone => solo[k].alone)
            /\ solo'[k].at # "away" => solo[k].at # "away"
            /\ solo'[k].at = "run" => solo[k].at = "run"
            /\ solo'[k].at = "cleanup" => solo[k].stashed
      BY <1>1, <2>2, <2>3, <2>4 DEF SoloType, JobsHavePlaces
    <2>8. QED
      BY <2>2, <2>6, <2>7, JobMovesOn
  <1>3. CASE RunDies(j)
    <2>1. PICK status \in {solo[j].status, "torn"} :
            solo' = [solo EXCEPT ![j].at = "away", ![j].status = status]
      BY <1>3 DEF RunDies
    <2>2. UNCHANGED <<head, trees, stashes, edits, mine, exposed>>
      BY <1>3 DEF RunDies
    <2>3. solo' \in [SoloRuns -> SoloType]
      <3> DEFINE r == [solo[j] EXCEPT !.at = "away", !.status = status]
      <3>1. status \in {"none", "running", "completed", "failed", "torn", "reverted"} /\ solo[j] \in SoloType
        BY <1>1 DEF SoloType
      <3>2. r \in SoloType
        BY <3>1, GoesOn
      <3>3. solo' = [solo EXCEPT ![j] = r]
        BY <2>1
      <3> HIDE DEF r
      <3>4. QED
        BY <1>1, <3>2, <3>3
    <2>4. QED
      BY <1>1, <2>1, <2>2, <2>3, JobMovesOn DEF SoloType, JobsHavePlaces
  <1>4. QED
    BY <1>2, <1>3

(* A job is let into the tree: a clean one, or one the user was told of.   *)
LEMMA StartsInRoot ==
  ASSUME SoloInv, NEW j \in SoloRuns, RunOnCleanTree(j) \/ RunOnDirtyTree(j)
  PROVE  SoloInv'
  <1>t. SoloTypeOK /\ head[Root] \in Tree /\ trees[Root] \in Tree
    BY PlacesAreApart DEF SoloInv, SoloTypeOK
  <1>1. /\ solo' = Started(j, Root, FALSE) /\ UNCHANGED <<head, trees, stashes, edits, mine>>
        /\ \/ UNCHANGED exposed /\ Clean
           \/ exposed' = SoloFiles
    BY DEF RunOnCleanTree, RunOnDirtyTree
  <1>2. /\ solo' \in [SoloRuns -> SoloType] /\ \A k \in SoloRuns \ {j} : solo'[k] = solo[k]
        /\ solo'[j].at = "run" /\ solo'[j].place = Root /\ solo'[j].stashed = FALSE /\ solo'[j].patch = NoPatch
        /\ solo'[j].base = trees[Root] /\ (solo'[j].alone => Clean)
    <2>1. LET new == Started(j, Root, FALSE)
          IN  /\ new \in [SoloRuns -> SoloType]
              /\ \A k \in SoloRuns \ {j} : new[k] = solo[k]
              /\ new[j].at = "run" /\ new[j].place = Root /\ new[j].stashed = FALSE /\ new[j].patch = NoPatch
              /\ new[j].base = IF Root = Root /\ ~FALSE THEN trees[Root] ELSE head[Root]
              /\ new[j].alone => (Root = Root => FALSE \/ Clean)
      BY <1>t, StartedSays, PlacesAreApart, Zenon
    <2>2. QED
      BY <1>1, <2>1
  <1>d. DOMAIN solo'[j].patch = {}
    BY <1>2, NoPatchIsEmpty, Zenon
  <1>3. SoloTypeOK' /\ EditsAreCounted' /\ JobsHavePlaces'
    <2>1. SoloTypeOK'
      BY <1>1, <1>2 DEF SoloInv, SoloTypeOK
    <2>2. EditsAreCounted'
      BY <1>1, <1>2, <1>d DEF SoloInv, EditsAreCounted, PatchIsPast
    <2>3. JobsHavePlaces'
      BY <1>2, <1>d DEF SoloInv, JobsHavePlaces
    <2>4. QED
      BY <2>1, <2>2, <2>3
  <1>4. NeverBeneath' /\ UserWorkIsKept'
    <2>1. ASSUME NEW f \in SoloFiles, mine[f] # 0, NEW k \in SoloRuns,
                 solo'[k].place = Root, f \in DOMAIN solo'[k].patch
          PROVE  solo'[k].patch[f][1] # mine[f]
      <3>1. k # j
        BY <1>d, <2>1
      <3>2. QED
        BY <1>2, <2>1, <3>1 DEF SoloInv, NeverBeneath
    <2>2. NeverBeneath'
      BY <1>1, <2>1 DEF SoloInv, NeverBeneath
    <2>3. UserWorkIsKept'
      <3>1. \A f \in SoloFiles \ exposed' : f \in SoloFiles \ exposed
        BY <1>1
      <3>2. QED
        BY <1>1, <3>1 DEF SoloInv, UserWorkIsKept
    <2>4. QED
      BY <2>2, <2>3
  <1>5. NeverTaken'
    <2>1. CASE exposed' = SoloFiles
      BY <2>1 DEF NeverTaken
    <2>2. CASE UNCHANGED exposed /\ Clean
      <3>1. ASSUME NEW f \in SoloFiles \ exposed, mine[f] # 0, NEW k \in SoloRuns,
                   solo'[k].place = Root, f \in DOMAIN solo'[k].patch
            PROVE  solo'[k].patch[f][2] # mine[f]
        <4>1. k # j
          BY <1>d, <3>1
        <4>2. QED
          BY <1>2, <3>1, <4>1 DEF SoloInv, NeverTaken
      <3>2. \A f \in SoloFiles : mine[f] # 0 => trees[Root][f] # mine[f]
        BY <2>2 DEF SoloInv, NeverBeneath, Clean
      <3>3. QED
        BY <1>1, <2>2, <3>1, <3>2 DEF NeverTaken
    <2>3. QED
      BY <1>1, <2>1, <2>2
  <1>6. AloneIsKnown'
    <2>1. ASSUME NEW k \in SoloRuns, solo'[k].alone
          PROVE  /\ solo'[k].at = "run" => head'[solo'[k].place] = solo'[k].base
                 /\ \A f \in DOMAIN solo'[k].patch : solo'[k].patch[f][1] = solo'[k].base[f]
      <3>1. CASE k = j
        BY <1>1, <1>2, <1>d, <2>1, <3>1 DEF Clean
      <3>2. CASE k # j
        <4>1. solo'[k] = solo[k]
          BY <1>2, <3>2
        <4>2. /\ solo[k].at = "run" => head[solo[k].place] = solo[k].base
              /\ \A f \in DOMAIN solo[k].patch : solo[k].patch[f][1] = solo[k].base[f]
          BY <2>1, <4>1 DEF SoloInv, AloneIsKnown
        <4>3. QED
          BY <1>1, <4>1, <4>2
      <3>3. QED
        BY <3>1, <3>2
    <2>2. QED
      BY <2>1 DEF AloneIsKnown
  <1>7. QED
    BY <1>3, <1>4, <1>5, <1>6 DEF SoloInv

LEMMA EditStep ==
  ASSUME SoloInv, NEW f \in SoloFiles, UserEdits(f)
  PROVE  SoloInv'
  <1>t. SoloTypeOK /\ trees[Root] \in Tree /\ head[Root] \in Tree /\ Root \in Places
    BY PlacesAreApart DEF SoloInv, SoloTypeOK
  <1>1. /\ edits' = edits + 1 /\ trees' = [trees EXCEPT ![Root] = [trees[Root] EXCEPT ![f] = edits + 1]]
        /\ mine' = [mine EXCEPT ![f] = edits + 1]
        /\ exposed' = IF SomeoneInRoot THEN exposed \cup {f} ELSE exposed \ {f}
        /\ solo' = Disturbed(Root, "nobody") /\ UNCHANGED <<head, stashes>>
    BY PlacesAreApart DEF UserEdits
  <1>2. /\ solo' \in [SoloRuns -> SoloType]
        /\ \A k \in SoloRuns :
              /\ solo'[k].at = solo[k].at /\ solo'[k].place = solo[k].place /\ solo'[k].stashed = solo[k].stashed
              /\ solo'[k].patch = solo[k].patch /\ solo'[k].base = solo[k].base
              /\ solo'[k].alone => solo[k].alone
    BY <1>1, <1>t, DisturbedSays
  <1>3. /\ \A p \in Places \ {Root} : trees'[p] = trees[p]
        /\ trees'[Root][f] = edits + 1 /\ \A g \in SoloFiles \ {f} : trees'[Root][g] = trees[Root][g]
        /\ mine'[f] = edits + 1 /\ \A g \in SoloFiles \ {f} : mine'[g] = mine[g]
        /\ trees' \in [Places -> Tree] /\ mine' \in Tree
    BY <1>1, <1>t DEF SoloTypeOK, Tree
  <1>4. SoloTypeOK'
    BY <1>1, <1>2, <1>3, <1>t DEF SoloTypeOK
  <1>p. \A i \in 1 .. Len(stashes) : stashes[i] \in Patches
    BY <1>t DEF SoloTypeOK
  <1>5. EditsAreCounted'
    <2> DEFINE Past(patch, count) == \A g \in DOMAIN patch : patch[g][1] <= count /\ patch[g][2] <= count
    <2>0. ASSUME NEW patch \in Patches, Past(patch, edits) PROVE Past(patch, edits')
      BY <1>1, <1>t, <2>0, PatchSays DEF SoloTypeOK
    <2>1. /\ \A i \in 1 .. Len(stashes) : PatchIsPast(stashes[i])'
          /\ \A k \in SoloRuns : PatchIsPast(solo[k].patch)'
      <3>1. /\ \A i \in 1 .. Len(stashes) : Past(stashes[i], edits)
            /\ \A k \in SoloRuns : solo[k].patch \in Patches /\ Past(solo[k].patch, edits)
        BY <1>t DEF SoloInv, SoloTypeOK, SoloType, EditsAreCounted, PatchIsPast
      <3>2. /\ \A i \in 1 .. Len(stashes) : Past(stashes[i], edits')
            /\ \A k \in SoloRuns : Past(solo[k].patch, edits')
        <4> HIDE DEF Past
        <4>1. QED
          BY <1>p, <2>0, <3>1
      <3>3. QED
        BY <1>1, <1>2, <3>2 DEF PatchIsPast
    <2>2. /\ \A p \in Places, g \in SoloFiles : head'[p][g] <= edits' /\ trees'[p][g] <= edits'
          /\ \A g \in SoloFiles : mine'[g] <= edits'
      <3>1. /\ \A p \in Places, g \in SoloFiles :
                  /\ head[p][g] \in Nat /\ trees[p][g] \in Nat
                  /\ head[p][g] <= edits /\ trees[p][g] <= edits
            /\ \A g \in SoloFiles : mine[g] \in Nat /\ mine[g] <= edits
            /\ edits \in Nat
        BY <1>t DEF SoloInv, SoloTypeOK, Tree, EditsAreCounted
      <3>2. ASSUME NEW p \in Places, NEW g \in SoloFiles PROVE head'[p][g] <= edits' /\ trees'[p][g] <= edits'
        <4>1. trees'[p][g] = trees[p][g] \/ trees'[p][g] = edits + 1
          BY <1>3
        <4>2. QED
          BY <1>1, <3>1, <4>1
      <3>3. QED
        BY <1>1, <3>1, <3>2
    <2>3. QED
      BY <1>1, <2>1, <2>2 DEF EditsAreCounted
  <1>6. JobsHavePlaces' /\ AloneIsKnown'
    BY <1>1, <1>2 DEF SoloInv, JobsHavePlaces, AloneIsKnown
  <1>7. /\ head[Root][f] # edits + 1
        /\ \A i \in 1 .. Len(stashes) : f \in DOMAIN stashes[i] => stashes[i][f][1] # edits + 1
        /\ \A j \in SoloRuns : f \in DOMAIN solo[j].patch =>
              solo[j].patch[f][1] # edits + 1 /\ solo[j].patch[f][2] # edits + 1
    <2>1. head[Root][f] # edits + 1
      BY <1>t DEF SoloInv, SoloTypeOK, Tree, EditsAreCounted
    <2>2. ASSUME NEW i \in 1 .. Len(stashes), f \in DOMAIN stashes[i] PROVE stashes[i][f][1] # edits + 1
      <3>1. stashes[i][f][1] \in Nat /\ stashes[i][f][1] <= edits
        BY <2>2, <1>p, PatchSays DEF SoloInv, EditsAreCounted, PatchIsPast
      <3>2. QED
        BY <3>1, <1>t DEF SoloTypeOK
    <2>3. ASSUME NEW j \in SoloRuns, f \in DOMAIN solo[j].patch
          PROVE  solo[j].patch[f][1] # edits + 1 /\ solo[j].patch[f][2] # edits + 1
      <3>1. solo[j].patch \in Patches
        BY <1>t DEF SoloTypeOK, SoloType
      <3>2. /\ solo[j].patch[f][1] \in Nat /\ solo[j].patch[f][1] <= edits
            /\ solo[j].patch[f][2] \in Nat /\ solo[j].patch[f][2] <= edits
        BY <2>3, <3>1, PatchSays DEF SoloInv, EditsAreCounted, PatchIsPast
      <3>3. QED
        BY <3>2, <1>t DEF SoloTypeOK
    <2>4. QED
      BY <2>1, <2>2, <2>3
  <1>8. NeverBeneath'
    BY <1>1, <1>2, <1>3, <1>7 DEF SoloInv, NeverBeneath
  <1>9. NeverTaken'
    <2>1. SomeoneInRoot' <=> SomeoneInRoot
      BY <1>2 DEF SomeoneInRoot
    <2>2. CASE SomeoneInRoot
      BY <1>1, <1>2, <1>3, <2>1, <2>2 DEF SoloInv, NeverTaken
    <2>3. CASE ~SomeoneInRoot
      BY <1>1, <1>2, <1>3, <1>7, <2>1, <2>3 DEF SoloInv, NeverTaken
    <2>4. QED
      BY <2>2, <2>3
  <1>10. UserWorkIsKept'
    <2>1. \A g \in SoloFiles \ exposed' : g = f \/ g \in SoloFiles \ exposed
      BY <1>1
    <2>2. QED
      BY <1>1, <1>3, <2>1 DEF SoloInv, UserWorkIsKept
  <1>11. QED
    BY <1>4, <1>5, <1>6, <1>8, <1>9, <1>10 DEF SoloInv

(* The tool edits where its job is, and has not got the user's edits.      *)
LEMMA ToolStep ==
  ASSUME SoloInv, NEW j \in SoloRuns, NEW f \in SoloFiles, ToolEdits(j, f)
  PROVE  SoloInv'
  <1> DEFINE place == solo[j].place
  <1>t. SoloTypeOK /\ place \in Places /\ trees[place] \in Tree /\ solo[j].at = "run"
    BY DEF SoloInv, SoloTypeOK, SoloType, ToolEdits
  <1>1. /\ edits' = edits + 1 /\ trees' = [trees EXCEPT ![place] = [trees[place] EXCEPT ![f] = edits + 1]]
        /\ solo' = Disturbed(place, j) /\ UNCHANGED <<head, stashes, mine, exposed>>
    BY DEF ToolEdits
  <1>2. /\ solo' \in [SoloRuns -> SoloType]
        /\ \A k \in SoloRuns :
              /\ solo'[k].at = solo[k].at /\ solo'[k].place = solo[k].place /\ solo'[k].stashed = solo[k].stashed
              /\ solo'[k].patch = solo[k].patch /\ solo'[k].base = solo[k].base
              /\ solo'[k].alone => solo[k].alone
    BY <1>1, <1>t, DisturbedSays
  <1>3. /\ \A p \in Places \ {place} : trees'[p] = trees[p]
        /\ trees'[place][f] = edits + 1 /\ \A g \in SoloFiles \ {f} : trees'[place][g] = trees[place][g]
        /\ trees' \in [Places -> Tree]
    BY <1>1, <1>t DEF SoloTypeOK, Tree
  <1>4. SoloTypeOK'
    BY <1>1, <1>2, <1>3, <1>t DEF SoloTypeOK
  <1>p. \A i \in 1 .. Len(stashes) : stashes[i] \in Patches
    BY <1>t DEF SoloTypeOK
  <1>5. EditsAreCounted'
    <2> DEFINE Past(patch, count) == \A g \in DOMAIN patch : patch[g][1] <= count /\ patch[g][2] <= count
    <2>0. ASSUME NEW patch \in Patches, Past(patch, edits) PROVE Past(patch, edits')
      BY <1>1, <1>t, <2>0, PatchSays DEF SoloTypeOK
    <2>1. /\ \A i \in 1 .. Len(stashes) : PatchIsPast(stashes[i])'
          /\ \A k \in SoloRuns : PatchIsPast(solo[k].patch)'
      <3>1. /\ \A i \in 1 .. Len(stashes) : Past(stashes[i], edits)
            /\ \A k \in SoloRuns : solo[k].patch \in Patches /\ Past(solo[k].patch, edits)
        BY <1>t DEF SoloInv, SoloTypeOK, SoloType, EditsAreCounted, PatchIsPast
      <3>2. /\ \A i \in 1 .. Len(stashes) : Past(stashes[i], edits')
            /\ \A k \in SoloRuns : Past(solo[k].patch, edits')
        <4> HIDE DEF Past
        <4>1. QED
          BY <1>p, <2>0, <3>1
      <3>3. QED
        BY <1>1, <1>2, <3>2 DEF PatchIsPast
    <2>2. /\ \A p \in Places, g \in SoloFiles : head'[p][g] <= edits' /\ trees'[p][g] <= edits'
          /\ \A g \in SoloFiles : mine'[g] <= edits'
      <3>1. /\ \A p \in Places, g \in SoloFiles :
                  /\ head[p][g] \in Nat /\ trees[p][g] \in Nat
                  /\ head[p][g] <= edits /\ trees[p][g] <= edits
            /\ \A g \in SoloFiles : mine[g] \in Nat /\ mine[g] <= edits
            /\ edits \in Nat
        BY <1>t DEF SoloInv, SoloTypeOK, Tree, EditsAreCounted
      <3>2. ASSUME NEW p \in Places, NEW g \in SoloFiles PROVE head'[p][g] <= edits' /\ trees'[p][g] <= edits'
        <4>1. trees'[p][g] = trees[p][g] \/ trees'[p][g] = edits + 1
          BY <1>3
        <4>2. QED
          BY <1>1, <3>1, <4>1
      <3>3. QED
        BY <1>1, <3>1, <3>2
    <2>3. QED
      BY <1>1, <2>1, <2>2 DEF EditsAreCounted
  <1>6. JobsHavePlaces' /\ AloneIsKnown'
    BY <1>1, <1>2 DEF SoloInv, JobsHavePlaces, AloneIsKnown
  <1>7. NeverBeneath'
    BY <1>1, <1>2 DEF SoloInv, NeverBeneath
  <1>8. \A g \in SoloFiles : mine[g] \in Nat /\ mine[g] # edits + 1
    BY <1>t DEF SoloInv, SoloTypeOK, Tree, EditsAreCounted
  <1>9. SomeoneInRoot' <=> SomeoneInRoot
    BY <1>2 DEF SomeoneInRoot
  <1>10. \A g \in SoloFiles : trees'[Root][g] = edits + 1 \/ trees'[Root][g] = trees[Root][g]
    BY <1>3, PlacesAreApart
  <1>11. NeverTaken'
    BY <1>1, <1>2, <1>8, <1>9, <1>10 DEF SoloInv, NeverTaken
  <1>12. UserWorkIsKept'
    <2>1. CASE place = Root
      <3>1. SomeoneInRoot
        BY <1>t, <2>1 DEF SomeoneInRoot
      <3>2. QED
        BY <1>1, <3>1 DEF SoloInv, NeverTaken, UserWorkIsKept
    <2>2. CASE place # Root
      BY <1>1, <1>3, <2>2, PlacesAreApart DEF SoloInv, UserWorkIsKept
    <2>3. QED
      BY <2>1, <2>2
  <1>13. QED
    BY <1>4, <1>5, <1>6, <1>7, <1>11, <1>12 DEF SoloInv

(* What git stash takes from the tree was not committed: it is the user's. *)
LEMMA StashStep ==
  ASSUME SoloInv, NEW j \in SoloRuns, RunOnStashedTree(j)
  PROVE  SoloInv'
  <1> DEFINE diff == DiffIn(Root)
  <1>t. SoloTypeOK /\ trees[Root] \in Tree /\ head[Root] \in Tree /\ Root \in Places
    BY PlacesAreApart DEF SoloInv, SoloTypeOK
  <1>1. /\ stashes' = Append(stashes, diff) /\ trees' = [trees EXCEPT ![Root] = head[Root]]
        /\ solo' = [Disturbed(Root, j) EXCEPT ![j] = Started(j, Root, TRUE)[j]]
        /\ UNCHANGED <<head, edits, mine, exposed>>
    BY DEF RunOnStashedTree
  <1>2. /\ solo' \in [SoloRuns -> SoloType]
        /\ \A k \in SoloRuns \ {j} :
              /\ solo'[k].at = solo[k].at /\ solo'[k].place = solo[k].place /\ solo'[k].stashed = solo[k].stashed
              /\ solo'[k].patch = solo[k].patch /\ solo'[k].base = solo[k].base
              /\ solo'[k].alone => solo[k].alone
        /\ solo'[j].at = "run" /\ solo'[j].place = Root /\ solo'[j].stashed = TRUE /\ solo'[j].patch = NoPatch
        /\ solo'[j].base = head[Root]
    <2> DEFINE run == Started(j, Root, TRUE)[j]
               old == Disturbed(Root, j)
    <2>1. /\ run \in SoloType /\ run.at = "run" /\ run.place = Root /\ run.stashed = TRUE /\ run.patch = NoPatch
          /\ run.base = head[Root]
      <3>1. LET new == Started(j, Root, TRUE)
            IN  /\ new \in [SoloRuns -> SoloType]
                /\ \A k \in SoloRuns \ {j} : new[k] = solo[k]
                /\ new[j].at = "run" /\ new[j].place = Root /\ new[j].stashed = TRUE /\ new[j].patch = NoPatch
                /\ new[j].base = IF Root = Root /\ ~TRUE THEN trees[Root] ELSE head[Root]
                /\ new[j].alone => (Root = Root => TRUE \/ Clean)
        BY <1>t, StartedSays, Zenon
      <3>2. QED
        BY <3>1
    <2>2. /\ old \in [SoloRuns -> SoloType]
          /\ \A k \in SoloRuns :
                /\ old[k].at = solo[k].at /\ old[k].place = solo[k].place /\ old[k].stashed = solo[k].stashed
                /\ old[k].patch = solo[k].patch /\ old[k].base = solo[k].base
                /\ old[k].alone => solo[k].alone
      BY <1>t, DisturbedSays
    <2> HIDE DEF run, old
    <2>3. solo' = [old EXCEPT ![j] = run]
      BY <1>1 DEF run, old
    <2>4. QED
      BY <2>1, <2>2, <2>3
  <1>3. DOMAIN solo'[j].patch = {}
    BY <1>2, NoPatchIsEmpty, Zenon
  <1>4. /\ diff \in Patches /\ DOMAIN diff = {f \in SoloFiles : trees[Root][f] # head[Root][f]}
        /\ \A f \in DOMAIN diff : diff[f][1] = head[Root][f] /\ diff[f][2] = trees[Root][f]
    BY <1>t, DiffIsPatch
  <1> HIDE DEF diff
  <1>5. /\ stashes' \in Seq(Patches) /\ Len(stashes') = Len(stashes) + 1 /\ Len(stashes) \in Nat
        /\ \A i \in 1 .. Len(stashes) : stashes'[i] = stashes[i]
        /\ stashes'[Len(stashes) + 1] = diff
    BY <1>1, <1>4, <1>t DEF SoloTypeOK
  <1>6. \A i \in 1 .. Len(stashes') : \/ i \in 1 .. Len(stashes) /\ stashes'[i] = stashes[i]
                                      \/ stashes'[i] = diff
    BY <1>5
  <1>7. trees' \in [Places -> Tree] /\ trees'[Root] = head[Root] /\ \A p \in Places \ {Root} : trees'[p] = trees[p]
    BY <1>1, <1>t DEF SoloTypeOK
  <1>8. SoloTypeOK'
    BY <1>1, <1>2, <1>5, <1>7, <1>t DEF SoloTypeOK
  <1>9. EditsAreCounted'
    <2>1. PatchIsPast(diff)
      BY <1>4, <1>t DEF SoloInv, EditsAreCounted, PatchIsPast
    <2>2. \A i \in 1 .. Len(stashes') : PatchIsPast(stashes[i])'
      BY <1>1, <1>6, <2>1 DEF SoloInv, EditsAreCounted, PatchIsPast
    <2>3. \A k \in SoloRuns : PatchIsPast(solo[k].patch)'
      BY <1>1, <1>2, <1>3 DEF SoloInv, EditsAreCounted, PatchIsPast
    <2>4. \A p \in Places, f \in SoloFiles : head'[p][f] <= edits' /\ trees'[p][f] <= edits'
      BY <1>1, <1>7, <1>t DEF SoloInv, EditsAreCounted
    <2>5. QED
      BY <1>1, <2>2, <2>3, <2>4 DEF SoloInv, EditsAreCounted
  <1>10. JobsHavePlaces'
    BY <1>2, NoPatchIsEmpty DEF SoloInv, JobsHavePlaces
  <1>11. AloneIsKnown'
    <2>1. ASSUME NEW k \in SoloRuns, solo'[k].alone
          PROVE  /\ solo'[k].at = "run" => head'[solo'[k].place] = solo'[k].base
                 /\ \A f \in DOMAIN solo'[k].patch : solo'[k].patch[f][1] = solo'[k].base[f]
      <3>1. CASE k = j
        BY <1>1, <1>2, <1>3, <3>1
      <3>2. CASE k # j
        BY <1>1, <1>2, <2>1, <3>2 DEF SoloInv, AloneIsKnown
      <3>3. QED
        BY <3>1, <3>2
    <2>2. QED
      BY <2>1 DEF AloneIsKnown
  <1>12. NeverBeneath'
    <2>1. ASSUME NEW f \in SoloFiles, mine'[f] # 0
          PROVE  /\ head'[Root][f] # mine'[f]
                 /\ \A i \in 1 .. Len(stashes') : f \in DOMAIN stashes'[i] => stashes'[i][f][1] # mine'[f]
                 /\ \A k \in SoloRuns : solo'[k].place = Root /\ f \in DOMAIN solo'[k].patch =>
                       solo'[k].patch[f][1] # mine'[f]
      <3>1. mine'[f] = mine[f] /\ head'[Root][f] # mine[f] /\ head' = head
        BY <1>1, <2>1 DEF SoloInv, NeverBeneath
      <3>2. \A i \in 1 .. Len(stashes') : f \in DOMAIN stashes'[i] => stashes'[i][f][1] # mine[f]
        BY <1>4, <1>6, <2>1, <3>1 DEF SoloInv, NeverBeneath
      <3>3. ASSUME NEW k \in SoloRuns, solo'[k].place = Root, f \in DOMAIN solo'[k].patch
            PROVE  solo'[k].patch[f][1] # mine[f]
        <4>1. k # j
          BY <1>3, <3>3
        <4>2. QED
          BY <1>2, <2>1, <3>1, <3>3, <4>1 DEF SoloInv, NeverBeneath
      <3>4. QED
        BY <3>1, <3>2, <3>3
    <2>2. QED
      BY <2>1 DEF NeverBeneath
  <1>13. NeverTaken'
    <2>1. ASSUME NEW f \in SoloFiles \ exposed', mine'[f] # 0
          PROVE  /\ \A k \in SoloRuns : solo'[k].place = Root /\ f \in DOMAIN solo'[k].patch =>
                       solo'[k].patch[f][2] # mine'[f]
                 /\ trees'[Root][f] # mine'[f]
      <3>1. ASSUME NEW k \in SoloRuns, solo'[k].place = Root, f \in DOMAIN solo'[k].patch
            PROVE  solo'[k].patch[f][2] # mine'[f]
        <4>1. k # j
          BY <1>3, <3>1
        <4>2. QED
          BY <1>1, <1>2, <2>1, <3>1, <4>1 DEF SoloInv, NeverTaken
      <3>2. trees'[Root][f] # mine'[f]
        BY <1>1, <1>7, <2>1 DEF SoloInv, NeverBeneath
      <3>3. QED
        BY <3>1, <3>2
    <2>2. QED
      BY <2>1 DEF NeverTaken
  <1>14. UserWorkIsKept'
    <2>1. ASSUME NEW f \in SoloFiles \ exposed', mine'[f] # 0
          PROVE  \E i \in 1 .. Len(stashes') : f \in DOMAIN stashes'[i] /\ stashes'[i][f][2] = mine'[f]
      <3>1. CASE trees[Root][f] = mine[f]
        <4>1. f \in DOMAIN diff /\ diff[f][2] = mine[f]
          BY <1>1, <1>4, <2>1, <3>1 DEF SoloInv, NeverBeneath
        <4>2. Len(stashes) + 1 \in 1 .. Len(stashes')
          BY <1>5
        <4>3. QED
          BY <1>1, <1>5, <4>1, <4>2
      <3>2. CASE trees[Root][f] # mine[f]
        <4>1. PICK i \in DOMAIN stashes : f \in DOMAIN stashes[i] /\ stashes[i][f][2] = mine[f]
          BY <1>1, <2>1, <3>2 DEF SoloInv, UserWorkIsKept
        <4>2. i \in 1 .. Len(stashes) /\ i \in 1 .. Len(stashes')
          BY <1>5, <1>t DEF SoloTypeOK
        <4>3. QED
          BY <1>1, <1>5, <4>1, <4>2
      <3>3. QED
        BY <3>1, <3>2
    <2>2. DOMAIN stashes' = 1 .. Len(stashes')
      BY <1>5
    <2>3. QED
      BY <2>1, <2>2 DEF UserWorkIsKept
  <1>15. QED
    BY <1>8, <1>9, <1>10, <1>11, <1>12, <1>13, <1>14 DEF SoloInv

(* A worktree of its own is at the commit the user's tree is at.           *)
LEMMA WorktreeStep ==
  ASSUME SoloInv, NEW j \in SoloRuns, RunInWorktree(j)
  PROVE  SoloInv'
  <1>t. SoloTypeOK /\ head[Root] \in Tree /\ Root \in Places /\ j \in Places /\ j # Root
    BY PlacesAreApart DEF SoloInv, SoloTypeOK
  <1>1. /\ trees' = [trees EXCEPT ![j] = head[Root]] /\ head' = [head EXCEPT ![j] = head[Root]]
        /\ solo' = Started(j, j, FALSE) /\ UNCHANGED <<stashes, edits, mine, exposed>>
    BY DEF RunInWorktree
  <1>2. /\ solo' \in [SoloRuns -> SoloType] /\ \A k \in SoloRuns \ {j} : solo'[k] = solo[k]
        /\ solo'[j].at = "run" /\ solo'[j].place = j /\ solo'[j].stashed = FALSE /\ solo'[j].patch = NoPatch
        /\ solo'[j].base = head[Root]
    <2>1. LET new == Started(j, j, FALSE)
          IN  /\ new \in [SoloRuns -> SoloType]
              /\ \A k \in SoloRuns \ {j} : new[k] = solo[k]
              /\ new[j].at = "run" /\ new[j].place = j /\ new[j].stashed = FALSE /\ new[j].patch = NoPatch
              /\ new[j].base = IF j = Root /\ ~FALSE THEN trees[Root] ELSE head[Root]
              /\ new[j].alone => (j = Root => FALSE \/ Clean)
      <3>1. FALSE \in BOOLEAN
        OBVIOUS
      <3>2. SoloTypeOK
        BY <1>t
      <3>3. j \in Places
        BY <1>t
      <3>4. QED
        BY <3>1, <3>2, <3>3, StartedSays, ZenonT(60)
    <2>2. QED
      BY <1>1, <1>t, <2>1
  <1>3. DOMAIN solo'[j].patch = {}
    BY <1>2, NoPatchIsEmpty, Zenon
  <1>4. /\ trees' \in [Places -> Tree] /\ head' \in [Places -> Tree]
        /\ trees'[Root] = trees[Root] /\ head'[Root] = head[Root] /\ head'[j] = head[Root] /\ trees'[j] = head[Root]
        /\ \A p \in Places \ {j} : head'[p] = head[p] /\ trees'[p] = trees[p]
    BY <1>1, <1>t DEF SoloTypeOK
  <1>5. SoloTypeOK'
    BY <1>1, <1>2, <1>4, <1>t DEF SoloTypeOK
  <1>6. EditsAreCounted'
    <2>1. \A k \in SoloRuns : PatchIsPast(solo[k].patch)'
      BY <1>1, <1>2, <1>3 DEF SoloInv, EditsAreCounted, PatchIsPast
    <2>2. \A p \in Places, f \in SoloFiles : head'[p][f] <= edits' /\ trees'[p][f] <= edits'
      BY <1>1, <1>4, <1>t DEF SoloInv, EditsAreCounted
    <2>3. QED
      BY <1>1, <2>1, <2>2 DEF SoloInv, EditsAreCounted, PatchIsPast
  <1>7. JobsHavePlaces'
    BY <1>2, NoPatchIsEmpty DEF SoloInv, JobsHavePlaces
  <1>8. \A k \in SoloRuns : solo'[k].place = Root => solo'[k] = solo[k]
    BY <1>2, <1>t
  <1>9. NeverBeneath' /\ NeverTaken'
    <2>1. (SomeoneInRoot)' => SomeoneInRoot
      BY <1>2, <1>t DEF SomeoneInRoot
    <2>2. ASSUME NEW f \in SoloFiles, mine[f] # 0, NEW k \in SoloRuns,
                 solo'[k].place = Root, f \in DOMAIN solo'[k].patch
          PROVE  /\ solo'[k].patch[f][1] # mine[f]
                 /\ f \notin exposed => solo'[k].patch[f][2] # mine[f]
      <3>1. solo'[k] = solo[k]
        BY <1>8, <2>2
      <3>2. QED
        BY <2>2, <3>1 DEF SoloInv, NeverBeneath, NeverTaken
    <2>3. NeverBeneath'
      <3>1. \A f \in SoloFiles : mine[f] # 0 =>
              /\ head[Root][f] # mine[f]
              /\ \A i \in 1 .. Len(stashes) : f \in DOMAIN stashes[i] => stashes[i][f][1] # mine[f]
        BY DEF SoloInv, NeverBeneath
      <3>2. mine' = mine /\ stashes' = stashes /\ head'[Root] = head[Root]
        BY <1>1, <1>4
      <3>3. QED
        BY <2>2, <3>1, <3>2 DEF NeverBeneath
    <2>4. NeverTaken'
      <3>1. \A f \in SoloFiles : SomeoneInRoot /\ mine[f] # 0 /\ f \notin exposed => trees[Root][f] # mine[f]
        BY DEF SoloInv, NeverTaken
      <3>2. mine' = mine /\ exposed' = exposed /\ trees'[Root] = trees[Root]
        BY <1>1, <1>4
      <3>3. QED
        BY <2>1, <2>2, <3>1, <3>2 DEF NeverTaken
    <2>5. QED
      BY <2>3, <2>4
  <1>10. AloneIsKnown'
    <2>1. ASSUME NEW k \in SoloRuns, solo'[k].alone
          PROVE  /\ solo'[k].at = "run" => head'[solo'[k].place] = solo'[k].base
                 /\ \A f \in DOMAIN solo'[k].patch : solo'[k].patch[f][1] = solo'[k].base[f]
      <3>1. CASE k = j
        BY <1>2, <1>3, <1>4, <3>1
      <3>2. CASE k # j
        <4>1. solo'[k] = solo[k]
          BY <1>2, <3>2
        <4>2. solo[k].place \in Places \ {j}
          BY <1>t, <3>2, PlacesAreApart DEF SoloInv, JobsHavePlaces
        <4>3. QED
          BY <1>4, <2>1, <4>1, <4>2 DEF SoloInv, AloneIsKnown
      <3>3. QED
        BY <3>1, <3>2
    <2>2. QED
      BY <2>1 DEF AloneIsKnown
  <1>11. UserWorkIsKept'
    BY <1>1, <1>4 DEF SoloInv, UserWorkIsKept
  <1>12. QED
    BY <1>5, <1>6, <1>7, <1>9, <1>10, <1>11 DEF SoloInv

(* The patch of a job: from what is committed to what is there.            *)
LEMMA CaptureStep ==
  ASSUME SoloInv, NEW j \in SoloRuns, CaptureDiff(j)
  PROVE  SoloInv'
  <1> DEFINE place == solo[j].place
             diff == DiffIn(place)
  <1>t. SoloTypeOK /\ solo \in [SoloRuns -> SoloType] /\ place \in Places /\ solo[j].at = "run"
    BY DEF SoloInv, SoloTypeOK, SoloType, CaptureDiff
  <1>1. /\ solo' = [solo EXCEPT ![j] = [solo[j] EXCEPT !.at = "guard", !.patch = diff]]
        /\ UNCHANGED <<head, trees, stashes, edits, mine, exposed>>
    BY DEF CaptureDiff
  <1>2. /\ diff \in Patches /\ DOMAIN diff = {f \in SoloFiles : trees[place][f] # head[place][f]}
        /\ \A f \in DOMAIN diff : diff[f][1] = head[place][f] /\ diff[f][2] = trees[place][f]
    BY <1>t, DiffIsPatch
  <1> HIDE DEF diff
  <1>3. /\ solo' \in [SoloRuns -> SoloType]
        /\ solo'[j].at = "guard" /\ solo'[j].patch = diff /\ solo'[j].place = place /\ solo'[j].alone = solo[j].alone
        /\ solo'[j].base = solo[j].base /\ solo'[j].stashed = solo[j].stashed
        /\ \A k \in SoloRuns \ {j} : solo'[k] = solo[k]
    BY <1>1, <1>2, <1>t DEF SoloType
  <1>4. SoloTypeOK'
    BY <1>1, <1>3, <1>t DEF SoloTypeOK
  <1>5. EditsAreCounted'
    <2>1. \A f \in DOMAIN diff : diff[f][1] <= edits /\ diff[f][2] <= edits
      BY <1>2, <1>t DEF SoloInv, EditsAreCounted
    <2>2. ASSUME NEW k \in SoloRuns PROVE PatchIsPast(solo[k].patch)'
      <3>1. CASE k = j
        BY <1>1, <1>3, <2>1, <3>1 DEF PatchIsPast
      <3>2. CASE k # j
        BY <1>1, <1>3, <3>2 DEF SoloInv, EditsAreCounted, PatchIsPast
      <3>3. QED
        BY <3>1, <3>2
    <2>3. QED
      BY <1>1, <2>2 DEF SoloInv, EditsAreCounted, PatchIsPast
  <1>6. JobsHavePlaces'
    BY <1>3 DEF SoloInv, JobsHavePlaces
  <1>7. SomeoneInRoot' => SomeoneInRoot
    BY <1>3, <1>t DEF SomeoneInRoot
  <1>8. NeverBeneath'
    <2>1. ASSUME NEW f \in SoloFiles, mine[f] # 0, NEW k \in SoloRuns,
                 solo'[k].place = Root, f \in DOMAIN solo'[k].patch
          PROVE  solo'[k].patch[f][1] # mine[f]
      <3>1. CASE k = j
        BY <1>2, <1>3, <2>1, <3>1 DEF SoloInv, NeverBeneath
      <3>2. CASE k # j
        BY <1>3, <2>1, <3>2 DEF SoloInv, NeverBeneath
      <3>3. QED
        BY <3>1, <3>2
    <2>2. QED
      BY <1>1, <2>1 DEF SoloInv, NeverBeneath
  <1>9. NeverTaken'
    <2>1. ASSUME NEW f \in SoloFiles \ exposed, mine[f] # 0, NEW k \in SoloRuns,
                 solo'[k].place = Root, f \in DOMAIN solo'[k].patch
          PROVE  solo'[k].patch[f][2] # mine[f]
      <3>1. CASE k = j
        <4>1. SomeoneInRoot /\ place = Root
          BY <1>3, <1>t, <2>1, <3>1 DEF SomeoneInRoot
        <4>2. QED
          BY <1>2, <1>3, <2>1, <3>1, <4>1 DEF SoloInv, NeverTaken
      <3>2. CASE k # j
        BY <1>3, <2>1, <3>2 DEF SoloInv, NeverTaken
      <3>3. QED
        BY <3>1, <3>2
    <2>2. QED
      BY <1>1, <1>7, <2>1 DEF SoloInv, NeverTaken
  <1>10. AloneIsKnown'
    <2>1. ASSUME NEW k \in SoloRuns, solo'[k].alone
          PROVE  /\ solo'[k].at = "run" => head'[solo'[k].place] = solo'[k].base
                 /\ \A f \in DOMAIN solo'[k].patch : solo'[k].patch[f][1] = solo'[k].base[f]
      <3>1. CASE k = j
        <4>1. head[place] = solo[j].base
          BY <1>3, <1>t, <2>1, <3>1 DEF SoloInv, AloneIsKnown
        <4>2. QED
          BY <1>2, <1>3, <3>1, <4>1
      <3>2. CASE k # j
        <4>1. solo'[k] = solo[k]
          BY <1>3, <3>2
        <4>2. /\ solo[k].at = "run" => head[solo[k].place] = solo[k].base
              /\ \A f \in DOMAIN solo[k].patch : solo[k].patch[f][1] = solo[k].base[f]
          BY <2>1, <4>1 DEF SoloInv, AloneIsKnown
        <4>3. QED
          BY <1>1, <4>1, <4>2
      <3>3. QED
        BY <3>1, <3>2
    <2>2. QED
      BY <2>1 DEF AloneIsKnown
  <1>11. UserWorkIsKept'
    BY <1>1 DEF SoloInv, UserWorkIsKept
  <1>12. QED
    BY <1>4, <1>5, <1>6, <1>8, <1>9, <1>10, <1>11 DEF SoloInv

(* A job is over, or another's: what its steps do to the others' records.  *)
LEMMA OthersStand ==
  ASSUME SoloInv, NEW place, NEW j \in SoloRuns, NEW new \in [SoloRuns -> SoloType], new = Disturbed(place, j),
         solo' \in [SoloRuns -> SoloType],
         \A k \in SoloRuns :
            /\ solo'[k].at = new[k].at \/ solo'[k].at = "away"
            /\ solo'[k].place = new[k].place /\ solo'[k].stashed = new[k].stashed
            /\ solo'[k].patch = new[k].patch /\ solo'[k].base = new[k].base /\ solo'[k].alone = new[k].alone,
         head' = head
  PROVE  JobsHavePlaces' /\ AloneIsKnown' /\ (SomeoneInRoot' => SomeoneInRoot)
  <1>1. \A k \in SoloRuns :
          /\ solo'[k].at = solo[k].at \/ solo'[k].at = "away"
          /\ solo'[k].place = solo[k].place /\ solo'[k].stashed = solo[k].stashed
          /\ solo'[k].patch = solo[k].patch /\ solo'[k].base = solo[k].base /\ (solo'[k].alone => solo[k].alone)
    BY DisturbedSays DEF SoloInv
  <1>2. JobsHavePlaces'
    BY <1>1 DEF SoloInv, JobsHavePlaces
  <1>3. SomeoneInRoot' => SomeoneInRoot
    BY <1>1 DEF SomeoneInRoot
  <1>4. AloneIsKnown'
    BY <1>1 DEF SoloInv, AloneIsKnown
  <1>5. QED
    BY <1>2, <1>3, <1>4

(* The stash on top is of files that are not the user's: its own are kept, *)
(* and come back if they are in it.                                        *)
LEMMA PopStep ==
  ASSUME SoloInv, NEW j \in SoloRuns, PopStash(j)
  PROVE  SoloInv'
  <1> DEFINE old == Disturbed(Root, j)
             n == Len(stashes)
             pops == stashes # <<>> /\ Applies(Top)
  <1>t. SoloTypeOK /\ Root \in Places /\ trees[Root] \in Tree
    BY PlacesAreApart DEF SoloInv, SoloTypeOK
  <1>1. /\ pops => stashes' = Popped /\ trees' = Applied(Top)
        /\ ~pops => UNCHANGED <<stashes, trees>>
        /\ exposed' = IF Beside(j) THEN SoloFiles ELSE exposed
        /\ UNCHANGED <<head, edits, mine>>
        /\ solo' = [old EXCEPT ![j].at = "away"]
    BY DEF PopStash
  <1>2. /\ old \in [SoloRuns -> SoloType]
        /\ \A k \in SoloRuns :
              /\ old[k].at = solo[k].at /\ old[k].place = solo[k].place /\ old[k].patch = solo[k].patch
    BY <1>t, DisturbedSays
  <1>3. old = Disturbed(Root, j)
    OBVIOUS
  <1> HIDE DEF old
  <1>4. /\ solo' \in [SoloRuns -> SoloType]
        /\ \A k \in SoloRuns :
              /\ solo'[k].at = old[k].at \/ solo'[k].at = "away"
              /\ solo'[k].place = old[k].place /\ solo'[k].stashed = old[k].stashed
              /\ solo'[k].patch = old[k].patch /\ solo'[k].base = old[k].base /\ solo'[k].alone = old[k].alone
        /\ solo'[j].at = "away"
    BY <1>1, <1>2 DEF SoloType
  <1>5. JobsHavePlaces' /\ AloneIsKnown'
    BY <1>1, <1>2, <1>3, <1>4, OthersStand
  <1>6. ~Beside(j) => ~SomeoneInRoot'
    BY <1>2, <1>4 DEF Beside, Running, SomeoneInRoot
  <1>7. exposed \subseteq exposed' /\ exposed' \subseteq SoloFiles
    BY <1>1, <1>t DEF SoloTypeOK
  <1>8. \A k \in SoloRuns : solo'[k].place = solo[k].place /\ solo'[k].patch = solo[k].patch
    BY <1>2, <1>4
  <1>9. /\ stashes \in Seq(Patches) /\ n \in Nat /\ DOMAIN stashes = 1 .. n
        /\ pops => n \in 1 .. n /\ Top = stashes[n] /\ stashes[n] \in Patches
    BY <1>t DEF SoloTypeOK, Top
  <1>10. /\ stashes' \in Seq(Patches) /\ Len(stashes') <= n /\ DOMAIN stashes' = 1 .. Len(stashes')
         /\ \A i \in 1 .. Len(stashes') : i \in 1 .. n /\ stashes'[i] = stashes[i]
         /\ pops => Len(stashes') = n - 1
    <2>0. pops => stashes' = SubSeq(stashes, 1, n - 1)
      BY <1>1 DEF Popped
    <2>9. n = Len(stashes) /\ (~pops => stashes' = stashes)
      BY <1>1
    <2> HIDE DEF pops, n
    <2>1. CASE pops
      <3>1. 1 \in 1 .. n + 1 /\ n - 1 \in 1 - 1 .. n /\ n \in Nat /\ n >= 1
        BY <1>9, <2>1
      <3>2. stashes' \in Seq(Patches) /\ Len(stashes') = n - 1 /\ \A i \in 1 .. n - 1 : stashes'[i] = stashes[i]
        <4>1. \A i \in 1 .. n - 1 : stashes[i] \in Patches
          BY <1>9, <3>1
        <4>2. 1 \in Int /\ n - 1 \in Int
          BY <3>1
        <4>3. /\ SubSeq(stashes, 1, n - 1) \in Seq(Patches)
              /\ Len(SubSeq(stashes, 1, n - 1)) = IF 1 <= n - 1 THEN (n - 1) - 1 + 1 ELSE 0
              /\ \A i \in 1 .. (n - 1) - 1 + 1 : SubSeq(stashes, 1, n - 1)[i] = stashes[1 + i - 1]
          BY <4>1, <4>2, SubSeqProperties
        <4>4. QED
          BY <2>0, <2>1, <3>1, <4>3
      <3>3. QED
        BY <1>9, <2>1, <2>9, <3>1, <3>2
    <2>2. CASE ~pops
      <3>1. stashes' = stashes
        BY <2>2, <2>9
      <3>2. stashes \in Seq(Patches) /\ n \in Nat /\ DOMAIN stashes = 1 .. n /\ Len(stashes) = n
        BY <1>9, <2>9
      <3>3. Len(stashes') <= n /\ \A i \in 1 .. Len(stashes') : i \in 1 .. n /\ stashes'[i] = stashes[i]
        BY <3>1, <3>2
      <3>4. QED
        BY <2>2, <3>1, <3>2, <3>3
    <2>3. QED
      BY <2>1, <2>2
  <1>11. pops => \A f \in DOMAIN Top : f \in SoloFiles /\ trees[Root][f] = Top[f][1] /\ Top[f][2] \in Nat
    <2> SUFFICES ASSUME pops PROVE \A f \in DOMAIN Top : f \in SoloFiles /\ trees[Root][f] = Top[f][1] /\ Top[f][2] \in Nat
      OBVIOUS
    <2>1. Top \in Patches
      BY <1>9
    <2>2. DOMAIN Top \subseteq SoloFiles /\ \A f \in DOMAIN Top : Top[f][2] \in Nat
      BY <2>1, PatchSays
    <2>3. QED
      BY <2>2 DEF Applies
  <1>12. /\ trees' \in [Places -> Tree] /\ \A p \in Places \ {Root} : trees'[p] = trees[p]
         /\ pops => \A f \in SoloFiles : trees'[Root][f] = IF f \in DOMAIN Top THEN Top[f][2] ELSE trees[Root][f]
         /\ ~pops => trees'[Root] = trees[Root]
    <2>1. CASE pops
      <3> DEFINE new == [f \in SoloFiles |-> IF f \in DOMAIN Top THEN Top[f][2] ELSE trees[Root][f]]
      <3>1. trees' = [trees EXCEPT ![Root] = new]
        BY <1>1, <2>1 DEF Applied
      <3>2. new \in Tree
        BY <1>11, <1>t, <2>1 DEF Tree
      <3>3. \A f \in SoloFiles : new[f] = IF f \in DOMAIN Top THEN Top[f][2] ELSE trees[Root][f]
        OBVIOUS
      <3> HIDE DEF new
      <3>4. QED
        BY <1>t, <2>1, <3>1, <3>2, <3>3 DEF SoloTypeOK
    <2>2. CASE ~pops
      BY <1>1, <1>t, <2>2 DEF SoloTypeOK
    <2>3. QED
      BY <2>1, <2>2
  <1> HIDE DEF pops
  <1>13. SoloTypeOK'
    BY <1>1, <1>4, <1>7, <1>10, <1>12, <1>t DEF SoloTypeOK
  <1>14. EditsAreCounted'
    <2>1. \A k \in SoloRuns : PatchIsPast(solo[k].patch)'
      BY <1>1, <1>8 DEF SoloInv, EditsAreCounted, PatchIsPast
    <2>2. \A i \in 1 .. Len(stashes') : PatchIsPast(stashes[i])'
      BY <1>1, <1>10 DEF SoloInv, EditsAreCounted, PatchIsPast
    <2>3. \A f \in SoloFiles : trees'[Root][f] <= edits
      <3>1. pops => \A f \in DOMAIN Top : Top[f][2] <= edits
        BY <1>9 DEF SoloInv, EditsAreCounted, PatchIsPast
      <3>2. QED
        BY <1>12, <1>t, <3>1 DEF SoloInv, EditsAreCounted
    <2>4. \A p \in Places, f \in SoloFiles : head'[p][f] <= edits' /\ trees'[p][f] <= edits'
      BY <1>1, <1>12, <2>3 DEF SoloInv, EditsAreCounted
    <2>5. QED
      BY <1>1, <2>1, <2>2, <2>4 DEF SoloInv, EditsAreCounted
  <1>15. NeverBeneath'
    BY <1>1, <1>8, <1>10 DEF SoloInv, NeverBeneath
  <1>16. NeverTaken'
    <2>1. CASE Beside(j)
      BY <1>1, <2>1 DEF NeverTaken
    <2>2. CASE ~Beside(j)
      BY <1>1, <1>6, <1>8, <2>2 DEF SoloInv, NeverTaken
    <2>3. QED
      BY <2>1, <2>2
  <1>17. UserWorkIsKept'
    <2>1. ASSUME NEW f \in SoloFiles \ exposed', mine'[f] # 0
          PROVE  \/ trees'[Root][f] = mine'[f]
                 \/ \E i \in 1 .. Len(stashes') : f \in DOMAIN stashes'[i] /\ stashes'[i][f][2] = mine'[f]
      <3>1. /\ mine'[f] = mine[f] /\ mine[f] # 0 /\ f \in SoloFiles \ exposed
            /\ \/ trees[Root][f] = mine[f]
               \/ \E i \in 1 .. n : f \in DOMAIN stashes[i] /\ stashes[i][f][2] = mine[f]
        BY <1>1, <1>7, <1>9, <2>1 DEF SoloInv, UserWorkIsKept
      <3>2. CASE ~pops
        BY <1>1, <1>9, <1>12, <3>1, <3>2 DEF pops
      <3>3. CASE pops /\ f \in DOMAIN Top /\ Top[f][2] = mine[f]
        BY <1>12, <3>1, <3>3
      <3>4. CASE pops /\ ~(f \in DOMAIN Top /\ Top[f][2] = mine[f])
        <4>1. f \in DOMAIN Top => trees[Root][f] # mine[f]
          BY <1>9, <1>11, <3>1, <3>4 DEF SoloInv, NeverBeneath
        <4>2. CASE trees[Root][f] = mine[f]
          BY <1>12, <3>1, <3>4, <4>1, <4>2
        <4>3. CASE \E i \in 1 .. n : f \in DOMAIN stashes[i] /\ stashes[i][f][2] = mine[f]
          <5>1. PICK i \in 1 .. n : f \in DOMAIN stashes[i] /\ stashes[i][f][2] = mine[f]
            BY <4>3
          <5>2. i # n
            BY <1>9, <3>4, <5>1
          <5>3. i \in 1 .. Len(stashes')
            <6>1. n \in Nat /\ Len(stashes') = n - 1
              BY <1>9, <1>10, <3>4
            <6> HIDE DEF n
            <6>2. QED
              BY <5>1, <5>2, <6>1
          <5>4. QED
            BY <1>10, <3>1, <5>1, <5>3
        <4>4. QED
          BY <3>1, <4>2, <4>3
      <3>5. QED
        BY <3>2, <3>3, <3>4
    <2>2. QED
      BY <1>10, <2>1 DEF UserWorkIsKept
  <1>18. QED
    BY <1>5, <1>13, <1>14, <1>15, <1>16, <1>17 DEF SoloInv

(* What a job left is not the user's, nor what was there before it.        *)
LEMMA UndoStep ==
  ASSUME SoloInv, NEW j \in SoloRuns, Undo(j)
  PROVE  SoloInv'
  <1> DEFINE place == solo[j].place
             patch == solo[j].patch
             old == Disturbed(place, j)
             new == [f \in SoloFiles |-> IF f \in DOMAIN patch THEN patch[f][1] ELSE trees[place][f]]
  <1>t. /\ SoloTypeOK /\ Root \in Places /\ place \in Places /\ patch \in Patches
        /\ trees[place] \in Tree /\ trees[Root] \in Tree
    BY PlacesAreApart DEF SoloInv, SoloTypeOK, SoloType
  <1>1. /\ trees' = [trees EXCEPT ![place] = new]
        /\ \A f \in DOMAIN patch : trees[place][f] = patch[f][2]
        /\ solo' = [old EXCEPT ![j].status = "reverted"]
        /\ UNCHANGED <<head, stashes, edits, mine, exposed>>
    BY DEF Undo, Reverses
  <1>2. /\ old \in [SoloRuns -> SoloType]
        /\ \A k \in SoloRuns : old[k].place = solo[k].place /\ old[k].patch = solo[k].patch
    BY <1>t, DisturbedSays
  <1>3. old = Disturbed(place, j)
    OBVIOUS
  <1>4. /\ new \in Tree
        /\ \A f \in SoloFiles : new[f] = IF f \in DOMAIN patch THEN patch[f][1] ELSE trees[place][f]
    BY <1>t, PatchSays DEF Tree
  <1> HIDE DEF old, new, patch
  <1>5. /\ solo' \in [SoloRuns -> SoloType]
        /\ \A k \in SoloRuns :
              /\ solo'[k].at = old[k].at \/ solo'[k].at = "away"
              /\ solo'[k].place = old[k].place /\ solo'[k].stashed = old[k].stashed
              /\ solo'[k].patch = old[k].patch /\ solo'[k].base = old[k].base /\ solo'[k].alone = old[k].alone
    BY <1>1, <1>2 DEF SoloType
  <1>6. JobsHavePlaces' /\ AloneIsKnown' /\ (SomeoneInRoot' => SomeoneInRoot)
    BY <1>1, <1>2, <1>3, <1>5, OthersStand
  <1>7. \A k \in SoloRuns : solo'[k].place = solo[k].place /\ solo'[k].patch = solo[k].patch
    BY <1>2, <1>5
  <1>8. trees' \in [Places -> Tree] /\ trees'[place] = new /\ \A p \in Places \ {place} : trees'[p] = trees[p]
    BY <1>1, <1>4, <1>t DEF SoloTypeOK
  <1>9. SoloTypeOK'
    BY <1>1, <1>5, <1>8, <1>t DEF SoloTypeOK
  <1>10. EditsAreCounted'
    <2>1. \A k \in SoloRuns : PatchIsPast(solo[k].patch)'
      BY <1>1, <1>7 DEF SoloInv, EditsAreCounted, PatchIsPast
    <2>2. \A f \in SoloFiles : new[f] <= edits
      BY <1>4, <1>t DEF SoloInv, EditsAreCounted, PatchIsPast, patch
    <2>3. \A p \in Places, f \in SoloFiles : head'[p][f] <= edits' /\ trees'[p][f] <= edits'
      BY <1>1, <1>8, <2>2 DEF SoloInv, EditsAreCounted
    <2>4. QED
      BY <1>1, <2>1, <2>3 DEF SoloInv, EditsAreCounted, PatchIsPast
  <1>11. NeverBeneath'
    BY <1>1, <1>7 DEF SoloInv, NeverBeneath
  <1>12. ASSUME NEW f \in SoloFiles \ exposed, mine[f] # 0
         PROVE  /\ trees[Root][f] = mine[f] => trees'[Root][f] = mine[f]
                /\ trees[Root][f] # mine[f] => trees'[Root][f] # mine[f]
    <2>1. CASE place = Root /\ f \in DOMAIN patch
      <3>1. patch[f][2] # mine[f] /\ patch[f][1] # mine[f]
        BY <1>12, <2>1 DEF SoloInv, NeverTaken, NeverBeneath, patch
      <3>2. QED
        BY <1>1, <1>4, <1>8, <2>1, <3>1
    <2>2. CASE ~(place = Root /\ f \in DOMAIN patch)
      BY <1>4, <1>8, <1>t, <2>2
    <2>3. QED
      BY <2>1, <2>2
  <1>13. NeverTaken'
    BY <1>1, <1>6, <1>7, <1>12 DEF SoloInv, NeverTaken
  <1>14. UserWorkIsKept'
    BY <1>1, <1>12 DEF SoloInv, UserWorkIsKept
  <1>15. QED
    BY <1>6, <1>9, <1>10, <1>11, <1>13, <1>14 DEF SoloInv

(* A commit takes the files as they are: the user's, too, if they are      *)
(* there.                                                                  *)
LEMMA CommitStep ==
  ASSUME SoloInv, NEW j \in SoloRuns, CommitJob(j)
  PROVE  SoloInv'
  <1> DEFINE place == solo[j].place
             patch == solo[j].patch
             committed == [f \in SoloFiles |-> IF f \in DOMAIN patch THEN trees[place][f] ELSE head[place][f]]
  <1>t. /\ SoloTypeOK /\ Root \in Places /\ place \in Places /\ mine \in Tree
        /\ trees[place] \in Tree /\ head[place] \in Tree
    BY PlacesAreApart DEF SoloInv, SoloTypeOK, SoloType
  <1>1. /\ head' = [head EXCEPT ![place] = committed]
        /\ mine' = IF place # Root THEN mine
                   ELSE [f \in SoloFiles |-> IF committed[f] = mine[f] THEN 0 ELSE mine[f]]
        /\ solo' = Disturbed(place, j)
        /\ UNCHANGED <<trees, stashes, edits, exposed>>
    BY Zenon DEF CommitJob
  <1>a. solo[j].at # "run"
    <2>1. ASSUME DOMAIN patch = {} PROVE committed = head[place]
      <3>1. committed = [f \in SoloFiles |-> head[place][f]]
        BY <2>1
      <3>2. head[place] = [f \in SoloFiles |-> head[place][f]]
        BY <1>t DEF Tree
      <3>3. QED
        BY <3>1, <3>2
    <2>2. committed # head[place]
      BY Zenon DEF CommitJob
    <2>3. QED
      BY <2>1, <2>2 DEF SoloInv, JobsHavePlaces
  <1>2. /\ solo' \in [SoloRuns -> SoloType]
        /\ \A k \in SoloRuns :
              /\ solo'[k].at = solo[k].at /\ solo'[k].place = solo[k].place /\ solo'[k].stashed = solo[k].stashed
              /\ solo'[k].patch = solo[k].patch /\ solo'[k].base = solo[k].base
              /\ solo'[k].alone => solo[k].alone
              /\ solo'[k].alone /\ solo[k].place = place => k = j \/ solo[k].at = "away"
    BY <1>1, <1>t, DisturbedSays
  <1>3. /\ committed \in Tree
        /\ \A f \in SoloFiles : committed[f] = trees[place][f] \/ committed[f] = head[place][f]
    BY <1>t DEF Tree
  <1> HIDE DEF committed
  <1>4. head' \in [Places -> Tree] /\ head'[place] = committed /\ \A p \in Places \ {place} : head'[p] = head[p]
    BY <1>1, <1>3, <1>t DEF SoloTypeOK
  <1>5. /\ mine' \in Tree
        /\ \A f \in SoloFiles : mine'[f] # 0 => mine'[f] = mine[f] /\ (place = Root => committed[f] # mine[f])
        /\ \A f \in SoloFiles : mine'[f] = 0 \/ mine'[f] = mine[f]
    BY <1>1, <1>t DEF Tree
  <1>6. SoloTypeOK'
    BY <1>1, <1>2, <1>4, <1>5, <1>t DEF SoloTypeOK
  <1>7. EditsAreCounted'
    <2>1. \A f \in SoloFiles : committed[f] <= edits
      BY <1>3, <1>t DEF SoloInv, EditsAreCounted
    <2>2. \A p \in Places, f \in SoloFiles : head'[p][f] <= edits' /\ trees'[p][f] <= edits'
      BY <1>1, <1>4, <2>1 DEF SoloInv, EditsAreCounted
    <2>3. \A f \in SoloFiles : mine'[f] <= edits'
      BY <1>1, <1>5, <1>t DEF SoloInv, EditsAreCounted, SoloTypeOK
    <2>4. QED
      BY <1>1, <1>2, <2>2, <2>3 DEF SoloInv, EditsAreCounted, PatchIsPast
  <1>8. JobsHavePlaces'
    BY <1>2 DEF SoloInv, JobsHavePlaces
  <1>9. NeverBeneath'
    <2>1. ASSUME NEW f \in SoloFiles, mine'[f] # 0
          PROVE  head'[Root][f] # mine'[f]
      BY <1>4, <1>5, <1>t, <2>1 DEF SoloInv, NeverBeneath
    <2>2. QED
      BY <1>1, <1>2, <1>5, <2>1 DEF SoloInv, NeverBeneath
  <1>10. NeverTaken'
    <2>1. SomeoneInRoot' => SomeoneInRoot
      BY <1>2 DEF SomeoneInRoot
    <2>2. QED
      BY <1>1, <1>2, <1>5, <2>1 DEF SoloInv, NeverTaken
  <1>11. AloneIsKnown'
    <2>1. ASSUME NEW k \in SoloRuns, solo'[k].alone
          PROVE  /\ solo'[k].at = "run" => head'[solo'[k].place] = solo'[k].base
                 /\ \A f \in DOMAIN solo'[k].patch : solo'[k].patch[f][1] = solo'[k].base[f]
      <3>1. /\ solo[k].at = "run" => head[solo[k].place] = solo[k].base
            /\ \A f \in DOMAIN solo[k].patch : solo[k].patch[f][1] = solo[k].base[f]
        BY <1>2, <2>1 DEF SoloInv, AloneIsKnown
      <3>2. solo[k].at = "run" => solo[k].place \in Places \ {place}
        BY <1>1, <1>2, <1>a, <1>t, <2>1 DEF SoloTypeOK, SoloType
      <3>3. QED
        BY <1>2, <1>4, <3>1, <3>2
    <2>2. QED
      BY <2>1 DEF AloneIsKnown
  <1>12. UserWorkIsKept'
    BY <1>1, <1>5 DEF SoloInv, UserWorkIsKept
  <1>13. QED
    BY <1>6, <1>7, <1>8, <1>9, <1>10, <1>11, <1>12 DEF SoloInv

LEMMA ToolStepInv ==
  ASSUME SoloInv, NEW j \in SoloRuns, \E f \in SoloFiles : ToolEdits(j, f)
  PROVE  SoloInv'
  BY ToolStep

LEMMA SoloStepInv == SoloInv /\ [SoloNext]_soloVars => SoloInv'
  <1> SUFFICES ASSUME SoloInv, [SoloNext]_soloVars PROVE SoloInv'
    OBVIOUS
  <1>1. CASE \E f \in SoloFiles : UserEdits(f)
    BY <1>1, EditStep
  <1>2. ASSUME NEW j \in SoloRuns,
               \/ RunOnCleanTree(j) \/ RunOnDirtyTree(j) \/ RunOnStashedTree(j) \/ RunInWorktree(j)
               \/ \E f \in SoloFiles : ToolEdits(j, f)
               \/ CaptureDiff(j) \/ FinishRun(j) \/ PopStash(j) \/ RunDies(j)
               \/ Undo(j) \/ CommitJob(j)
        PROVE  SoloInv'
    BY <1>2, StartsInRoot, StashStep, WorktreeStep, ToolStepInv, CaptureStep, FinishSteps, PopStep, UndoStep,
       CommitStep, Zenon
  <1>3. CASE UNCHANGED soloVars
    BY <1>3 DEF soloVars, SoloInv, SoloTypeOK, EditsAreCounted, PatchIsPast, JobsHavePlaces, NeverBeneath,
                NeverTaken, SomeoneInRoot, AloneIsKnown, UserWorkIsKept
  <1>4. QED
    BY <1>1, <1>2, <1>3 DEF SoloNext

(* solo-runner.ts: what the user edited and did not commit is in the       *)
(* working tree or in git's stash, whatever was run there, undone and      *)
(* committed, and wherever a run died; but for the files a job was let     *)
(* into the tree with (--allow-dirty, continue, a git status that failed)  *)
(* and those edited or unstashed while one was at work.                    *)
THEOREM SoloSafety == SoloSpec => []UserWorkIsKept
  <1>1. SoloInv => UserWorkIsKept
    BY DEF SoloInv
  <1>2. QED
    BY <1>1, SoloInitInv, SoloStepInv, PTL DEF SoloSpec

(* What begins is running, and nobody else's status is touched.            *)
LEMMA StartsRunning ==
  ASSUME SoloTypeOK, NEW k \in SoloRuns,
         RunOnCleanTree(k) \/ RunOnDirtyTree(k) \/ RunOnStashedTree(k) \/ RunInWorktree(k)
  PROVE  \A i \in SoloRuns : solo'[i].status = "running" \/ solo'[i].status = solo[i].status
  <1>t. solo \in [SoloRuns -> SoloType] /\ NoRun \in SoloType
    BY NoRunHasType DEF SoloTypeOK
  <1>1. ASSUME NEW place, NEW stashed
        PROVE  /\ Started(k, place, stashed)[k].status = "running"
               /\ \A i \in SoloRuns \ {k} : Started(k, place, stashed)[i] = solo[i]
    <2> DEFINE base == IF place = Root /\ ~stashed THEN trees[Root] ELSE head[Root]
               calm == (place = Root => stashed \/ Clean) /\
                       ~ \E i \in SoloRuns \ {k} : Running(i) /\ solo[i].place = place
    <2>1. Started(k, place, stashed) =
            [solo EXCEPT ![k] = [NoRun EXCEPT !.at = "run", !.status = "running", !.place = place,
                                              !.stashed = stashed, !.base = base, !.alone = calm]]
      BY Zenon DEF Started
    <2> HIDE DEF base, calm
    <2>2. [NoRun EXCEPT !.at = "run", !.status = "running", !.place = place, !.stashed = stashed, !.base = base,
                        !.alone = calm].status = "running"
      BY <1>t DEF SoloType
    <2>3. QED
      BY <1>t, <2>1, <2>2
  <1>2. CASE RunOnCleanTree(k) \/ RunOnDirtyTree(k) \/ RunInWorktree(k)
    <2>1. PICK place, stashed : solo' = Started(k, place, stashed)
      BY <1>2 DEF RunOnCleanTree, RunOnDirtyTree, RunInWorktree
    <2>2. QED
      BY <1>1, <2>1
  <1>3. CASE RunOnStashedTree(k)
    <2>1. /\ \A i \in SoloRuns : Disturbed(Root, k)[i].status = solo[i].status
          /\ Disturbed(Root, k) \in [SoloRuns -> SoloType]
      BY DisturbedSays
    <2>2. solo' = [Disturbed(Root, k) EXCEPT ![k] = Started(k, Root, TRUE)[k]]
      BY <1>3 DEF RunOnStashedTree
    <2>3. QED
      BY <1>1, <2>1, <2>2
  <1>4. QED
    BY <1>2, <1>3

(* Only undoing makes a job "reverted", and it puts back what the patch    *)
(* was made from; for a job that was alone that is what it began with.     *)
LEMMA UndoRestores ==
  ASSUME SoloInv, [SoloNext]_soloVars
  PROVE  UndoIsExact
  <1>t. SoloTypeOK
    BY DEF SoloInv
  <1> SUFFICES ASSUME NEW j \in SoloRuns, solo[j].status # "reverted", solo'[j].status = "reverted", solo[j].alone,
                      NEW f \in SoloFiles
               PROVE  trees'[solo[j].place][f] =
                        IF f \in DOMAIN solo[j].patch THEN solo[j].base[f] ELSE trees[solo[j].place][f]
    BY DEF UndoIsExact
  <1>1. Undo(j)
    <2>1. CASE UNCHANGED soloVars
      BY <2>1 DEF soloVars
    <2>2. CASE \E g \in SoloFiles : UserEdits(g)
      BY <2>2, <1>t, DisturbedSays DEF UserEdits
    <2>3. ASSUME NEW k \in SoloRuns, RunOnCleanTree(k) \/ RunOnDirtyTree(k) \/ RunOnStashedTree(k) \/ RunInWorktree(k)
          PROVE  FALSE
      <3> QED
        BY <1>t, <2>3, StartsRunning
    <2>4. ASSUME NEW k \in SoloRuns, NEW g \in SoloFiles, ToolEdits(k, g)
          PROVE  FALSE
      BY <1>t, <2>4, DisturbedSays DEF ToolEdits
    <2>5. ASSUME NEW k \in SoloRuns, CaptureDiff(k) \/ FinishRun(k) \/ RunDies(k)
          PROVE  FALSE
      BY <1>t, <2>5 DEF CaptureDiff, FinishRun, RunDies, SoloTypeOK, SoloType
    <2>6. ASSUME NEW k \in SoloRuns, PopStash(k) \/ CommitJob(k)
          PROVE  FALSE
      <3>1. PICK place : /\ solo' = Disturbed(place, k) \/ solo' = [Disturbed(place, k) EXCEPT ![k].at = "away"]
        BY <2>6, Zenon DEF PopStash, CommitJob
      <3>2. Disturbed(place, k) \in [SoloRuns -> SoloType] /\ \A i \in SoloRuns : Disturbed(place, k)[i].status = solo[i].status
        BY <1>t, DisturbedSays
      <3>3. \A i \in SoloRuns : solo'[i].status = solo[i].status
        BY <3>1, <3>2 DEF SoloType
      <3>4. QED
        BY <3>3
    <2>7. ASSUME NEW k \in SoloRuns, k # j, Undo(k)
          PROVE  FALSE
      BY <1>t, <2>7, DisturbedSays DEF Undo
    <2>8. QED
      BY <2>1, <2>2, <2>3, <2>4, <2>5, <2>6, <2>7 DEF SoloNext
  <1>2. solo[j].place \in Places /\ trees \in [Places -> Tree]
    BY <1>t DEF SoloTypeOK, SoloType
  <1>3. f \in DOMAIN solo[j].patch => solo[j].patch[f][1] = solo[j].base[f]
    BY DEF SoloInv, AloneIsKnown
  <1>4. trees'[solo[j].place][f] = IF f \in DOMAIN solo[j].patch THEN solo[j].patch[f][1] ELSE trees[solo[j].place][f]
    BY <1>1, <1>2 DEF Undo
  <1>5. QED
    BY <1>3, <1>4

(* undoSoloJob (solo-runner.ts): undoing a job that was alone in a clean   *)
(* tree puts every file of its patch back to what the job began with and   *)
(* leaves the others alone.                                                *)
THEOREM SoloUndoes == SoloSpec => [][UndoIsExact]_soloVars
  <1>1. SoloInv /\ [SoloNext]_soloVars => [UndoIsExact]_soloVars
    BY UndoRestores
  <1>2. QED
    BY <1>1, SoloInitInv, SoloStepInv, PTL DEF SoloSpec

----------------------------------------------------------------------------
(* The components together (Components)                                    *)

(* Between requests a worker's record names the job whose lease it holds   *)
(* (worker-service.ts), the manifest of an iteration tells of files that   *)
(* are there (artifact-persistence.ts), and the audit log and the registry *)
(* of repositories lose nothing but to overlapping writers (audit-log.ts,  *)
(* repo-registry.ts): whatever the other components do meanwhile.          *)
THEOREM RecordsTrue == ComponentsSpec => []RecordsAreTrue
  <1>1. RecordIsTrue /\ RunIsReadable /\ ServerFilesAreKept => RecordsAreTrue
    BY DEF RecordsAreTrue
  <1>2. QED
    BY <1>1, RegistrySafety, FilesSafety, ServerSafety, PTL DEF ComponentsSpec

(* An entry of the index never has an old text under the time of a newer   *)
(* one (vector-index.ts), and a memory among the newest is in the file but *)
(* for what trims that overlap drop (memory/local-file.ts).                *)
THEOREM KnowledgeTrue == ComponentsSpec => []KnowledgeIsTrue
  <1>1. IndexIsTrue /\ MemoryIsKept => KnowledgeIsTrue
    BY DEF KnowledgeIsTrue
  <1>2. QED
    BY <1>1, IndexSafety, MemorySafety, PTL DEF ComponentsSpec

(* A resumed attempt repeats no completed phase (executor.ts), no store    *)
(* takes a record back, a drained worker claims nothing, an undo puts back *)
(* what the job changed and nothing else (solo-runner.ts), an aborted call *)
(* spawns nothing, and a finished pass has every file that stood still.    *)
THEOREM StepsSound == ComponentsSpec => StepsAreSound
  <1> DEFINE Sound == /\ ResumeIsExact /\ RecordIsMonotone /\ OrderIsKept
                      /\ UndoIsExact /\ AbortSpawnsNothing /\ PassIsExact
  <1>1. [ResumeIsExact]_execVars => ResumeIsExact
    BY DEF execVars, ResumeIsExact
  <1>2. StoreInv /\ [StoreNext]_storeVars => StoreInv' /\ RecordIsMonotone
    BY StoreStepInv
  <1>3. [OrderIsKept]_regVars => OrderIsKept
    BY DEF regVars, OrderIsKept
  <1>4. [UndoIsExact]_soloVars => UndoIsExact
    BY DEF soloVars, UndoIsExact
  <1>5. [AbortSpawnsNothing]_commandVars => AbortSpawnsNothing
    BY DEF commandVars, AbortSpawnsNothing
  <1>6. [PassIsExact]_indexVars => PassIsExact
    BY DEF indexVars, PassIsExact
  <1>7. /\ [ResumeIsExact]_execVars /\ RecordIsMonotone /\ [OrderIsKept]_regVars
        /\ [UndoIsExact]_soloVars /\ [AbortSpawnsNothing]_commandVars /\ [PassIsExact]_indexVars
        => [Sound]_componentVars
    BY <1>1, <1>3, <1>4, <1>5, <1>6, Zenon
  <1>8. QED
    BY <1>2, <1>7, ExecutionResumes, StoreInitInv, RegistryObeys, SoloUndoes, AbortIsHeeded, IndexCatchesUp,
       PTL DEF ComponentsSpec, StoreSpec, StepsAreSound

=============================================================================
