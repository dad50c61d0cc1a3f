--------------------------- MODULE JobQueueProofs ---------------------------
(***************************************************************************)
(* Theorems about JobQueue, for every set of jobs, synchronous runs, drain *)
(* passes, approvers and cancellers, every concurrency and every bound.    *)
(***************************************************************************)
EXTENDS JobQueue, FiniteSetTheorems, TLAPS

LiveJobs == {j \in Jobs : Live(j)}

(* The pool: activeJobs counts the live runs, activeWorkspaces holds the   *)
(* workspaces of all that runs, and no two share one.                      *)
Counted == activeJobs = Cardinality(LiveJobs)
Taken == activeWorkspaces = {Workspace[h] : h \in Active}
Apart == \A g, h \in Active : Workspace[g] = Workspace[h] => g = h
Pool == Counted /\ Taken /\ Apart

(* The types of everything but the counter, whose type needs Counted.      *)
Flags == paused \in BOOLEAN /\ timer \in BOOLEAN
TypesBut ==
    /\ status \in [Jobs -> JobStatus]
    /\ server \in {"down", "up", "draining", "settling", "closed"}
    /\ pass \in [Passes -> [pc : {"off", "listing", "listed"}, seen : SUBSET Jobs]]
    /\ latest \in Passes \cup {NoPass} /\ awaited \in Passes \cup {NoPass}
    /\ settlers \subseteq Jobs \cup Syncs
    /\ run \in [Jobs -> {"off", "claiming", "running", "waiting", "finishing",
                         "forcing", "settling"}]
    /\ verdict \in [Jobs -> Finished]
    /\ controllers \subseteq Jobs /\ aborted \subseteq Jobs /\ syncs \subseteq Syncs
    /\ asked \in [Jobs -> Nat] /\ pending \in [Jobs -> Nat] /\ marks \in [Jobs -> Nat]
    /\ approver \in [Approvers ->
           [pc : {"idle", "reading", "deciding", "writing"}, job : Jobs \cup {0},
            ask : Nat, seen : JobStatus]]
    /\ canceller \in [Cancellers -> [pc : {"idle", "recording"}, job : Jobs \cup {0}]]
    /\ cleanup \in [pc : {"off", "listing", "writing"}, hung : SUBSET Jobs]
    /\ orphans \in SUBSET Jobs
    /\ faults \in Nat /\ pauses \in Nat /\ restarts \in Nat

(* An approval or a cancel under way is for a job of the queue.            *)
Addressed ==
    /\ \A a \in Approvers : approver[a].pc # "idle" => approver[a].job \in Jobs
    /\ \A c \in Cancellers : canceller[c].pc # "idle" => canceller[c].job \in Jobs

USE DEF Live, Active, LiveJobs

-----------------------------------------------------------------------------
LEMMA InitPool == Init => Flags /\ TypesBut /\ Addressed /\ Pool
<1> SUFFICES ASSUME Init PROVE Flags /\ TypesBut /\ Addressed /\ Pool
  OBVIOUS
<1>0. Flags
  BY DEF Init, Flags
<1>1. TypesBut /\ Addressed
  BY JobQueueAssumption DEF Init, TypesBut, Addressed, JobStatus, Finished, NoListing, NoApproval,
     NoCancel, NoCleanup
<1>2. LiveJobs = {} /\ Active = {}
  BY DEF Init
<1>3. Cardinality({}) = 0
  BY FS_EmptySet
<1> QED
  BY <1>0, <1>1, <1>2, <1>3 DEF Init, Pool, Counted, Taken, Apart

(* The steps of Next, by what they are about.                              *)
OperatorStep == pause \/ resume \/ \E j \in Jobs : enqueue(j)
PassStep(p) == FireTimer(p) \/ List(p) \/ ListFails(p) \/ StopLooping(p)
WorkStep(j) ==
    Claim(j) \/ RunnerEnds(j) \/ FinishLocked(j) \/ FinishUnlocked(j) \/ ForceFinish(j)
    \/ FinishFails(j)
AskStep(j) == Ask(j) \/ Mark(j)
AnswerStep(a) == ApproveRead(a) \/ ApproveRefused(a) \/ ApproveWrite(a) \/ ApproveFails(a)
StopStep == stop \/ StopDrained \/ StopSettled

LEMMA StepCases ==
    ASSUME Next, NEW P,
           OperatorStep => P,
           \A p \in Passes : PassStep(p) => P,
           \A p \in Passes, j \in Jobs : Launch(p, j) => P,
           \A j \in Jobs : WorkStep(j) => P,
           \A j \in Jobs : ClaimRefused(j) => P,
           \A j \in Jobs : Settle(j) => P,
           \A j \in Jobs : AskStep(j) => P,
           \A s \in Syncs : runExclusive(s) => P,
           \A s \in Syncs : EndExclusive(s) => P,
           \A c \in Cancellers, j \in Jobs : CancelSignal(c, j) => P,
           \A c \in Cancellers : CancelRecord(c) => P,
           \A a \in Approvers, j \in Jobs : ApproveBegin(a, j) => P,
           \A a \in Approvers : AnswerStep(a) => P,
           \A a \in Approvers : ApproveDecide(a) => P,
           Start => P,
           CleanupStep => P,
           StopStep => P,
           Exit => P
    PROVE  P
BY Zenon DEF Next, OperatorStep, PassStep, DrainStep, WorkStep, RunStep, AskStep, CancelStep,
   ApproveStep, AnswerStep, StopStep

-----------------------------------------------------------------------------
(* A failed call counts, and leaves jobs behind.                           *)
Tallies == orphans \subseteq Jobs /\ faults \in Nat /\ pauses \in Nat /\ restarts \in Nat
LEMMA TalliesStay ==
    ASSUME Tallies, NEW js \in SUBSET Jobs, Fails({}) \/ Fails(js) \/ UNCHANGED boundVars
    PROVE  Tallies'
BY DEF Tallies, Fails, Leaves, boundVars

LEMMA TypesStep == TypesBut /\ Addressed /\ [Next]_vars => TypesBut' /\ Addressed'
<1> SUFFICES ASSUME TypesBut, Addressed, [Next]_vars PROVE TypesBut' /\ Addressed'
  OBVIOUS
<1> USE JobQueueAssumption DEF TypesBut, Addressed, JobStatus, Finished, drainVars, poolVars, runVars,
    askVars, clientVars, serverVars, boundVars, SetStatus, To, Fault, Fails, Leaves, Settled
<1>1. CASE UNCHANGED vars
  BY <1>1 DEF vars
<1>2. CASE Next
  <2>1. ASSUME OperatorStep PROVE TypesBut' /\ Addressed'
    <3>1. ASSUME NEW j \in Jobs, enqueue(j) PROVE TypesBut' /\ Addressed'
      BY <3>1 DEF enqueue
    <3>2. ASSUME pause PROVE TypesBut' /\ Addressed'
      BY <3>2 DEF pause
    <3>3. ASSUME resume PROVE TypesBut' /\ Addressed'
      BY <3>3 DEF resume
    <3> QED
      BY <2>1, <3>1, <3>2, <3>3 DEF OperatorStep
  <2>2. ASSUME NEW p \in Passes, PassStep(p) PROVE TypesBut' /\ Addressed'
    <3>1. ASSUME FireTimer(p) PROVE TypesBut' /\ Addressed'
      <4>1. /\ UNCHANGED <<status, server, awaited, settlers, run, verdict, controllers, aborted, syncs,
                          asked, pending, marks, approver, canceller, cleanup>>
            /\ UNCHANGED boundVars
            /\ latest' \in {NoPass, p}
            /\ pass' = pass \/ pass' = [pass EXCEPT ![p] = [pc |-> "listing", seen |-> {}]]
        BY <3>1 DEF FireTimer
      <4>2. latest' \in Passes \cup {NoPass}
        BY <4>1
      <4>3. pass' \in [Passes -> [pc : {"off", "listing", "listed"}, seen : SUBSET Jobs]]
        BY <4>1
      <4> QED
        BY <4>1, <4>2, <4>3
    <3>2. ASSUME List(p) PROVE TypesBut' /\ Addressed'
      BY <3>2 DEF List
    <3>3. ASSUME ListFails(p) PROVE TypesBut' /\ Addressed'
      BY <3>3 DEF ListFails, NoListing
    <3>4. ASSUME StopLooping(p) PROVE TypesBut' /\ Addressed'
      BY <3>4 DEF StopLooping, NoListing
    <3> QED
      BY <2>2, <3>1, <3>2, <3>3, <3>4 DEF PassStep
  <2>3. ASSUME NEW p \in Passes, NEW j \in Jobs, Launch(p, j) PROVE TypesBut' /\ Addressed'
    BY <2>3, SMTT(30) DEF Launch, NoListing
  <2>4. ASSUME NEW j \in Jobs, WorkStep(j) PROVE TypesBut' /\ Addressed'
    <3>1. ASSUME Claim(j) PROVE TypesBut' /\ Addressed'
      BY <3>1 DEF Claim
    <3>2. ASSUME RunnerEnds(j) PROVE TypesBut' /\ Addressed'
      BY <3>2 DEF RunnerEnds, Verdicts
    <3>3. ASSUME FinishLocked(j) PROVE TypesBut' /\ Addressed'
      BY <3>3 DEF FinishLocked
    <3>4. ASSUME FinishUnlocked(j) PROVE TypesBut' /\ Addressed'
      BY <3>4 DEF FinishUnlocked
    <3>5. ASSUME ForceFinish(j) PROVE TypesBut' /\ Addressed'
      BY <3>5 DEF ForceFinish
    <3>6. ASSUME FinishFails(j) PROVE TypesBut' /\ Addressed'
      <4>1. /\ UNCHANGED <<server, pass, latest, awaited, settlers, controllers, aborted, syncs, asked,
                          pending, marks, approver, canceller, cleanup>>
            /\ status' = status \/ status' = [status EXCEPT ![j] = verdict[j]]
            /\ verdict' = verdict \/ verdict' = [verdict EXCEPT ![j] = "failed"]
            /\ run' = [run EXCEPT ![j] = "finishing"] \/ run' = [run EXCEPT ![j] = "settling"]
            /\ Fails({}) \/ Fails({j})
        BY <3>6 DEF FinishFails
      <4>2. status' \in [Jobs -> JobStatus] /\ verdict' \in [Jobs -> Finished]
        BY <4>1
      <4>3. run' \in [Jobs -> {"off", "claiming", "running", "waiting", "finishing",
                               "forcing", "settling"}]
        BY <4>1
      <4>4. Tallies'
        <5>1. {j} \in SUBSET Jobs /\ Tallies
          BY DEF Tallies
        <5> QED
          BY <4>1, <5>1, TalliesStay
      <4> QED
        BY <4>1, <4>2, <4>3, <4>4 DEF Tallies
    <3> QED
      BY <2>4, <3>1, <3>2, <3>3, <3>4, <3>5, <3>6 DEF WorkStep
  <2>5. ASSUME NEW j \in Jobs, ClaimRefused(j) PROVE TypesBut' /\ Addressed'
    <3>1. /\ UNCHANGED <<server, pass, latest, awaited, settlers, verdict, aborted, syncs, asked,
                        pending, marks, approver, canceller, cleanup>>
          /\ status' = status \/ status' = [status EXCEPT ![j] = "running"]
          /\ run' = [run EXCEPT ![j] = "settling"] /\ controllers' \subseteq controllers
          /\ Fails({}) \/ Fails({j}) \/ UNCHANGED boundVars
      BY <2>5 DEF ClaimRefused
    <3>2. status' \in [Jobs -> JobStatus]
      BY <3>1
    <3>3. run' \in [Jobs -> {"off", "claiming", "running", "waiting", "finishing",
                             "forcing", "settling"}]
      BY <3>1
    <3>4. Tallies'
      <4>1. {j} \in SUBSET Jobs /\ Tallies
        BY DEF Tallies
      <4> QED
        BY <3>1, <4>1, TalliesStay
    <3> QED
      BY <3>1, <3>2, <3>3, <3>4 DEF Tallies
  <2>6. ASSUME NEW j \in Jobs, Settle(j) PROVE TypesBut' /\ Addressed'
    BY <2>6 DEF Settle, SettleDrain
  <2>7. ASSUME NEW j \in Jobs, AskStep(j) PROVE TypesBut' /\ Addressed'
    <3>1. ASSUME Ask(j) PROVE TypesBut' /\ Addressed'
      BY <3>1 DEF Ask
    <3>2. ASSUME Mark(j) PROVE TypesBut' /\ Addressed'
      <4>1. /\ UNCHANGED <<server, pass, latest, awaited, settlers, run, verdict, controllers, aborted,
                          syncs, asked, pending, approver, canceller, cleanup>>
            /\ status' = status \/ status' = [status EXCEPT ![j] = "waiting_for_approval"]
            /\ marks' = [marks EXCEPT ![j] = marks[j] - 1] /\ marks[j] > 0
            /\ Fails({}) \/ UNCHANGED boundVars
        BY <3>2 DEF Mark
      <4>2. status' \in [Jobs -> JobStatus] /\ marks' \in [Jobs -> Nat]
        BY <4>1
      <4>3. Tallies'
        <5>1. {} \in SUBSET Jobs /\ Tallies
          BY DEF Tallies
        <5> QED
          BY <4>1, <5>1, TalliesStay
      <4> QED
        BY <4>1, <4>2, <4>3 DEF Tallies
    <3> QED
      BY <2>7, <3>1, <3>2 DEF AskStep
  <2>8. ASSUME NEW s \in Syncs, runExclusive(s) PROVE TypesBut' /\ Addressed'
    BY <2>8 DEF runExclusive
  <2>9. ASSUME NEW s \in Syncs, EndExclusive(s) PROVE TypesBut' /\ Addressed'
    BY <2>9 DEF EndExclusive
  <2>10. ASSUME NEW c \in Cancellers, NEW j \in Jobs, CancelSignal(c, j) PROVE TypesBut' /\ Addressed'
    <3>1. UNCHANGED <<status, server, pass, latest, awaited, settlers, verdict, syncs, asked,
                      marks, approver, cleanup, orphans, faults, pauses, restarts>>
      BY <2>10 DEF CancelSignal
    <3>2. canceller' \in [Cancellers -> [pc : {"idle", "recording"}, job : Jobs \cup {0}]]
      BY <2>10 DEF CancelSignal
    <3>3. \A d \in Cancellers : canceller'[d].pc # "idle" => canceller'[d].job \in Jobs
      BY <2>10 DEF CancelSignal
    <3>4. controllers' \subseteq Jobs /\ aborted' \subseteq Jobs
      <4>1. controllers' = controllers \ {j} /\ aborted' \in {aborted, aborted \cup {j}}
        BY <2>10, Zenon DEF CancelSignal
      <4> QED
        BY <4>1
    <3>5. /\ pending' \in [Jobs -> Nat]
          /\ run' \in [Jobs -> {"off", "claiming", "running", "waiting", "finishing",
                               "forcing", "settling"}]
      BY <2>10, SMTT(30) DEF CancelSignal
    <3> QED
      BY <3>1, <3>2, <3>3, <3>4, <3>5
  <2>11. ASSUME NEW c \in Cancellers, CancelRecord(c) PROVE TypesBut' /\ Addressed'
    <3>1. /\ UNCHANGED <<server, pass, latest, awaited, settlers, run, verdict, controllers, aborted,
                        syncs, asked, pending, marks, approver, cleanup>>
          /\ status' = status \/ status' = [status EXCEPT ![canceller[c].job] = "cancelled"]
          /\ canceller' = [canceller EXCEPT ![c] = [pc |-> "idle", job |-> 0]]
          /\ Fails({}) \/ UNCHANGED boundVars
      BY <2>11 DEF CancelRecord, NoCancel
    <3>2. status' \in [Jobs -> JobStatus]
      BY <3>1
    <3>3. /\ canceller' \in [Cancellers -> [pc : {"idle", "recording"}, job : Jobs \cup {0}]]
          /\ \A d \in Cancellers : canceller'[d].pc # "idle" => canceller'[d].job \in Jobs
      BY <3>1
    <3>4. Tallies'
      <4>1. {} \in SUBSET Jobs /\ Tallies
        BY DEF Tallies
      <4> QED
        BY <3>1, <4>1, TalliesStay
    <3> QED
      BY <3>1, <3>2, <3>3, <3>4 DEF Tallies
  <2>12. ASSUME NEW a \in Approvers, NEW j \in Jobs, ApproveBegin(a, j) PROVE TypesBut' /\ Addressed'
    BY <2>12 DEF ApproveBegin
  <2>13. ASSUME NEW a \in Approvers, AnswerStep(a) PROVE TypesBut' /\ Addressed'
    <3>1. ASSUME ApproveRead(a) PROVE TypesBut' /\ Addressed'
      <4>1. status[approver[a].job] \in JobStatus
        BY <3>1 DEF ApproveRead
      <4>2. approver' \in [Approvers ->
                [pc : {"idle", "reading", "deciding", "writing"}, job : Jobs \cup {0},
                 ask : Nat, seen : JobStatus]]
        <5> DEFINE r == [approver[a] EXCEPT !.pc = "deciding", !.seen = status[approver[a].job]]
        <5>1. r \in [pc : {"idle", "reading", "deciding", "writing"}, job : Jobs \cup {0},
                     ask : Nat, seen : JobStatus]
          <6>1. approver[a] \in [pc : {"idle", "reading", "deciding", "writing"},
                                job : Jobs \cup {0}, ask : Nat, seen : JobStatus]
            OBVIOUS
          <6> HIDE DEF TypesBut, Addressed, JobStatus
          <6> QED
            BY <4>1, <6>1
        <5>2. approver' = [approver EXCEPT ![a] = r]
          BY <3>1 DEF ApproveRead
        <5> QED
          BY <5>1, <5>2
      <4>3. \A b \in Approvers : approver'[b].pc # "idle" => approver'[b].job \in Jobs
        BY <3>1 DEF ApproveRead
      <4> QED
        BY <3>1, <4>2, <4>3 DEF ApproveRead
    <3>2. ASSUME ApproveRefused(a) PROVE TypesBut' /\ Addressed'
      BY <3>2 DEF ApproveRefused, PendingWhenRefused, NoApproval
    <3>3. ASSUME ApproveWrite(a) PROVE TypesBut' /\ Addressed'
      <4> DEFINE j == approver[a].job
      <4>1. /\ UNCHANGED <<server, pass, latest, awaited, settlers, run, verdict, controllers, aborted,
                          syncs, asked, pending, marks, canceller, cleanup, faults, pauses, restarts>>
            /\ status' = [status EXCEPT ![j] = approver[a].seen]
            /\ approver' = [approver EXCEPT ![a] = [pc |-> "idle", job |-> 0, ask |-> 0, seen |-> "absent"]]
            /\ approver[a].pc # "idle"
            /\ orphans' = orphans \/ orphans' = orphans \cup {j}
        BY <3>3 DEF ApproveWrite, NoApproval
      <4>2. j \in Jobs /\ status' \in [Jobs -> JobStatus]
        BY <4>1
      <4>3. /\ approver' \in [Approvers ->
                    [pc : {"idle", "reading", "deciding", "writing"}, job : Jobs \cup {0},
                     ask : Nat, seen : JobStatus]]
            /\ \A b \in Approvers : approver'[b].pc # "idle" => approver'[b].job \in Jobs
        BY <4>1
      <4> HIDE DEF j
      <4>4. orphans' \subseteq Jobs
        <5>1. orphans \subseteq Jobs
          OBVIOUS
        <5> HIDE DEF TypesBut, Addressed
        <5> QED
          BY <4>1, <4>2, <5>1
      <4> QED
        BY <4>1, <4>2, <4>3, <4>4
    <3>4. ASSUME ApproveFails(a) PROVE TypesBut' /\ Addressed'
      BY <3>4 DEF ApproveFails, NoApproval
    <3> QED
      BY <2>13, <3>1, <3>2, <3>3, <3>4 DEF AnswerStep
  <2>14. ASSUME NEW a \in Approvers, ApproveDecide(a) PROVE TypesBut' /\ Addressed'
    <3> DEFINE j == approver[a].job
    <3>1. /\ approver' = [approver EXCEPT ![a].pc = "writing"]
          /\ pending' = [pending EXCEPT ![j] = 0]
          /\ run' = [run EXCEPT ![j] = "running"] \/ run' = run
          /\ UNCHANGED <<status, server, pass, latest, awaited, settlers, verdict, syncs, asked,
                        marks, controllers, aborted, canceller, cleanup, orphans, faults, pauses, restarts>>
          /\ UNCHANGED <<activeJobs, activeWorkspaces, paused, timer>>
      BY <2>14 DEF ApproveDecide
    <3>2. approver' \in [Approvers ->
              [pc : {"idle", "reading", "deciding", "writing"}, job : Jobs \cup {0},
               ask : Nat, seen : JobStatus]]
      <4> HIDE DEF JobStatus, Addressed
      <4> QED
        BY <3>1
    <3>3. \A b \in Approvers : approver'[b].pc # "idle" => approver'[b].job \in Jobs
      <4>1. approver[a].pc # "idle"
        BY <2>14 DEF ApproveDecide
      <4> QED
        BY <3>1, <4>1
    <3> HIDE DEF j
    <3>4. pending' \in [Jobs -> Nat]
      BY <3>1 DEF TypesBut
    <3>5. run' \in [Jobs -> {"off", "claiming", "running", "waiting", "finishing",
                             "forcing", "settling"}]
      <4>1. CASE run' = run
        BY <4>1 DEF TypesBut
      <4>2. CASE run' = [run EXCEPT ![j] = "running"]
        BY <4>2 DEF TypesBut
      <4> QED
        BY <3>1, <4>1, <4>2
    <3> QED
      BY <3>1, <3>2, <3>3, <3>4, <3>5
  <2>15. ASSUME Start PROVE TypesBut' /\ Addressed'
    BY <2>15 DEF Start
  <2>16. ASSUME CleanupStep PROVE TypesBut' /\ Addressed'
    BY <2>16 DEF CleanupStep, CleanupList, CleanupWrite, CleanupDone, CleanupFails, NoCleanup
  <2>17. ASSUME StopStep PROVE TypesBut' /\ Addressed'
    <3>1. ASSUME stop PROVE TypesBut' /\ Addressed'
      BY <3>1 DEF stop
    <3>2. ASSUME StopDrained PROVE TypesBut' /\ Addressed'
      BY <3>2 DEF StopDrained
    <3>3. ASSUME StopSettled PROVE TypesBut' /\ Addressed'
      BY <3>3 DEF StopSettled
    <3> QED
      BY <2>17, <3>1, <3>2, <3>3 DEF StopStep
  <2>18. ASSUME Exit PROVE TypesBut' /\ Addressed'
    BY <2>18 DEF Exit, NoListing, NoApproval, NoCancel, NoCleanup
  <2> QED
    BY <1>2, <2>1, <2>2, <2>3, <2>4, <2>5, <2>6, <2>7, <2>8, <2>9, <2>10, <2>11, <2>12, <2>13,
       <2>14, <2>15, <2>16, <2>17, <2>18, StepCases, Zenon
<1> QED
  BY <1>1, <1>2

LEMMA FlagsStep == Flags /\ [Next]_vars => Flags'
<1> SUFFICES ASSUME Flags, [Next]_vars PROVE Flags'
  OBVIOUS
<1> DEFINE Kept == paused' = paused /\ timer' = timer
           Woken == paused' = paused /\ timer' = (timer \/ ~isStopped)
<1>1. Kept \/ Woken => Flags'
  BY Zenon DEF Flags
<1>2. CASE UNCHANGED vars
  BY <1>1, <1>2, Zenon DEF vars, drainVars
<1>3. CASE Next
  <2> USE DEF drainVars
  <2>1. OperatorStep => Flags'
    BY Zenon DEF OperatorStep, enqueue, pause, resume, scheduleDrain, Flags
  <2>2. ASSUME NEW p \in Passes, PassStep(p) PROVE Flags'
    BY <2>2, Zenon DEF PassStep, FireTimer, List, ListFails, StopLooping, scheduleDrain, Flags
  <2>3. ASSUME NEW p \in Passes, NEW j \in Jobs, Launch(p, j) PROVE Flags'
    BY <2>3, Zenon DEF Launch, Flags
  <2>4. ASSUME NEW j \in Jobs, WorkStep(j) PROVE Flags'
    BY <2>4, Zenon DEF WorkStep, Claim, RunnerEnds, FinishLocked, FinishUnlocked, ForceFinish, FinishFails, Flags
  <2>5. ASSUME NEW j \in Jobs, ClaimRefused(j) PROVE Flags'
    BY <2>5, Zenon DEF ClaimRefused, Flags
  <2>6. ASSUME NEW j \in Jobs, Settle(j) PROVE Flags'
    BY <2>6, Zenon DEF Settle, SettleDrain, scheduleDrain, Flags
  <2>7. ASSUME NEW j \in Jobs, AskStep(j) PROVE Flags'
    BY <2>7, Zenon DEF AskStep, Ask, Mark, Flags
  <2>8. ASSUME NEW s \in Syncs, runExclusive(s) PROVE Flags'
    BY <2>8, Zenon DEF runExclusive, Flags
  <2>9. ASSUME NEW s \in Syncs, EndExclusive(s) PROVE Flags'
    BY <2>9, Zenon DEF EndExclusive, scheduleDrain, Flags
  <2>10. ASSUME NEW c \in Cancellers, NEW j \in Jobs, CancelSignal(c, j) PROVE Flags'
    BY <2>10, Zenon DEF CancelSignal, Flags
  <2>11. ASSUME NEW c \in Cancellers, CancelRecord(c) PROVE Flags'
    BY <2>11, Zenon DEF CancelRecord, Flags
  <2>12. ASSUME NEW a \in Approvers, NEW j \in Jobs, ApproveBegin(a, j) PROVE Flags'
    BY <2>12, Zenon DEF ApproveBegin, Flags
  <2>13. ASSUME NEW a \in Approvers, AnswerStep(a) PROVE Flags'
    BY <2>13, Zenon DEF AnswerStep, ApproveRead, ApproveRefused, ApproveWrite, ApproveFails, Flags
  <2>14. ASSUME NEW a \in Approvers, ApproveDecide(a) PROVE Flags'
    BY <2>14, Zenon DEF ApproveDecide, Flags
  <2>15. Start => Flags'
    BY Zenon DEF Start, Flags
  <2>16. CleanupStep => Flags'
    BY Zenon DEF CleanupStep, CleanupList, CleanupWrite, CleanupDone, CleanupFails, Flags
  <2>17. StopStep => Flags'
    BY Zenon DEF StopStep, stop, StopDrained, StopSettled, Flags
  <2>18. Exit => Flags'
    BY Zenon DEF Exit, Flags
  <2> QED
    BY <1>3, <2>1, <2>2, <2>3, <2>4, <2>5, <2>6, <2>7, <2>8, <2>9, <2>10, <2>11, <2>12, <2>13,
       <2>14, <2>15, <2>16, <2>17, <2>18, StepCases, Zenon
<1> QED
  BY <1>2, <1>3

-----------------------------------------------------------------------------
(* What a step does to the set of runs under way: nothing, or one run      *)
(* starts in a free workspace, or one ends, or all end.                    *)
Quiet == LiveJobs' = LiveJobs /\ syncs' = syncs /\ UNCHANGED poolVars
JobStarts(j) ==
    /\ Workspace[j] \notin activeWorkspaces
    /\ LiveJobs' = LiveJobs \cup {j} /\ syncs' = syncs
    /\ activeJobs' = activeJobs + 1
    /\ activeWorkspaces' = activeWorkspaces \cup {Workspace[j]}
JobEnds(j) ==
    /\ j \in LiveJobs
    /\ LiveJobs' = LiveJobs \ {j} /\ syncs' = syncs
    /\ activeJobs' = activeJobs - 1
    /\ activeWorkspaces' = activeWorkspaces \ {Workspace[j]}
SyncStarts(s) ==
    /\ Workspace[s] \notin activeWorkspaces
    /\ LiveJobs' = LiveJobs /\ syncs' = syncs \cup {s}
    /\ activeJobs' = activeJobs
    /\ activeWorkspaces' = activeWorkspaces \cup {Workspace[s]}
SyncEnds(s) ==
    /\ s \in syncs
    /\ LiveJobs' = LiveJobs /\ syncs' = syncs \ {s}
    /\ activeJobs' = activeJobs
    /\ activeWorkspaces' = activeWorkspaces \ {Workspace[s]}
AllEnd ==
    LiveJobs' = {} /\ syncs' = {} /\ activeJobs' = 0 /\ activeWorkspaces' = {}

LEMMA PoolMoves ==
    ASSUME TypesBut, [Next]_vars
    PROVE  \/ Quiet
           \/ \E j \in Jobs : JobStarts(j) \/ JobEnds(j)
           \/ \E s \in Syncs : SyncStarts(s) \/ SyncEnds(s)
           \/ AllEnd
<1> DEFINE Goal == \/ Quiet
                   \/ \E j \in Jobs : JobStarts(j) \/ JobEnds(j)
                   \/ \E s \in Syncs : SyncStarts(s) \/ SyncEnds(s)
                   \/ AllEnd
<1> SUFFICES Goal
  OBVIOUS
<1>1. CASE UNCHANGED vars
  BY <1>1 DEF vars, runVars, Quiet
<1>2. CASE Next
  <2> USE DEF drainVars, poolVars, runVars, askVars, clientVars, serverVars, boundVars, To
  <2>1. OperatorStep => Goal
    BY DEF OperatorStep, enqueue, pause, resume, Quiet
  <2>2. ASSUME NEW p \in Passes, PassStep(p) PROVE Goal
    BY <2>2 DEF PassStep, FireTimer, List, ListFails, StopLooping, Quiet
  <2>3. ASSUME NEW p \in Passes, NEW j \in Jobs, Launch(p, j) PROVE Goal
    <3>1. JobStarts(j)
      BY <2>3 DEF Launch, Launchable, JobStarts, TypesBut
    <3> QED
      BY <3>1
  <2>4. ASSUME NEW j \in Jobs, WorkStep(j) PROVE Goal
    BY <2>4 DEF WorkStep, Claim, RunnerEnds, FinishLocked, FinishUnlocked, ForceFinish, FinishFails, Quiet, TypesBut
  <2>5. ASSUME NEW j \in Jobs, ClaimRefused(j) PROVE Goal
    BY <2>5 DEF ClaimRefused, Quiet, TypesBut
  <2>6. ASSUME NEW j \in Jobs, Settle(j) PROVE Goal
    <3>1. JobEnds(j)
      BY <2>6 DEF Settle, JobEnds, TypesBut
    <3> QED
      BY <3>1
  <2>7. ASSUME NEW j \in Jobs, AskStep(j) PROVE Goal
    BY <2>7 DEF AskStep, Ask, Mark, Quiet, TypesBut
  <2>8. ASSUME NEW s \in Syncs, runExclusive(s) PROVE Goal
    <3>1. SyncStarts(s)
      BY <2>8 DEF runExclusive, MayRunNow, SyncStarts
    <3> QED
      BY <3>1
  <2>9. ASSUME NEW s \in Syncs, EndExclusive(s) PROVE Goal
    <3>1. SyncEnds(s)
      BY <2>9 DEF EndExclusive, SyncEnds
    <3> QED
      BY <3>1
  <2>10. ASSUME NEW c \in Cancellers, NEW j \in Jobs, CancelSignal(c, j) PROVE Goal
    BY <2>10 DEF CancelSignal, Released, Quiet, TypesBut
  <2>11. ASSUME NEW c \in Cancellers, CancelRecord(c) PROVE Goal
    BY <2>11 DEF CancelRecord, Quiet
  <2>12. ASSUME NEW a \in Approvers, NEW j \in Jobs, ApproveBegin(a, j) PROVE Goal
    BY <2>12 DEF ApproveBegin, Quiet
  <2>13. ASSUME NEW a \in Approvers, AnswerStep(a) PROVE Goal
    BY <2>13 DEF AnswerStep, ApproveRead, ApproveRefused, ApproveWrite, ApproveFails, Quiet
  <2>14. ASSUME NEW a \in Approvers, ApproveDecide(a) PROVE Goal
    BY <2>14 DEF ApproveDecide, Resolves, Quiet, TypesBut
  <2>15. Start => Goal
    BY DEF Start, Quiet
  <2>16. CleanupStep => Goal
    BY DEF CleanupStep, CleanupList, CleanupWrite, CleanupDone, CleanupFails, Quiet
  <2>17. StopStep => Goal
    BY DEF StopStep, stop, StopDrained, StopSettled, Quiet
  <2>18. Exit => Goal
    BY DEF Exit, AllEnd
  <2> HIDE DEF Goal
  <2> QED
    BY <1>2, <2>1, <2>2, <2>3, <2>4, <2>5, <2>6, <2>7, <2>8, <2>9, <2>10, <2>11, <2>12, <2>13,
       <2>14, <2>15, <2>16, <2>17, <2>18, StepCases, Zenon
<1> QED
  BY <1>1, <1>2

(* A job starts only where nothing runs, so the pool stays consistent.     *)
LEMMA PoolStep == TypesBut /\ Pool /\ [Next]_vars => Pool'
<1> SUFFICES ASSUME TypesBut, Pool, [Next]_vars PROVE Pool'
  OBVIOUS
<1> USE JobQueueAssumption DEF Pool
<1>0. IsFiniteSet(LiveJobs)
  BY FS_Subset
<1>1. CASE Quiet
  BY <1>1 DEF Quiet, poolVars, Counted, Taken, Apart
<1>2. ASSUME NEW j \in Jobs, JobStarts(j) PROVE Pool'
  <2>1. j \notin LiveJobs /\ Active' = Active \cup {j}
    BY <1>2 DEF JobStarts, Taken
  <2>2. Counted'
    <3>1. Cardinality(LiveJobs \cup {j}) = Cardinality(LiveJobs) + 1
      BY <1>0, <2>1, FS_AddElement
    <3> QED
      BY <1>2, <3>1 DEF JobStarts, Counted
  <2>3. Taken' /\ Apart'
    BY <1>2, <2>1 DEF JobStarts, Taken, Apart
  <2> QED
    BY <2>2, <2>3
<1>3. ASSUME NEW j \in Jobs, JobEnds(j) PROVE Pool'
  <2>1. Active' = Active \ {j}
    BY <1>3 DEF JobEnds, TypesBut
  <2>2. Counted'
    <3>1. Cardinality(LiveJobs \ {j}) = Cardinality(LiveJobs) - 1
      BY <1>0, <1>3, FS_RemoveElement DEF JobEnds
    <3> QED
      BY <1>3, <3>1 DEF JobEnds, Counted
  <2>3. Taken' /\ Apart'
    BY <1>3, <2>1 DEF JobEnds, Taken, Apart
  <2> QED
    BY <2>2, <2>3
<1>4. ASSUME NEW s \in Syncs, SyncStarts(s) PROVE Pool'
  <2>1. s \notin Active /\ Active' = Active \cup {s}
    BY <1>4 DEF SyncStarts, Taken
  <2>2. Counted'
    <3>1. LiveJobs' = LiveJobs /\ activeJobs' = activeJobs
      BY <1>4 DEF SyncStarts
    <3> QED
      BY <3>1 DEF Counted
  <2>3. Taken' /\ Apart'
    BY <1>4, <2>1 DEF SyncStarts, Taken, Apart
  <2> QED
    BY <2>2, <2>3
<1>5. ASSUME NEW s \in Syncs, SyncEnds(s) PROVE Pool'
  <2>1. Active' = Active \ {s}
    BY <1>5 DEF SyncEnds, TypesBut
  <2>2. Counted'
    <3>1. LiveJobs' = LiveJobs /\ activeJobs' = activeJobs
      BY <1>5 DEF SyncEnds
    <3> QED
      BY <3>1 DEF Counted
  <2>3. Taken' /\ Apart'
    BY <1>5, <2>1 DEF SyncEnds, Taken, Apart
  <2> QED
    BY <2>2, <2>3
<1>6. CASE AllEnd
  <2>1. Cardinality({}) = 0
    BY FS_EmptySet
  <2> QED
    BY <1>6, <2>1 DEF AllEnd, Counted, Taken, Apart
<1> QED
  BY <1>1, <1>2, <1>3, <1>4, <1>5, <1>6, PoolMoves

-----------------------------------------------------------------------------
IInv == Flags /\ TypesBut /\ Addressed /\ Pool

LEMMA Inductive == Spec => []IInv
<1>1. Init => IInv
  BY InitPool DEF IInv
<1>2. IInv /\ [Next]_vars => IInv'
  BY FlagsStep, TypesStep, PoolStep DEF IInv
<1> QED
  BY <1>1, <1>2, PTL DEF Spec

(* Every variable keeps its type; in particular activeJobs, which the      *)
(* drain compares with the concurrency, is never negative: a slot is given *)
(* back once for each launch.                                              *)
THEOREM TypeCorrect == Spec => []TypeOK
<1>1. IInv => TypeOK
  <2> SUFFICES ASSUME IInv PROVE TypeOK
    OBVIOUS
  <2>1. activeJobs \in Nat
    <3>1. IsFiniteSet(LiveJobs)
      BY JobQueueAssumption, FS_Subset
    <3> QED
      BY <3>1, FS_CardinalityType DEF IInv, Pool, Counted
  <2>2. activeWorkspaces \subseteq Workspaces
    BY JobQueueAssumption DEF IInv, Pool, Taken, TypesBut
  <2>3. Flags /\ TypesBut
    BY DEF IInv
  <2> QED
    BY <2>1, <2>2, <2>3, Zenon DEF Flags, TypesBut, TypeOK
<1> QED
  BY <1>1, Inductive, PTL

(* Whatever runs holds its workspace alone, for every number of jobs,      *)
(* synchronous runs and overlapping drain passes: JobQueue implements      *)
(* WorkspaceHolds.                                                         *)
THEOREM Exclusion == Spec => RunsAlone
<1> DEFINE pairs == {<<h, Workspace[h]>> : h \in Active}
<1>1. Init => Holds!Init
  BY DEF Init, Holds!Init
<1>2. IInv /\ [Next]_vars => [Holds!Next]_pairs
  <2> SUFFICES ASSUME IInv, [Next]_vars PROVE Holds!Next \/ pairs' = pairs
    OBVIOUS
  <2> USE JobQueueAssumption
  <2>0. TypesBut /\ Taken /\ Apart
    BY DEF IInv, Pool
  <2>1. CASE Quiet
    BY <2>1 DEF Quiet
  <2>2. ASSUME NEW h \in Jobs \cup Syncs, Workspace[h] \notin activeWorkspaces,
               Active' = Active \cup {h}
        PROVE  Holds!Next
    <3>1. \A g \in Jobs \cup Syncs : <<g, Workspace[h]>> \notin pairs
      BY <2>0, <2>2 DEF Taken
    <3>2. pairs' = pairs \cup {<<h, Workspace[h]>>}
      BY <2>2
    <3>3. Holds!Take(h, Workspace[h])
      BY <3>1, <3>2 DEF Holds!Take
    <3> QED
      BY <3>3 DEF Holds!Next
  <2>3. ASSUME NEW h \in Active, Active' = Active \ {h}
        PROVE  Holds!Next
    <3>1. h \in Jobs \cup Syncs
      BY <2>0 DEF TypesBut
    <3>2. <<h, Workspace[h]>> \in pairs /\ pairs' = pairs \ {<<h, Workspace[h]>>}
      BY <2>3
    <3>3. Holds!Free(h, Workspace[h])
      BY <3>2 DEF Holds!Free
    <3> QED
      BY <3>1, <3>3 DEF Holds!Next
  <2>4. ASSUME NEW j \in Jobs, JobStarts(j) PROVE Holds!Next
    BY <2>4, <2>2 DEF JobStarts
  <2>5. ASSUME NEW j \in Jobs, JobEnds(j) PROVE Holds!Next
    <3>1. j \in Active /\ Active' = Active \ {j}
      BY <2>0, <2>5 DEF JobEnds, TypesBut
    <3> QED
      BY <3>1, <2>3
  <2>6. ASSUME NEW s \in Syncs, SyncStarts(s) PROVE Holds!Next
    BY <2>6, <2>2 DEF SyncStarts
  <2>7. ASSUME NEW s \in Syncs, SyncEnds(s) PROVE Holds!Next
    <3>1. s \in Active /\ Active' = Active \ {s}
      BY <2>0, <2>7 DEF SyncEnds, TypesBut
    <3> QED
      BY <3>1, <2>3
  <2>8. CASE AllEnd
    BY <2>8 DEF AllEnd, Holds!Next, Holds!FreeAll
  <2> QED
    BY <2>0, <2>1, <2>4, <2>5, <2>6, <2>7, <2>8, PoolMoves
<1> QED
  BY <1>1, <1>2, Inductive, PTL DEF Spec, RunsAlone, Holds!Spec

-----------------------------------------------------------------------------
(* stop() waits for what runs, and nothing starts once it is called.       *)
StopInv ==
    /\ server = "settling" => Active \subseteq settlers
    /\ server = "closed" => Active = {}

LEMMA StopMoves ==
    ASSUME TypesBut, [Next]_vars
    PROVE  \/ server \in {"up", "down"} /\ UNCHANGED server
           \/ UNCHANGED <<server, settlers>> /\ Active' \subseteq Active
           \/ server' \in {"up", "down", "draining"}
           \/ server' = "settling" /\ settlers' = Active /\ Active' = Active
           \/ server = "settling" /\ server' = "closed" /\ settlers \cap Active = {} /\ Active' = Active
<1> DEFINE Goal ==
           \/ server \in {"up", "down"} /\ UNCHANGED server
           \/ UNCHANGED <<server, settlers>> /\ Active' \subseteq Active
           \/ server' \in {"up", "down", "draining"}
           \/ server' = "settling" /\ settlers' = Active /\ Active' = Active
           \/ server = "settling" /\ server' = "closed" /\ settlers \cap Active = {} /\ Active' = Active
<1> SUFFICES Goal
  OBVIOUS
<1>3. CASE UNCHANGED vars
  BY <1>3 DEF vars, serverVars, runVars
<1>4. CASE Next
  <2> USE DEF drainVars, poolVars, runVars, askVars, clientVars, serverVars, boundVars, To, TypesBut
  <2>1. OperatorStep => Goal
    BY DEF OperatorStep, enqueue, pause, resume
  <2>2. ASSUME NEW p \in Passes, PassStep(p) PROVE Goal
    BY <2>2 DEF PassStep, FireTimer, List, ListFails, StopLooping
  <2>3. ASSUME NEW p \in Passes, NEW j \in Jobs, Launch(p, j) PROVE Goal
    BY <2>3 DEF Launch, Halted, isStopped
  <2>4. ASSUME NEW j \in Jobs, WorkStep(j) PROVE Goal
    BY <2>4 DEF WorkStep, Claim, RunnerEnds, FinishLocked, FinishUnlocked, ForceFinish, FinishFails
  <2>5. ASSUME NEW j \in Jobs, ClaimRefused(j) PROVE Goal
    BY <2>5 DEF ClaimRefused
  <2>6. ASSUME NEW j \in Jobs, Settle(j) PROVE Goal
    BY <2>6 DEF Settle
  <2>7. ASSUME NEW j \in Jobs, AskStep(j) PROVE Goal
    BY <2>7 DEF AskStep, Ask, Mark
  <2>8. ASSUME NEW s \in Syncs, runExclusive(s) PROVE Goal
    BY <2>8 DEF runExclusive, MayRunNow, isStopped
  <2>9. ASSUME NEW s \in Syncs, EndExclusive(s) PROVE Goal
    BY <2>9 DEF EndExclusive
  <2>10. ASSUME NEW c \in Cancellers, NEW j \in Jobs, CancelSignal(c, j) PROVE Goal
    BY <2>10 DEF CancelSignal, Released
  <2>11. ASSUME NEW c \in Cancellers, CancelRecord(c) PROVE Goal
    BY <2>11 DEF CancelRecord
  <2>12. ASSUME NEW a \in Approvers, NEW j \in Jobs, ApproveBegin(a, j) PROVE Goal
    BY <2>12 DEF ApproveBegin
  <2>13. ASSUME NEW a \in Approvers, AnswerStep(a) PROVE Goal
    BY <2>13 DEF AnswerStep, ApproveRead, ApproveRefused, ApproveWrite, ApproveFails
  <2>14. ASSUME NEW a \in Approvers, ApproveDecide(a) PROVE Goal
    BY <2>14 DEF ApproveDecide, Resolves
  <2>15. Start => Goal
    BY DEF Start
  <2>16. CleanupStep => Goal
    BY DEF CleanupStep, CleanupList, CleanupWrite, CleanupDone, CleanupFails
  <2>17. StopStep => Goal
    BY DEF StopStep, stop, StopDrained, StopSettled, AllSettled
  <2>18. Exit => Goal
    BY DEF Exit
  <2> HIDE DEF Goal
  <2> QED
    BY <1>4, <2>1, <2>2, <2>3, <2>4, <2>5, <2>6, <2>7, <2>8, <2>9, <2>10, <2>11, <2>12, <2>13,
       <2>14, <2>15, <2>16, <2>17, <2>18, StepCases, Zenon
<1> QED
  BY <1>3, <1>4

(* Nothing runs once stop() has closed the store.                          *)
THEOREM Closing == Spec => []ClosedIsQuiet
<1>1. Init => StopInv
  BY DEF Init, StopInv
<1>2. IInv /\ StopInv /\ [Next]_vars => StopInv'
  <2> SUFFICES ASSUME IInv, StopInv, [Next]_vars PROVE StopInv'
    OBVIOUS
  <2>1. TypesBut
    BY DEF IInv
  <2> QED
    BY <2>1, StopMoves DEF StopInv
<1>3. StopInv => ClosedIsQuiet
  BY DEF StopInv, ClosedIsQuiet
<1> QED
  BY <1>1, <1>2, <1>3, Inductive, PTL DEF Spec

-----------------------------------------------------------------------------
(* What a step does to the passes under way: a pass fires while there is   *)
(* room, goes on after a launch only while there is room, or ends.         *)
LEMMA PassMoves ==
    ASSUME TypesBut, activeJobs \in Nat, [Next]_vars
    PROVE  \/ Listing' \subseteq Listing /\ (Quiet \/ \E s \in Syncs : SyncStarts(s) \/ SyncEnds(s))
           \/ Listing' \subseteq Listing /\ (AllEnd \/ \E j \in Jobs : JobEnds(j))
           \/ activeJobs < Concurrency /\ activeJobs' = activeJobs
           \/ activeJobs' < Concurrency /\ activeJobs' = activeJobs + 1
           \/ \E p \in Listing : Listing' = Listing \ {p} /\ activeJobs' = activeJobs + 1
<1> DEFINE Goal ==
           \/ Listing' \subseteq Listing /\ (Quiet \/ \E s \in Syncs : SyncStarts(s) \/ SyncEnds(s))
           \/ Listing' \subseteq Listing /\ (AllEnd \/ \E j \in Jobs : JobEnds(j))
           \/ activeJobs < Concurrency /\ activeJobs' = activeJobs
           \/ activeJobs' < Concurrency /\ activeJobs' = activeJobs + 1
           \/ \E p \in Listing : Listing' = Listing \ {p} /\ activeJobs' = activeJobs + 1
<1> SUFFICES Goal
  OBVIOUS
<1> USE DEF drainVars, poolVars, MayLoop, Listing, Settled, NoListing, TypesBut
<1>1. CASE \E p \in Passes : FireTimer(p)
  BY <1>1, PoolMoves DEF FireTimer, Quiet, runVars
<1>2. CASE \E p \in Passes, j \in Jobs : Launch(p, j)
  BY <1>2 DEF Launch
<1>3. CASE /\ ~ \E p \in Passes : FireTimer(p)
           /\ ~ \E p \in Passes, j \in Jobs : Launch(p, j)
  <2>1. Listing' \subseteq Listing
    <3>1. CASE UNCHANGED vars
      BY <3>1 DEF vars
    <3>2. CASE Next
      <4>1. CASE UNCHANGED pass
        BY <4>1
      <4>2. CASE \E p \in Passes : List(p) \/ ListFails(p) \/ StopLooping(p)
        BY <4>2 DEF List, ListFails, StopLooping
      <4>3. CASE Exit
        BY <4>3 DEF Exit
      <4> QED
        BY <1>3, <3>2, <4>1, <4>2, <4>3 DEF Next, DrainStep, RunStep, CancelStep, ApproveStep, CleanupStep,
           enqueue, pause, resume, Claim, ClaimRefused, RunnerEnds, FinishLocked, FinishUnlocked,
           ForceFinish, FinishFails, Settle, Ask, Mark, runExclusive, EndExclusive, CancelSignal, CancelRecord,
           ApproveBegin, ApproveRead, ApproveRefused, ApproveDecide, ApproveWrite, ApproveFails, Start, CleanupList,
           CleanupWrite, CleanupDone, CleanupFails, stop, StopDrained, StopSettled
    <3> QED
      BY <3>1, <3>2
  <2>2. activeJobs' # activeJobs + 1
    <3>1. CASE UNCHANGED vars
      BY <3>1 DEF vars
    <3>2. CASE Next
      <4>1. CASE UNCHANGED activeJobs
        BY <4>1
      <4>2. CASE Exit \/ \E j \in Jobs : Settle(j)
        BY <4>2 DEF Exit, Settle
      <4> QED
        BY <1>3, <3>2, <4>1, <4>2 DEF Next, DrainStep, RunStep, CancelStep, ApproveStep, CleanupStep,
           enqueue, pause, resume, List, ListFails, StopLooping, Claim, ClaimRefused, RunnerEnds,
           FinishLocked, FinishUnlocked, ForceFinish, FinishFails, Ask, Mark, runExclusive, EndExclusive,
           CancelSignal, CancelRecord, ApproveBegin, ApproveRead, ApproveRefused, ApproveDecide,
           ApproveWrite, ApproveFails, Start, CleanupList, CleanupWrite, CleanupDone, CleanupFails, stop, StopDrained, StopSettled
    <3> QED
      BY <3>1, <3>2
  <2>3. \A j \in Jobs : ~JobStarts(j)
    BY <2>2 DEF JobStarts
  <2> QED
    BY <2>1, <2>3, PoolMoves
<1> QED
  BY <1>1, <1>2, <1>3

(* The number of runs exceeds the concurrency by at most one for each pass *)
(* beyond the first, whatever the passes and their listings: a pass looked *)
(* at the count once for each run it launches.                             *)
THEOREM Overlap == Spec => []OverlapBound
<1> USE JobQueueAssumption
<1>1. /\ \A S \in SUBSET Passes : Cardinality(S) \in Nat /\ Cardinality(S) <= Cardinality(Passes)
      /\ \A S \in SUBSET Passes : \A p \in S : Cardinality(S \ {p}) = Cardinality(S) - 1
      /\ \A S \in SUBSET Passes : \A R \in SUBSET S : Cardinality(R) <= Cardinality(S)
      /\ Cardinality(Passes) \in Nat
  <2>1. \A S \in SUBSET Passes : IsFiniteSet(S)
    BY FS_Subset
  <2> QED
    BY <2>1, FS_Subset, FS_RemoveElement, FS_CardinalityType
<1>2. Init => OverlapBound
  <2> SUFFICES ASSUME Init PROVE OverlapBound
    OBVIOUS
  <2>1. Listing = {}
    BY DEF Init, Listing, NoListing
  <2>2. Cardinality({}) = 0
    BY FS_EmptySet
  <2> QED
    BY <1>1, <2>1, <2>2 DEF Init, OverlapBound
<1>3. IInv /\ TypeOK /\ OverlapBound /\ [Next]_vars => OverlapBound'
  <2> SUFFICES ASSUME IInv, TypeOK, OverlapBound, [Next]_vars PROVE OverlapBound'
    OBVIOUS
  <2> DEFINE n == Cardinality(Listing)
             m == Cardinality(Listing')
             k == Cardinality(Passes)
  <2>0. /\ TypesBut /\ activeJobs \in Nat
        /\ n \in Nat /\ m \in Nat /\ k \in Nat /\ m <= k
        /\ Listing' \subseteq Listing => m <= n
        /\ \A p \in Listing : Listing' = Listing \ {p} => m = n - 1
    BY <1>1 DEF IInv, TypeOK, Listing
  <2>1. activeJobs + n < Concurrency + k
    BY DEF OverlapBound
  <2>2. SUFFICES activeJobs' + m < Concurrency + k
    BY DEF OverlapBound
  <2> HIDE DEF n, m, k
  <2>3. ASSUME Listing' \subseteq Listing, activeJobs' \in Nat, activeJobs' <= activeJobs
        PROVE  activeJobs' + m < Concurrency + k
    <3>1. m <= n /\ n \in Nat /\ m \in Nat /\ k \in Nat /\ activeJobs \in Nat /\ Concurrency \in Nat
      BY <2>0, <2>3
    <3>2. \A a, b, c, d, e, f \in Nat : a + b < e + f /\ c <= a /\ d <= b => c + d < e + f
      OBVIOUS
    <3> QED
      BY <2>1, <2>3, <3>1, <3>2, Zenon
  <2>4. CASE Listing' \subseteq Listing /\ (Quiet \/ \E s \in Syncs : SyncStarts(s) \/ SyncEnds(s))
    BY <2>0, <2>3, <2>4 DEF Quiet, poolVars, SyncStarts, SyncEnds
  <2>5. CASE Listing' \subseteq Listing /\ (AllEnd \/ \E j \in Jobs : JobEnds(j))
    <3>1. activeJobs' \in Nat
      <4>1. TypesBut' /\ Pool'
        BY TypesStep, PoolStep DEF IInv
      <4>2. IsFiniteSet(LiveJobs')
        BY FS_Subset
      <4> QED
        BY <4>1, <4>2, FS_CardinalityType DEF Pool, Counted
    <3>2. activeJobs' <= activeJobs
      <4>1. activeJobs \in Nat
        BY <2>0
      <4> QED
        BY <2>5, <4>1 DEF AllEnd, JobEnds
    <3> QED
      BY <2>3, <2>5, <3>1, <3>2
  <2>6. CASE activeJobs < Concurrency /\ activeJobs' = activeJobs
    BY <2>0, <2>6
  <2>7. CASE activeJobs' < Concurrency /\ activeJobs' = activeJobs + 1
    BY <2>0, <2>7
  <2>8. CASE \E p \in Listing : Listing' = Listing \ {p} /\ activeJobs' = activeJobs + 1
    BY <2>0, <2>1, <2>8
  <2> QED
    BY <2>0, <2>4, <2>5, <2>6, <2>7, <2>8, PassMoves
<1> QED
  BY <1>2, <1>3, Inductive, TypeCorrect, PTL DEF Spec

-----------------------------------------------------------------------------
(* A run whose signal is aborted does not wait: it is released by the      *)
(* abort, and may not wait again.                                          *)
THEOREM NoWaitAfterAbort == Spec => []AbortedNeverWaits
<1>1. Init => AbortedNeverWaits
  BY DEF Init, AbortedNeverWaits
<1>2. IInv /\ AbortedNeverWaits /\ [Next]_vars => AbortedNeverWaits'
  <2> SUFFICES ASSUME IInv, AbortedNeverWaits, [Next]_vars PROVE AbortedNeverWaits'
    OBVIOUS
  <2>0. TypesBut
    BY DEF IInv
  <2> USE <2>0 DEF TypesBut, AbortedNeverWaits, runVars, To
  <2>1. CASE UNCHANGED <<run, aborted>>
    BY <2>1
  <2>2. CASE \E p \in Passes, j \in Jobs : Launch(p, j)
    BY <2>2 DEF Launch
  <2>3. CASE \E j \in Jobs : RunStep(j)
    BY <2>3 DEF RunStep, Claim, ClaimRefused, RunnerEnds, FinishLocked, FinishUnlocked, ForceFinish, FinishFails, Settle
  <2>4. CASE \E j \in Jobs : Ask(j)
    BY <2>4 DEF Ask, MayAsk
  <2>5. CASE \E c \in Cancellers, j \in Jobs : CancelSignal(c, j)
    BY <2>5 DEF CancelSignal, Released
  <2>6. CASE \E a \in Approvers : ApproveDecide(a)
    BY <2>6 DEF ApproveDecide
  <2>7. CASE Exit
    BY <2>7 DEF Exit
  <2>8. CASE UNCHANGED vars
    BY <2>1, <2>8 DEF vars
  <2>9. CASE Next
    BY <2>1, <2>2, <2>3, <2>4, <2>5, <2>6, <2>7, <2>9 DEF Next, DrainStep, CancelStep, ApproveStep,
       CleanupStep, enqueue, pause, resume, FireTimer, List, ListFails, StopLooping, Mark, runExclusive,
       EndExclusive, CancelRecord, ApproveBegin, ApproveRead, ApproveRefused, ApproveWrite, ApproveFails, Start,
       CleanupList, CleanupWrite, CleanupDone, CleanupFails, stop, StopDrained, StopSettled
  <2> QED
    BY <2>8, <2>9
<1> QED
  BY <1>1, <1>2, Inductive, PTL DEF Spec

-----------------------------------------------------------------------------
(* A job with a run past its claim, or with a mark, a request or an        *)
(* approval of such a run under way, has left the queue for good; a job    *)
(* someone cancels has a record.                                           *)
Begun(s) == s \notin {"absent", "queued"}
LifeInv ==
    /\ \A j \in Jobs : \/ run[j] \in {"running", "waiting", "finishing", "forcing"}
                       \/ marks[j] > 0 \/ pending[j] # 0
                       => Begun(status[j])
    /\ \A a \in Approvers : approver[a].pc # "idle" => Begun(status[approver[a].job])
    /\ \A a \in Approvers : approver[a].pc \in {"deciding", "writing"} => Begun(approver[a].seen)
    /\ \A c \in Cancellers : canceller[c].pc # "idle" => status[canceller[c].job] # "absent"

LEMMA LifeStep == TypesBut /\ Addressed /\ LifeInv /\ [Next]_vars => LifeInv'
<1> SUFFICES ASSUME TypesBut, Addressed, LifeInv, [Next]_vars PROVE LifeInv'
  OBVIOUS
<1> USE DEF TypesBut, Addressed, LifeInv, Begun, Finished, drainVars, poolVars, runVars, askVars,
    clientVars, serverVars, boundVars, SetStatus, To
<1>1. CASE UNCHANGED vars
  BY <1>1 DEF vars
<1>2. CASE Next
  <2>1. OperatorStep => LifeInv'
    BY DEF OperatorStep, enqueue, pause, resume
  <2>2. ASSUME NEW p \in Passes, PassStep(p) PROVE LifeInv'
    BY <2>2 DEF PassStep, FireTimer, List, ListFails, StopLooping
  <2>3. ASSUME NEW p \in Passes, NEW j \in Jobs, Launch(p, j) PROVE LifeInv'
    BY <2>3 DEF Launch
  <2>4. ASSUME NEW j \in Jobs, WorkStep(j) PROVE LifeInv'
    <3>1. Claim(j) => LifeInv'
      BY DEF Claim
    <3>2. RunnerEnds(j) => LifeInv'
      BY DEF RunnerEnds
    <3>3. FinishLocked(j) => LifeInv'
      BY DEF FinishLocked
    <3>4. FinishUnlocked(j) => LifeInv'
      BY DEF FinishUnlocked
    <3>5. ForceFinish(j) => LifeInv'
      BY DEF ForceFinish
    <3>6. FinishFails(j) => LifeInv'
      BY DEF FinishFails
    <3> QED
      BY <2>4, <3>1, <3>2, <3>3, <3>4, <3>5, <3>6 DEF WorkStep
  <2>5. ASSUME NEW j \in Jobs, ClaimRefused(j) PROVE LifeInv'
    BY <2>5 DEF ClaimRefused
  <2>6. ASSUME NEW j \in Jobs, Settle(j) PROVE LifeInv'
    BY <2>6 DEF Settle
  <2>7. ASSUME NEW j \in Jobs, AskStep(j) PROVE LifeInv'
    <3>1. Ask(j) => LifeInv'
      BY DEF Ask
    <3>2. Mark(j) => LifeInv'
      BY DEF Mark
    <3> QED
      BY <2>7, <3>1, <3>2 DEF AskStep
  <2>8. ASSUME NEW s \in Syncs, runExclusive(s) PROVE LifeInv'
    BY <2>8 DEF runExclusive
  <2>9. ASSUME NEW s \in Syncs, EndExclusive(s) PROVE LifeInv'
    BY <2>9 DEF EndExclusive
  <2>10. ASSUME NEW c \in Cancellers, NEW j \in Jobs, CancelSignal(c, j) PROVE LifeInv'
    BY <2>10 DEF CancelSignal, Released
  <2>11. ASSUME NEW c \in Cancellers, CancelRecord(c) PROVE LifeInv'
    BY <2>11 DEF CancelRecord, NoCancel
  <2>12. ASSUME NEW a \in Approvers, NEW j \in Jobs, ApproveBegin(a, j) PROVE LifeInv'
    BY <2>12 DEF ApproveBegin
  <2>13. ASSUME NEW a \in Approvers, AnswerStep(a) PROVE LifeInv'
    <3>1. ApproveRead(a) => LifeInv'
      BY DEF ApproveRead
    <3>2. ApproveRefused(a) => LifeInv'
      BY DEF ApproveRefused, PendingWhenRefused, NoApproval
    <3>3. ApproveWrite(a) => LifeInv'
      BY DEF ApproveWrite, NoApproval
    <3>4. ApproveFails(a) => LifeInv'
      BY DEF ApproveFails, NoApproval
    <3> QED
      BY <2>13, <3>1, <3>2, <3>3, <3>4 DEF AnswerStep
  <2>14. ASSUME NEW a \in Approvers, ApproveDecide(a) PROVE LifeInv'
    BY <2>14 DEF ApproveDecide, Resolves
  <2>15. Start => LifeInv'
    BY DEF Start
  <2>16. CleanupStep => LifeInv'
    BY DEF CleanupStep, CleanupList, CleanupWrite, CleanupDone, CleanupFails
  <2>17. StopStep => LifeInv'
    BY DEF StopStep, stop, StopDrained, StopSettled
  <2>18. Exit => LifeInv'
    BY DEF Exit, NoApproval, NoCancel
  <2> QED
    BY <1>2, <2>1, <2>2, <2>3, <2>4, <2>5, <2>6, <2>7, <2>8, <2>9, <2>10, <2>11, <2>12, <2>13,
       <2>14, <2>15, <2>16, <2>17, <2>18, StepCases, Zenon
<1> QED
  BY <1>1, <1>2

LEMMA FailureWrites ==
    ASSUME NEW j \in Jobs, FinishFails(j)
    PROVE  /\ run[j] \in {"finishing", "forcing"}
           /\ \/ UNCHANGED status
              \/ run[j] = "forcing" /\ SetStatus(j, verdict[j])
              \/ MayFinish(j) /\ SetStatus(j, verdict[j])
BY Zenon DEF FinishFails

(* The job lock keeps every job to the life JobLifecycle allows; only the  *)
(* three writes made without it can stray.                                 *)
THEOREM OneLife == Spec => LivesOneLife
<1>1. Init => LifeInv
  BY DEF Init, LifeInv, NoApproval, NoCancel
<1>2. IInv /\ LifeInv /\ [Next]_vars => LifeInv'
  BY LifeStep DEF IInv
<1>3. IInv /\ LifeInv /\ [Next]_vars
        => [Lifecycle!Ordinary \/ \E j \in Jobs : UnlockedWrite(j)]_status
  <2> DEFINE Goal == Lifecycle!Ordinary \/ (\E j \in Jobs : UnlockedWrite(j)) \/ UNCHANGED status
  <2> SUFFICES ASSUME IInv, LifeInv, [Next]_vars PROVE Goal
    OBVIOUS
  <2>0. TypesBut /\ Addressed
    BY DEF IInv
  <2>1. ASSUME NEW j \in Jobs, Lifecycle!Submit(j) \/ Lifecycle!Run(j) \/ Lifecycle!Wait(j)
                               \/ Lifecycle!Succeed(j) \/ Lifecycle!GiveUp(j) \/ Lifecycle!Cancel(j)
        PROVE  Goal
    BY <2>1 DEF Lifecycle!Ordinary
  <2> USE DEF Lifecycle!Submit, Lifecycle!Run, Lifecycle!Wait, Lifecycle!Succeed, Lifecycle!GiveUp,
      Lifecycle!Cancel, Lifecycle!Move, Lifecycle!Unfinished, SetStatus
  <2>2. ASSUME NEW j \in Jobs, enqueue(j) PROVE Goal
    <3>1. Lifecycle!Submit(j)
      BY <2>2 DEF enqueue
    <3> QED
      BY <2>1, <3>1
  <2>3. ASSUME NEW j \in Jobs, Claim(j) PROVE Goal
    <3>1. Lifecycle!Run(j)
      BY <2>3 DEF Claim, StillQueued
    <3> QED
      BY <2>1, <3>1
  <2>4. ASSUME NEW j \in Jobs, Mark(j) PROVE Goal
    <3>1. status[j] \in JobStatus /\ Begun(status[j])
      BY <2>0, <2>4 DEF Mark, LifeInv, TypesBut
    <3>2. UNCHANGED status \/ Lifecycle!Wait(j)
      BY <2>0, <2>4, <3>1 DEF Mark, Begun, JobStatus, TypesBut
    <3> QED
      BY <2>1, <3>2
  <2>5. ASSUME NEW j \in Jobs, FinishLocked(j) PROVE Goal
    <3>1. status[j] \in JobStatus /\ Begun(status[j]) /\ verdict[j] \in Finished
      BY <2>0, <2>5 DEF FinishLocked, LifeInv, TypesBut
    <3>2. UNCHANGED status \/ Lifecycle!Succeed(j) \/ Lifecycle!GiveUp(j) \/ Lifecycle!Cancel(j)
      BY <2>5, <3>1 DEF FinishLocked, MayFinish, Begun, JobStatus, Finished
    <3> QED
      BY <2>1, <3>2
  <2>6. ASSUME NEW j \in Jobs, ForceFinish(j) PROVE Goal
    <3>1. UnlockedWrite(j)
      BY <2>0, <2>6 DEF ForceFinish, UnlockedWrite, TypesBut
    <3> QED
      BY <3>1
  <2>7. ASSUME NEW c \in Cancellers, CancelRecord(c) PROVE Goal
    <3> DEFINE j == canceller[c].job
    <3>1. j \in Jobs /\ status[j] \in JobStatus /\ status[j] # "absent"
      BY <2>0, <2>7 DEF CancelRecord, LifeInv, Addressed, TypesBut
    <3>2. UNCHANGED status \/ Lifecycle!Cancel(j)
      BY <2>7, <3>1 DEF CancelRecord, JobStatus, Finished
    <3> QED
      BY <2>1, <3>1, <3>2
  <2>8. ASSUME NEW a \in Approvers, ApproveWrite(a) PROVE Goal
    <3>1. approver[a].job \in Jobs /\ UnlockedWrite(approver[a].job)
      BY <2>0, <2>8 DEF ApproveWrite, UnlockedWrite, Addressed, TypesBut
    <3> QED
      BY <3>1
  <2>9. ASSUME NEW j \in Jobs, CleanupWrite(j) PROVE Goal
    <3>1. UnlockedWrite(j)
      BY <2>0, <2>9 DEF CleanupWrite, UnlockedWrite, TypesBut
    <3> QED
      BY <3>1
  <2>12. ASSUME NEW j \in Jobs, ClaimRefused(j) PROVE Goal
    <3>1. UNCHANGED status \/ Lifecycle!Run(j)
      BY <2>12 DEF ClaimRefused, StillQueued
    <3> QED
      BY <2>1, <3>1
  <2>13. ASSUME NEW j \in Jobs, FinishFails(j) PROVE Goal
    <3>2. CASE run[j] = "forcing" /\ SetStatus(j, verdict[j])
      <4>1. UnlockedWrite(j)
        BY <2>0, <3>2 DEF UnlockedWrite, TypesBut
      <4> QED
        BY <4>1
    <3>3. CASE run[j] = "finishing" /\ MayFinish(j) /\ SetStatus(j, verdict[j])
      <4>1. status[j] \in JobStatus /\ Begun(status[j]) /\ verdict[j] \in Finished
        BY <2>0, <3>3 DEF LifeInv, TypesBut
      <4>2. Lifecycle!Succeed(j) \/ Lifecycle!GiveUp(j) \/ Lifecycle!Cancel(j)
        BY <3>3, <4>1 DEF MayFinish, Begun, JobStatus, Finished
      <4> QED
        BY <2>1, <4>2
    <3> HIDE DEF Goal
    <3>1. UNCHANGED status => Goal
      BY DEF Goal
    <3> QED
      BY <2>13, <3>1, <3>2, <3>3, FailureWrites, Zenon
  <2>14. ASSUME CleanupFails PROVE Goal
    <3>1. UNCHANGED status \/ \E j \in cleanup.hung : SetStatus(j, "failed")
      BY <2>14 DEF CleanupFails
    <3>2. ASSUME NEW j \in cleanup.hung, SetStatus(j, "failed") PROVE Goal
      <4>1. j \in Jobs /\ UnlockedWrite(j)
        BY <2>0, <3>2 DEF UnlockedWrite, TypesBut
      <4> QED
        BY <4>1
    <3> QED
      BY <3>1, <3>2
  <2>10. CASE UNCHANGED vars
    BY <2>10 DEF vars
  <2>11. CASE Next
    <3> HIDE DEF Goal
    <3>1. UNCHANGED status => Goal
      BY DEF Goal
    <3> QED
      BY <2>2, <2>3, <2>4, <2>5, <2>6, <2>7, <2>8, <2>9, <2>11, <2>12, <2>13, <2>14, <3>1 DEF Next, DrainStep, RunStep,
         CancelStep, ApproveStep, CleanupStep, pause, resume, FireTimer, List, ListFails, StopLooping,
         Launch, RunnerEnds, FinishUnlocked, Settle, Ask, runExclusive, EndExclusive,
         CancelSignal, ApproveBegin, ApproveRead, ApproveRefused, ApproveFails, ApproveDecide, Start, CleanupList,
         CleanupDone, stop, StopDrained, StopSettled, Exit
  <2> QED
    BY <2>10, <2>11
<1> QED
  BY <1>1, <1>2, <1>3, Inductive, PTL DEF Spec, LivesOneLife

(* So a finished job, a cancelled one above all, leaves its status only by *)
(* one of those three writes (approveJob, cleanupHungJobs, the last resort *)
(* of finishRun), and by none of them for another job.                     *)
FinishedStays(j) == status[j] \in Finished /\ ~UnlockedWrite(j) => status'[j] = status[j]

THEOREM Finality == Spec => [][\A j \in Jobs : FinishedStays(j)]_vars
<1>1. TypesBut /\ [Lifecycle!Ordinary \/ \E j \in Jobs : UnlockedWrite(j)]_status
          => [\A j \in Jobs : FinishedStays(j)]_vars
  <2> SUFFICES ASSUME TypesBut, NEW j \in Jobs, status[j] \in Finished,
                      Lifecycle!Ordinary \/ \E k \in Jobs : UnlockedWrite(k),
                      ~UnlockedWrite(j)
               PROVE  status'[j] = status[j]
    BY DEF FinishedStays
  <2>1. ASSUME NEW k \in Jobs, UnlockedWrite(k) PROVE status'[j] = status[j]
    BY <2>1 DEF UnlockedWrite, TypesBut
  <2>2. ASSUME NEW k \in Jobs, NEW from, NEW to, from \cap Finished = {},
               Lifecycle!Move(k, from, to)
        PROVE  status'[j] = status[j]
    BY <2>2 DEF Lifecycle!Move, TypesBut
  <2>3. CASE Lifecycle!Ordinary
    BY <2>2, <2>3 DEF Lifecycle!Ordinary, Lifecycle!Submit, Lifecycle!Assign, Lifecycle!Run,
       Lifecycle!Wait, Lifecycle!Requeue, Lifecycle!Park, Lifecycle!Succeed,
       Lifecycle!GiveUp, Lifecycle!Cancel, Lifecycle!Unfinished, Finished
  <2> QED
    BY <2>1, <2>3
<1>2. IInv => TypesBut
  BY DEF IInv
<1> QED
  BY <1>1, <1>2, OneLife, Inductive, PTL DEF LivesOneLife

-----------------------------------------------------------------------------
(* No two approvals of one job are under way at a time, counted from the   *)
(* request that is looked up to the decision that deletes it (approveJob). *)
ApprovalsApart ==
    \A a, b \in Approvers :
        approver[a].pc \in {"reading", "deciding"} /\ approver[b].pc \in {"reading", "deciding"}
            => a = b \/ approver[a].job # approver[b].job

(* Then the request kept for a job is the one its run waits for, and an    *)
(* approval under way answers that request or finds the wait ended by a    *)
(* cancel.                                                                 *)
ApprovalInv ==
    /\ \A j \in Jobs : pending[j] # 0 => run[j] = "waiting" /\ pending[j] = asked[j]
    /\ \A j \in Jobs : run[j] = "waiting" => pending[j] = asked[j] /\ pending[j] # 0
    /\ \A a \in Approvers :
          approver[a].pc \in {"reading", "deciding"} =>
              LET j == approver[a].job IN
              \/ run[j] = "waiting" /\ asked[j] = approver[a].ask
              \/ run[j] = "running" /\ j \in aborted
              \/ run[j] \in {"off", "claiming", "finishing", "forcing", "settling"}

LEMMA ApprovalStep ==
    ASSUME TypesBut, Addressed, Pool, LifeInv, ApprovalsApart, ApprovalInv, [Next]_vars
    PROVE  ApprovalInv'
<1> USE DEF TypesBut, Addressed, ApprovalInv, drainVars, poolVars, runVars, askVars, clientVars,
    serverVars, boundVars, To
<1>1. CASE UNCHANGED vars
  BY <1>1 DEF vars
<1>2. CASE Next
  <2>1. OperatorStep => ApprovalInv'
    BY DEF OperatorStep, enqueue, pause, resume
  <2>2. ASSUME NEW p \in Passes, PassStep(p) PROVE ApprovalInv'
    BY <2>2 DEF PassStep, FireTimer, List, ListFails, StopLooping
  <2>3. ASSUME NEW p \in Passes, NEW j \in Jobs, Launch(p, j) PROVE ApprovalInv'
    <3>1. run[j] = "off"
      BY <2>3 DEF Launch, Launchable, Pool, Taken
    <3> QED
      BY <2>3, <3>1 DEF Launch
  <2>4. ASSUME NEW j \in Jobs, WorkStep(j) PROVE ApprovalInv'
    <3>1. Claim(j) => ApprovalInv'
      BY DEF Claim, StillQueued, LifeInv, Begun
    <3>2. RunnerEnds(j) \/ FinishLocked(j) \/ FinishUnlocked(j) \/ ForceFinish(j) \/ FinishFails(j)
              => ApprovalInv'
      <4> SUFFICES ASSUME RunnerEnds(j) \/ FinishLocked(j) \/ FinishUnlocked(j) \/ ForceFinish(j)
                          \/ FinishFails(j)
                   PROVE  ApprovalInv'
        OBVIOUS
      <4>1. /\ run[j] \in {"running", "finishing", "forcing"}
            /\ \E pc \in {"finishing", "forcing", "settling"} : run' = [run EXCEPT ![j] = pc]
            /\ UNCHANGED <<pending, asked, aborted, approver>>
        BY DEF RunnerEnds, FinishLocked, FinishUnlocked, ForceFinish, FinishFails
      <4>2. /\ run'[j] \in {"finishing", "forcing", "settling"} /\ run[j] # "waiting"
            /\ \A k \in Jobs \ {j} : run'[k] = run[k]
        BY <4>1
      <4> QED
        BY <4>1, <4>2
    <3> QED
      BY <2>4, <3>1, <3>2 DEF WorkStep
  <2>5. ASSUME NEW j \in Jobs, ClaimRefused(j) PROVE ApprovalInv'
    BY <2>5 DEF ClaimRefused
  <2>6. ASSUME NEW j \in Jobs, Settle(j) PROVE ApprovalInv'
    BY <2>6 DEF Settle
  <2>7. ASSUME NEW j \in Jobs, AskStep(j) PROVE ApprovalInv'
    <3>1. CASE Ask(j)
      <4>1. /\ j \notin aborted /\ run[j] = "running"
            /\ run'[j] = "waiting" /\ pending'[j] = asked'[j] /\ pending'[j] # 0
            /\ \A k \in Jobs \ {j} :
                   run'[k] = run[k] /\ pending'[k] = pending[k] /\ asked'[k] = asked[k]
            /\ UNCHANGED <<approver, aborted>>
        BY <3>1 DEF Ask, MayAsk
      <4>2. ASSUME NEW b \in Approvers, approver[b].pc \in {"reading", "deciding"}
            PROVE  approver[b].job \in Jobs \ {j}
        BY <4>1, <4>2 DEF Addressed
      <4>3. ASSUME NEW k \in Jobs
            PROVE  /\ pending'[k] # 0 => run'[k] = "waiting" /\ pending'[k] = asked'[k]
                   /\ run'[k] = "waiting" => pending'[k] = asked'[k] /\ pending'[k] # 0
        <5>1. CASE k = j
          BY <4>1, <5>1
        <5>2. CASE k # j
          <6>1. /\ run'[k] = run[k] /\ pending'[k] = pending[k] /\ asked'[k] = asked[k]
            BY <4>1, <5>2
          <6> QED
            BY <6>1
        <5> QED
          BY <5>1, <5>2
      <4>4. ASSUME NEW b \in Approvers, approver'[b].pc \in {"reading", "deciding"}
            PROVE  LET k == approver'[b].job IN
                   \/ run'[k] = "waiting" /\ asked'[k] = approver'[b].ask
                   \/ run'[k] = "running" /\ k \in aborted'
                   \/ run'[k] \in {"off", "claiming", "finishing", "forcing", "settling"}
        BY <4>1, <4>2, <4>4
      <4> QED
        BY <4>3, <4>4
    <3>2. CASE Mark(j)
      BY <3>2 DEF Mark
    <3> QED
      BY <2>7, <3>1, <3>2 DEF AskStep
  <2>8. ASSUME NEW s \in Syncs, runExclusive(s) PROVE ApprovalInv'
    BY <2>8 DEF runExclusive
  <2>9. ASSUME NEW s \in Syncs, EndExclusive(s) PROVE ApprovalInv'
    BY <2>9 DEF EndExclusive
  <2>10. ASSUME NEW c \in Cancellers, NEW j \in Jobs, CancelSignal(c, j) PROVE ApprovalInv'
    <3>1. CASE Released(j)
      <4>1. /\ run' = [run EXCEPT ![j] = "running"] /\ pending' = [pending EXCEPT ![j] = 0]
            /\ j \in aborted' /\ aborted \subseteq aborted'
            /\ UNCHANGED <<approver, asked>>
        BY <2>10, <3>1 DEF CancelSignal, Released
      <4>2. run'[j] = "running" /\ pending'[j] = 0
        BY <4>1
      <4>3. \A k \in Jobs \ {j} : run'[k] = run[k] /\ pending'[k] = pending[k]
        BY <4>1
      <4>4. ASSUME NEW b \in Approvers, approver[b].pc \in {"reading", "deciding"}
            PROVE  LET k == approver[b].job IN
                   \/ run'[k] = "waiting" /\ asked[k] = approver[b].ask
                   \/ run'[k] = "running" /\ k \in aborted'
                   \/ run'[k] \in {"off", "claiming", "finishing", "forcing", "settling"}
        <5>1. approver[b].job \in Jobs
          BY <4>4 DEF Addressed
        <5> QED
          BY <4>1, <4>2, <4>3, <4>4, <5>1
      <4> QED
        BY <4>1, <4>2, <4>3, <4>4
    <3>2. CASE ~Released(j)
      <4>1. UNCHANGED <<run, pending, approver, asked>> /\ aborted \subseteq aborted'
        BY <2>10, <3>2 DEF CancelSignal
      <4> QED
        BY <4>1
    <3> QED
      BY <3>1, <3>2
  <2>11. ASSUME NEW c \in Cancellers, CancelRecord(c) PROVE ApprovalInv'
    BY <2>11 DEF CancelRecord
  <2>12. ASSUME NEW a \in Approvers, NEW j \in Jobs, ApproveBegin(a, j) PROVE ApprovalInv'
    BY <2>12 DEF ApproveBegin
  <2>13. ASSUME NEW a \in Approvers, AnswerStep(a) PROVE ApprovalInv'
    <3>1. /\ UNCHANGED <<run, pending, asked, aborted>>
          /\ \A b \in Approvers : approver'[b].pc \in {"reading", "deciding"} =>
                /\ approver[b].pc \in {"reading", "deciding"}
                /\ approver'[b].job = approver[b].job /\ approver'[b].ask = approver[b].ask
      <4>1. CASE ApproveRead(a)
        BY <4>1 DEF ApproveRead
      <4>2. CASE ApproveRefused(a)
        BY <4>2 DEF ApproveRefused, PendingWhenRefused, NoApproval
      <4>3. CASE ApproveWrite(a) \/ ApproveFails(a)
        BY <4>3 DEF ApproveWrite, ApproveFails, NoApproval
      <4> QED
        BY <2>13, <4>1, <4>2, <4>3 DEF AnswerStep
    <3> QED
      BY <3>1
  <2>14. ASSUME NEW a \in Approvers, ApproveDecide(a) PROVE ApprovalInv'
    <3> DEFINE j == approver[a].job
    <3>1. /\ j \in Jobs /\ approver[a].pc = "deciding"
          /\ pending'[j] = 0 /\ run'[j] # "waiting"
          /\ \A k \in Jobs \ {j} : pending'[k] = pending[k] /\ run'[k] = run[k]
          /\ UNCHANGED <<asked, aborted>>
      BY <2>14 DEF ApproveDecide, Resolves
    <3>2. ASSUME NEW b \in Approvers, approver'[b].pc \in {"reading", "deciding"}
          PROVE  /\ approver'[b] = approver[b]
                 /\ approver[b].job \in Jobs \ {j}
      BY <2>14, <3>1, <3>2 DEF ApproveDecide, ApprovalsApart
    <3> HIDE DEF j
    <3> QED
      BY <3>1, <3>2
  <2>15. Start => ApprovalInv'
    BY DEF Start
  <2>16. CleanupStep => ApprovalInv'
    BY DEF CleanupStep, CleanupList, CleanupWrite, CleanupDone, CleanupFails
  <2>17. StopStep => ApprovalInv'
    BY DEF StopStep, stop, StopDrained, StopSettled
  <2>18. Exit => ApprovalInv'
    BY DEF Exit, NoApproval
  <2> QED
    BY <1>2, <2>1, <2>2, <2>3, <2>4, <2>5, <2>6, <2>7, <2>8, <2>9, <2>10, <2>11, <2>12, <2>13,
       <2>14, <2>15, <2>16, <2>17, <2>18, StepCases, Zenon
<1> QED
  BY <1>1, <1>2

(* While no two approvals of one job overlap, no wait ever loses its       *)
(* request: approveJob deletes the one it has answered, and a run that     *)
(* waits again has stored its own.                                         *)
THEOREM Approvable == Spec /\ []ApprovalsApart => []WaitingIsApprovable
<1>1. Init => LifeInv /\ ApprovalInv
  BY DEF Init, LifeInv, ApprovalInv, NoApproval, NoCancel
<1>2. IInv /\ LifeInv /\ ApprovalsApart /\ ApprovalInv /\ [Next]_vars
          => LifeInv' /\ ApprovalInv'
  BY LifeStep, ApprovalStep DEF IInv
<1>3. ApprovalInv => WaitingIsApprovable
  BY DEF ApprovalInv, WaitingIsApprovable
<1> QED
  BY <1>1, <1>2, <1>3, Inductive, PTL DEF Spec

(* With one client that approves they never overlap, so the invariant the  *)
(* run checks holds with no other condition.                               *)
THEOREM SoleApprover ==
    ASSUME \A a, b \in Approvers : a = b
    PROVE  Spec => []WaitingIsApprovable
<1>1. ApprovalsApart
  BY DEF ApprovalsApart
<1> QED
  BY <1>1, Approvable, PTL

-----------------------------------------------------------------------------
(* While the process is alive, a job recorded as running is one that its   *)
(* run has claimed and not finished, one the cleanup is still to fail, or  *)
(* one that was left behind since the start.                               *)
ToBeFailed(j) ==
    cleanup.pc = "listing" \/ (cleanup.pc = "writing" /\ j \in cleanup.hung)
RunningInv ==
    Alive => \A j \in Jobs :
        status[j] = "running" => Runs(j) \/ ToBeFailed(j) \/ j \in orphans

LEMMA RunningStep ==
    ASSUME TypesBut, Addressed, Pool, RunningInv, [Next]_vars
    PROVE  RunningInv'
<1> USE DEF TypesBut, Addressed, RunningInv, Runs, ToBeFailed, Alive, Finished, drainVars, poolVars,
    runVars, askVars, clientVars, serverVars, boundVars, SetStatus, To, Fault, Fails, Leaves
<1>1. CASE UNCHANGED vars
  BY <1>1 DEF vars
<1>2. CASE Next
  <2>1. OperatorStep => RunningInv'
    BY DEF OperatorStep, enqueue, pause, resume
  <2>2. ASSUME NEW p \in Passes, PassStep(p) PROVE RunningInv'
    BY <2>2 DEF PassStep, FireTimer, List, ListFails, StopLooping
  <2>3. ASSUME NEW p \in Passes, NEW j \in Jobs, Launch(p, j) PROVE RunningInv'
    <3>1. run[j] = "off"
      BY <2>3 DEF Launch, Launchable, Pool, Taken
    <3> QED
      BY <2>3, <3>1 DEF Launch
  <2>4. ASSUME NEW j \in Jobs, WorkStep(j) PROVE RunningInv'
    <3>1. Claim(j) => RunningInv'
      BY DEF Claim
    <3>2. RunnerEnds(j) => RunningInv'
      BY DEF RunnerEnds
    <3>3. FinishLocked(j) => RunningInv'
      BY DEF FinishLocked, MayFinish
    <3>4. FinishUnlocked(j) => RunningInv'
      BY DEF FinishUnlocked, MayFinish
    <3>5. ForceFinish(j) => RunningInv'
      BY DEF ForceFinish
    <3>6. FinishFails(j) => RunningInv'
      BY DEF FinishFails
    <3> QED
      BY <2>4, <3>1, <3>2, <3>3, <3>4, <3>5, <3>6 DEF WorkStep
  <2>5. ASSUME NEW j \in Jobs, ClaimRefused(j) PROVE RunningInv'
    BY <2>5 DEF ClaimRefused
  <2>6. ASSUME NEW j \in Jobs, Settle(j) PROVE RunningInv'
    BY <2>6 DEF Settle
  <2>7. ASSUME NEW j \in Jobs, AskStep(j) PROVE RunningInv'
    <3>1. Ask(j) => RunningInv'
      BY DEF Ask
    <3>2. Mark(j) => RunningInv'
      BY DEF Mark
    <3> QED
      BY <2>7, <3>1, <3>2 DEF AskStep
  <2>8. ASSUME NEW s \in Syncs, runExclusive(s) PROVE RunningInv'
    BY <2>8 DEF runExclusive
  <2>9. ASSUME NEW s \in Syncs, EndExclusive(s) PROVE RunningInv'
    BY <2>9 DEF EndExclusive
  <2>10. ASSUME NEW c \in Cancellers, NEW j \in Jobs, CancelSignal(c, j) PROVE RunningInv'
    BY <2>10 DEF CancelSignal, Released
  <2>11. ASSUME NEW c \in Cancellers, CancelRecord(c) PROVE RunningInv'
    BY <2>11 DEF CancelRecord
  <2>12. ASSUME NEW a \in Approvers, NEW j \in Jobs, ApproveBegin(a, j) PROVE RunningInv'
    BY <2>12 DEF ApproveBegin
  <2>13. ASSUME NEW a \in Approvers, AnswerStep(a) PROVE RunningInv'
    <3>1. ApproveRead(a) \/ ApproveRefused(a) => RunningInv'
      BY DEF ApproveRead, ApproveRefused
    <3>2. ApproveWrite(a) => RunningInv'
      BY DEF ApproveWrite
    <3>3. ApproveFails(a) => RunningInv'
      BY DEF ApproveFails
    <3> QED
      BY <2>13, <3>1, <3>2, <3>3 DEF AnswerStep
  <2>14. ASSUME NEW a \in Approvers, ApproveDecide(a) PROVE RunningInv'
    BY <2>14 DEF ApproveDecide, Resolves
  <2>15. Start => RunningInv'
    BY DEF Start
  <2>16. CleanupStep => RunningInv'
    BY DEF CleanupStep, CleanupList, CleanupWrite, CleanupDone, CleanupFails, IsHung
  <2>17. StopStep => RunningInv'
    BY DEF StopStep, stop, StopDrained, StopSettled
  <2>18. Exit => RunningInv'
    BY DEF Exit
  <2> QED
    BY <1>2, <2>1, <2>2, <2>3, <2>4, <2>5, <2>6, <2>7, <2>8, <2>9, <2>10, <2>11, <2>12, <2>13,
       <2>14, <2>15, <2>16, <2>17, <2>18, StepCases, Zenon
<1> QED
  BY <1>1, <1>2

(* A job recorded as running has a run once the cleanup of a restart is    *)
(* over, whatever else races with it (cleanupHungJobs, runJob, finishRun,  *)
(* approveJob) and whatever fails, but for the records that a failed store *)
(* call or an approval left behind since the start; the cleanup of the     *)
(* next start has those as well.                                           *)
THEOREM RunningRuns == Spec => []RunningHasRun
<1>1. Init => RunningInv
  BY DEF Init, RunningInv, Alive
<1>2. IInv /\ RunningInv /\ [Next]_vars => RunningInv'
  BY RunningStep DEF IInv
<1>3. RunningInv => RunningHasRun
  BY DEF RunningInv, RunningHasRun, Alive, Runs, ToBeFailed
<1> QED
  BY <1>1, <1>2, <1>3, Inductive, PTL DEF Spec
=============================================================================
