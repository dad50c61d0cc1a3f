--------------------------- MODULE JobLeaseProofs ---------------------------
(***************************************************************************)
(* Theorems about JobLease, for every set of workers and jobs, every lease *)
(* length and every attempt limit.                                         *)
(***************************************************************************)
EXTENDS JobLease, TLAPS

(* Every guarded write of JobRecord keeps a record a QueueJob.             *)
LEMMA RecordTypes ==
    ASSUME NEW r \in QueueJob
    PROVE  /\ Absent \in QueueJob /\ Enqueued \in QueueJob
           /\ \A w \in Workers, l \in Nat : Claimed(r, w, l) \in QueueJob
           /\ Started(r) \in QueueJob
           /\ Renewed(r) \in QueueJob
           /\ Checkpointed(r) \in QueueJob
           /\ \A verdict \in {"completed", "failed"} :
                  Reported(r, verdict) \in QueueJob
           /\ Swept(r) \in QueueJob
           /\ Recovered(r) \in QueueJob
           /\ Cancelled(r) \in QueueJob
           /\ Interrupted(r) \in QueueJob
           /\ Aged(r) \in QueueJob
<1> USE JobRecordAssumption DEF QueueJob, QueueJobStatus, NoLease
<1>1. Absent \in QueueJob /\ Enqueued \in QueueJob
  <2>1. Absent \in QueueJob
    BY SMTT(30) DEF Absent
  <2>2. Enqueued \in QueueJob
    BY <2>1, SMTT(30) DEF Enqueued
  <2> QED
    BY <2>1, <2>2
<1>2. ASSUME NEW w \in Workers, NEW l \in Nat
      PROVE  Claimed(r, w, l) \in QueueJob
  BY DEF Claimed
<1>3. Started(r) \in QueueJob /\ Checkpointed(r) \in QueueJob
  BY DEF Started, Checkpointed
<1>4. Renewed(r) \in QueueJob
  BY DEF Renewed
<1>5. ASSUME NEW verdict \in {"completed", "failed"}
      PROVE  Reported(r, verdict) \in QueueJob
  BY DEF Reported
<1>6. Swept(r) \in QueueJob /\ Recovered(r) \in QueueJob
  <2>1. Requeued(r) \in QueueJob
    BY DEF Requeued
  <2>2. [Requeued(r) EXCEPT !.attempt = @ + 1] \in QueueJob
    BY <2>1, SMTT(30)
  <2> QED
    BY <2>1, <2>2, SMTT(30) DEF Swept, Recovered
<1>7. Cancelled(r) \in QueueJob /\ Interrupted(r) \in QueueJob
  BY DEF Cancelled, Interrupted
<1>8. Aged(r) \in QueueJob
  BY DEF Aged
<1> QED
  BY <1>1, <1>2, <1>3, <1>4, <1>5, <1>6, <1>7, <1>8

-----------------------------------------------------------------------------
(* Writing the record of w's job keeps the store typed.                    *)
LEMMA SetRecordType ==
    ASSUME TypeOK, NEW w \in Workers, NEW r,
           Record(w) \in QueueJob => r \in QueueJob,
           SetRecord(w, r)
    PROVE  job' \in [Jobs -> QueueJob]
<1>1. CASE session[w].job \in Jobs
  BY <1>1 DEF TypeOK, SetRecord, Record
<1>2. CASE session[w].job \notin Jobs
  BY <1>2 DEF TypeOK, SetRecord
<1> QED
  BY <1>1, <1>2

(* The session updates the worker's calls make.                            *)
LEMMA SessionTypes ==
    ASSUME TypeOK, NEW w \in Workers
    PROVE  /\ Free \in Session
           /\ \A p \in Phases :
                  session[w].phase # "free" =>
                      [session EXCEPT ![w].phase = p] \in [Workers -> Session]
           /\ [session EXCEPT ![w] = Free] \in [Workers -> Session]
           /\ [session EXCEPT ![w].mutated = TRUE] \in [Workers -> Session]
           /\ [session EXCEPT ![w].aborted = TRUE] \in [Workers -> Session]
           /\ \A outcome \in Outcomes :
                  session[w].phase # "free" /\ AfterRun(w, outcome)
                      => session' \in [Workers -> Session]
           /\ session[w].phase # "free" /\ AfterUpload(w)
                  => session' \in [Workers -> Session]
<1> USE DEF TypeOK, Session
<1>1. Free \in Session
  BY DEF Free, Phases, Outcomes, NoJob, NoLease
<1>2. ASSUME NEW p \in Phases, session[w].phase # "free"
      PROVE  [session EXCEPT ![w].phase = p] \in [Workers -> Session]
  BY <1>2
<1>3. [session EXCEPT ![w] = Free] \in [Workers -> Session]
  BY <1>1
<1>4. /\ [session EXCEPT ![w].mutated = TRUE] \in [Workers -> Session]
      /\ [session EXCEPT ![w].aborted = TRUE] \in [Workers -> Session]
  OBVIOUS
<1>5. ASSUME NEW outcome \in Outcomes, session[w].phase # "free", AfterRun(w, outcome)
      PROVE  session' \in [Workers -> Session]
  <2> DEFINE ended == [session EXCEPT ![w].outcome = outcome]
             p == IF w \in Chatty THEN "uploading" ELSE "reporting"
  <2>1. ended \in [Workers -> Session] /\ ended[w].job \in Jobs /\ p \in Phases
    BY <1>5 DEF Phases
  <2>2. session' = [ended EXCEPT ![w].phase = p]
    BY <1>5 DEF AfterRun
  <2> HIDE DEF ended, p
  <2>3. [ended[w] EXCEPT !.phase = p] \in Session
    BY <2>1
  <2>4. session' = [ended EXCEPT ![w] = [ended[w] EXCEPT !.phase = p]]
    BY <2>1, <2>2
  <2> HIDE DEF Session
  <2> QED
    BY <2>1, <2>3, <2>4
<1>6. ASSUME session[w].phase # "free", AfterUpload(w)
      PROVE  session' \in [Workers -> Session]
  BY <1>6 DEF AfterUpload, Phases
<1> QED
  BY <1>1, <1>2, <1>3, <1>4, <1>5, <1>6

LEMMA TypeInit == Init => TypeOK
<1> SUFFICES ASSUME Init PROVE TypeOK
  OBVIOUS
<1> USE DEF Init
<1>1. job \in [Jobs -> QueueJob] /\ Absent \in QueueJob
  <2>1. Absent \in QueueJob
    BY JobRecordAssumption, SMTT(30) DEF Absent, QueueJob, QueueJobStatus, NoLease
  <2> QED
    BY <2>1
<1>2. poll \in [Workers -> Poll]
  BY DEF Poll, PollOff
<1>3. session \in [Workers -> Session]
  BY DEF Session, Free, Phases, Outcomes, NoLease
<1>4. upload \in [Workers -> Upload]
  BY <1>1 DEF Upload, UploadOff
<1>5. nextLease \in Nat \ {0} /\ beat \in [Workers -> Beat] /\ dirty \in [Jobs -> Nat]
      /\ acked \in [Jobs -> SUBSET {"completed", "failed"}] /\ strayed \subseteq Jobs
  BY DEF NoLease, Beat, BeatOff
<1> QED
  BY <1>1, <1>2, <1>3, <1>4, <1>5 DEF TypeOK

LEMMA TypeNext == TypeOK /\ [Next]_vars => TypeOK'
<1> SUFFICES ASSUME TypeOK, [Next]_vars PROVE TypeOK'
  OBVIOUS
<1> USE DEF serverVars, calls, history
<1>1. ASSUME NEW j \in Jobs, OperatorStep(j) PROVE TypeOK'
  <2>1. job[j] \in QueueJob
    BY DEF TypeOK
  <2>2. CASE Enqueue(j)
    BY <2>2, RecordTypes, <2>1 DEF Enqueue, TypeOK
  <2>3. CASE Cancel(j)
    BY <2>1, <2>3 DEF Cancel, TypeOK, Cancelled, QueueJob, QueueJobStatus
  <2>4. CASE Recover(j)
    <3>1. Recovered(job[j]) \in QueueJob
      BY <2>1, RecordTypes
    <3> QED
      BY <2>4, <3>1 DEF Recover, TypeOK, NoLease
  <2> QED
    BY <1>1, <2>2, <2>3, <2>4 DEF OperatorStep
<1>2. ASSUME NEW w \in Workers, WorkerStep(w) PROVE TypeOK'
  <2> DEFINE l == session[w].lease
             r == Record(w)
  <2>0. session[w].lease \in Nat /\ session[w].job \in Jobs \cup {NoJob}
    BY DEF TypeOK, Session
  <2>1. CASE BeginClaim(w)
    BY <2>1 DEF BeginClaim, TypeOK, Poll
  <2>2. CASE BeginPick(w)
    BY <2>2 DEF BeginPick, TypeOK, Poll
  <2>3. CASE EndClaim(w)
    BY <2>3 DEF EndClaim, TypeOK, Poll, PollOff
  <2>4. ASSUME NEW j \in Jobs,
               SweepJob(w, j) \/ SkipSweep(w, j) \/ ClaimJob(w, j) \/ ClaimMissed(w, j)
        PROVE  TypeOK'
    <3>1. /\ job[j] \in QueueJob /\ nextLease \in Nat
          /\ poll[w] \in Poll
          /\ [poll EXCEPT ![w].todo = @ \ {j}] \in [Workers -> Poll]
      BY DEF TypeOK, Poll
    <3>2. CASE SweepJob(w, j)
      <4>1. Swept(job[j]) \in QueueJob
        BY <3>1, RecordTypes
      <4> QED
        BY <3>1, <3>2, <4>1 DEF SweepJob, TypeOK
    <3>3. CASE SkipSweep(w, j) \/ ClaimMissed(w, j)
      BY <3>1, <3>3 DEF SkipSweep, ClaimMissed, TypeOK
    <3>4. CASE ClaimJob(w, j)
      <4>1. Claimed(job[j], w, nextLease) \in QueueJob
        BY <3>1, RecordTypes
      <4>2. job' \in [Jobs -> QueueJob] /\ nextLease' \in Nat \ {0}
        BY <3>4, <4>1 DEF ClaimJob, TypeOK
      <4>3. poll' \in [Workers -> Poll]
        BY <3>4 DEF ClaimJob, TypeOK, Poll, PollOff
      <4>4. session' \in [Workers -> Session]
        <5>1. [Free EXCEPT !.phase = "claimed", !.job = j, !.lease = nextLease] \in Session
          BY <3>1 DEF Free, Session, Phases, Outcomes
        <5> QED
          BY <3>4, <5>1 DEF ClaimJob, TypeOK
      <4> QED
        BY <3>4, <4>2, <4>3, <4>4 DEF ClaimJob, TypeOK
    <3> QED
      BY <2>4, <3>2, <3>3, <3>4
  <2>5. CASE Start(w)
    <3>1. session' \in [Workers -> Session]
      BY <2>5, SessionTypes DEF Start, Phases
    <3>2. job' \in [Jobs -> QueueJob]
      <4>1. CASE SetRecord(w, Started(r))
        <5>1. r \in QueueJob => Started(r) \in QueueJob
          BY RecordTypes, <2>0
        <5> QED
          BY <4>1, <5>1, SetRecordType
      <4>2. CASE UNCHANGED job
        BY <4>2 DEF TypeOK
      <4> QED
        BY <2>5, <4>1, <4>2 DEF Start
    <3> QED
      BY <2>5, <3>1, <3>2 DEF Start, TypeOK
  <2>6. CASE BeginBeat(w)
    <3>1. r \in QueueJob => Started(r) \in QueueJob
      BY RecordTypes, <2>0
    <3>2. job' \in [Jobs -> QueueJob]
      BY <2>6, <3>1, SetRecordType DEF BeginBeat
    <3>3. beat' \in [Workers -> Beat]
      BY <2>0, <2>6 DEF BeginBeat, TypeOK, Beat
    <3> QED
      BY <2>6, <3>2, <3>3 DEF BeginBeat, TypeOK
  <2>18. CASE Renew(w)
    <3>1. beat[w].job \in Jobs
      BY <2>18 DEF Renew
    <3>2. Renewed(job[beat[w].job]) \in QueueJob
      BY <3>1, RecordTypes DEF TypeOK
    <3>3. beat' \in [Workers -> Beat]
      BY <2>18 DEF Renew, TypeOK, Beat, BeatOff, NoLease
    <3> QED
      BY <2>18, <3>2, <3>3 DEF Renew, TypeOK
  <2>7. CASE Abort(w)
    BY <2>7, SessionTypes DEF Abort, TypeOK
  <2>8. CASE Checkpoint(w)
    <3>1. r \in QueueJob => Checkpointed(r) \in QueueJob
      BY RecordTypes, <2>0
    <3>2. job' \in [Jobs -> QueueJob]
      BY <2>8, <3>1, SetRecordType DEF Checkpoint
    <3>3. session' \in [Workers -> Session]
      BY <2>8, SessionTypes DEF Checkpoint, Outcomes
    <3>4. dirty' \in [Jobs -> Nat]
      BY <2>0, <2>8 DEF Checkpoint, TypeOK
    <3> QED
      BY <2>8, <3>2, <3>3, <3>4 DEF Checkpoint, TypeOK
  <2>9. ASSUME NEW outcome \in Outcomes, Finish(w, outcome) PROVE TypeOK'
    BY <2>9, SessionTypes DEF Finish, TypeOK
  <2>10. CASE ReadForLogs(w)
    <3>1. [on |-> TRUE, job |-> session[w].job, record |-> Record(w)] \in Upload
      <4>1. session[w].job \in Jobs
        BY <2>10 DEF ReadForLogs, TypeOK, Session
      <4> QED
        BY <4>1 DEF TypeOK, Upload, Record
    <3> QED
      BY <2>10, <3>1 DEF ReadForLogs, TypeOK
  <2>11. CASE WriteLogs(w)
    <3>1. job' \in [Jobs -> QueueJob] /\ upload' \in [Workers -> Upload]
      <4>1. Absent \in QueueJob
        BY RecordTypes DEF TypeOK, Upload
      <4> QED
        BY <2>11, <4>1 DEF WriteLogs, TypeOK, Upload, UploadOff
    <3>2. session' \in [Workers -> Session]
      BY <2>11, SessionTypes DEF WriteLogs, TypeOK
    <3>3. strayed' \subseteq Jobs
      BY <2>11 DEF WriteLogs, TypeOK, Upload
    <3> QED
      BY <2>11, <3>1, <3>2, <3>3 DEF WriteLogs, TypeOK
  <2>12. CASE UploadFailed(w)
    BY <2>12, SessionTypes DEF UploadFailed, TypeOK
  <2>13. ASSUME NEW verdict \in {"completed", "failed"},
                ServeReport(w, verdict) \/ UNCHANGED job
         PROVE  job' \in [Jobs -> QueueJob]
    <3>1. r \in QueueJob => Reported(r, verdict) \in QueueJob
      BY RecordTypes, <2>0
    <3> QED
      BY <2>13, <3>1, SetRecordType DEF ServeReport, TypeOK
  <2>14. ASSUME NEW verdict \in {"completed", "failed"},
                Acknowledge(session[w].job, verdict) \/ UNCHANGED acked
         PROVE  acked' \in [Jobs -> SUBSET {"completed", "failed"}]
    BY <2>14 DEF Acknowledge, TypeOK
  <2>15. CASE Complete(w)
    <3>1. session' \in [Workers -> Session]
      BY <2>15, SessionTypes DEF Complete, Outcomes
    <3> QED
      BY <2>13, <2>14, <2>15, <3>1 DEF Complete, TypeOK
  <2>16. CASE Fail(w)
    <3>1. session' \in [Workers -> Session]
      BY <2>16, SessionTypes DEF Fail, Outcomes
    <3> QED
      BY <2>13, <2>14, <2>16, <3>1 DEF Fail, TypeOK
  <2>17. CASE Abandon(w) \/ WorkerCrash(w)
    BY <2>17, SessionTypes DEF Abandon, WorkerCrash, TypeOK
  <2> QED
    BY <1>2, <2>1, <2>2, <2>3, <2>4, <2>5, <2>6, <2>7, <2>8, <2>9, <2>10,
       <2>11, <2>12, <2>15, <2>16, <2>17, <2>18 DEF WorkerStep
<1>3. CASE ServerRestart
  <2>1. UploadOff \in Upload /\ PollOff \in Poll /\ BeatOff \in Beat
    <3>1. Absent \in QueueJob
      BY JobRecordAssumption, SMTT(30) DEF Absent, QueueJob, QueueJobStatus, NoLease
    <3> QED
      BY <3>1 DEF UploadOff, PollOff, BeatOff, Upload, Poll, Beat, NoLease
  <2>2. ASSUME NEW j \in Jobs
        PROVE (IF IsHung(job[j]) THEN Interrupted(job[j]) ELSE job[j]) \in QueueJob
    BY DEF TypeOK, Interrupted, QueueJob, QueueJobStatus
  <2> QED
    BY <1>3, <2>1, <2>2 DEF ServerRestart, TypeOK
<1>4. CASE Tick
  <2>1. ASSUME NEW r \in QueueJob PROVE Aged(r) \in QueueJob
    BY <2>1, JobRecordAssumption DEF Aged, QueueJob
  <2>2. job' \in [Jobs -> QueueJob]
    BY <1>4, <2>1 DEF Tick, TypeOK
  <2>3. upload' \in [Workers -> Upload]
    <3>1. ASSUME NEW u \in Upload PROVE [u EXCEPT !.record = Aged(@)] \in Upload
      BY <2>1 DEF Upload
    <3> QED
      BY <1>4, <3>1 DEF Tick, TypeOK
  <2> QED
    BY <1>4, <2>2, <2>3 DEF Tick, TypeOK
<1>5. CASE UNCHANGED vars
  BY <1>5 DEF vars, TypeOK
<1> QED
  BY <1>1, <1>2, <1>3, <1>4, <1>5 DEF Next

(* Every reachable state is well typed: whatever workers, operators and    *)
(* restarts do, records, requests and sessions keep their shape.           *)
THEOREM TypeCorrect == Spec => []TypeOK
<1>1. Init => TypeOK
  BY TypeInit
<1>2. TypeOK /\ [Next]_vars => TypeOK'
  BY TypeNext
<1> QED
  BY <1>1, <1>2, PTL DEF Spec

-----------------------------------------------------------------------------
(* What a step does to one job: its record is left alone or takes one of   *)
(* the guarded writes of JobRecord, and the history variables move with it *)
(* in the one case that concerns them.  Only a log upload can write a      *)
(* record the guards know nothing of; unless it has the status, the lease  *)
(* and the mark the stored one has, the job strays.                        *)
SameHistory(j) == dirty'[j] = dirty[j] /\ acked'[j] = acked[j]
OnTrack(j) == j \in strayed' <=> j \in strayed

GuardedWrite(j) ==
    \/ job'[j] = job[j]
    \/ job'[j] = Aged(job[j])
    \/ job[j].status = "absent" /\ job'[j] = Enqueued
    \/ CanCancel(job[j]) /\ job'[j] = Cancelled(job[j])
    \/ IsStale(job[j]) /\ job'[j] = Swept(job[j])
    \/ IsHung(job[j]) /\ job'[j] = Interrupted(job[j])
    \/ /\ CanClaim(job[j])
       /\ \E w \in Workers : job'[j] = Claimed(job[j], w, nextLease)
    \/ \E w \in Workers, l \in Nat :
           CanStart(job[j], w, l) /\ job'[j] = Started(job[j])
    \/ \E l \in Nat : CanRenew(job[j], l) /\ job'[j] = Renewed(job[j])

Checkpointing(j) ==
    \E l \in Nat :
        /\ CanCheckpoint(job[j], l) /\ job'[j] = Checkpointed(job[j])
        /\ dirty'[j] \in {dirty[j], l} /\ acked'[j] = acked[j]

Recovering(j) ==
    /\ CanRecover(job[j]) /\ job'[j] = Recovered(job[j])
    /\ dirty'[j] = NoLease /\ acked'[j] = acked[j]

Reporting(j) ==
    \E l \in Nat, verdict \in {"completed", "failed"} :
        /\ \/ CanReport(job[j], l) /\ job'[j] = Reported(job[j], verdict)
           \/ AlreadyReported(job[j], l, verdict) /\ job'[j] = job[j]
        /\ acked'[j] \in {acked[j], acked[j] \cup {verdict}}
        /\ dirty'[j] = dirty[j]

Overwriting(j) ==
    /\ \E w \in Workers :
           /\ WriteLogs(w) /\ upload[w].on /\ upload[w].job = j
           /\ job'[j] = upload[w].record
    /\ SameHistory(j)
    /\ j \in strayed' <=> j \in strayed \/ ~SameState(job'[j], job[j])

JobStep(j) ==
    \/ /\ OnTrack(j)
       /\ \/ GuardedWrite(j) /\ SameHistory(j)
          \/ Checkpointing(j) \/ Recovering(j) \/ Reporting(j)
    \/ Overwriting(j)

(* A step that leaves the three variables a job lives in alone.            *)
LEMMA Untouched ==
    ASSUME job' = job, dirty' = dirty, acked' = acked, strayed' = strayed, NEW j \in Jobs
    PROVE  JobStep(j)
BY DEF JobStep, GuardedWrite, SameHistory, OnTrack

(* A worker's call for its job is a step of that job only.                 *)
LEMMA OneJobStep ==
    ASSUME TypeOK, NEW k \in Jobs, NEW r, NEW d, NEW a, NEW j \in Jobs,
           job' = [job EXCEPT ![k] = r],
           dirty' \in {dirty, [dirty EXCEPT ![k] = d]},
           acked' \in {acked, [acked EXCEPT ![k] = a]},
           strayed' = strayed,
           j = k => JobStep(j)
    PROVE  JobStep(j)
<1>1. CASE j = k
  BY <1>1
<1>2. CASE j # k
  BY <1>2 DEF TypeOK, JobStep, GuardedWrite, SameHistory, OnTrack
<1> QED
  BY <1>1, <1>2

LEMMA ReportSteps ==
    ASSUME TypeOK, NEW w \in Workers, NEW j \in Jobs,
           NEW verdict \in {"completed", "failed"},
           session[w].phase # "free",
           ServeReport(w, verdict) \/ UNCHANGED job,
           UNCHANGED dirty, UNCHANGED strayed,
           \/ UNCHANGED acked
           \/ /\ ServeReport(w, verdict) /\ Answered(w, verdict)
              /\ Acknowledge(session[w].job, verdict)
    PROVE  JobStep(j)
<1> DEFINE k == session[w].job
           l == session[w].lease
<1>1. k \in Jobs /\ l \in Nat /\ job[k] = Record(w)
  BY DEF TypeOK, Session, Record
<1>2. acked'[j] \in {acked[j], acked[j] \cup {verdict}} /\ dirty'[j] = dirty[j]
      /\ (j # k => acked'[j] = acked[j])
  BY <1>1 DEF Acknowledge, TypeOK
<1>3. CASE j # k
  <2>1. job'[j] = job[j]
    BY <1>1, <1>3 DEF ServeReport, SetRecord, TypeOK
  <2> QED
    BY <1>2, <1>3, <2>1 DEF JobStep, OnTrack, GuardedWrite, SameHistory
<1>4. CASE j = k
  <2>1. CASE CanReport(job[k], l) /\ ServeReport(w, verdict)
    <3>1. job'[j] = Reported(job[j], verdict)
      BY <1>1, <1>4, <2>1 DEF ServeReport, SetRecord, TypeOK
    <3> QED
      BY <1>1, <1>2, <1>4, <2>1, <3>1 DEF JobStep, OnTrack, Reporting
  <2>2. CASE UNCHANGED acked /\ UNCHANGED job
    BY <2>2, Untouched
  <2>3. CASE ~CanReport(job[k], l) /\ ServeReport(w, verdict)
    <3>1. UNCHANGED job
      BY <1>1, <2>3 DEF ServeReport
    <3>2. CASE UNCHANGED acked
      BY <3>1, <3>2, Untouched
    <3>3. CASE Answered(w, verdict)
      <4>1. AlreadyReported(job[j], l, verdict) /\ job'[j] = job[j]
        BY <1>1, <1>4, <2>3, <3>1, <3>3 DEF Answered
      <4> QED
        BY <1>1, <1>2, <4>1 DEF JobStep, OnTrack, Reporting
    <3> QED
      BY <3>2, <3>3
  <2> QED
    BY <2>1, <2>2, <2>3
<1> QED
  BY <1>3, <1>4

(* Every step of the system is a JobStep of every job.                     *)
LEMMA JobSteps ==
    ASSUME TypeOK, [Next]_vars, NEW j \in Jobs
    PROVE  JobStep(j)
<1> USE DEF serverVars, calls, history
<1>1. ASSUME NEW k \in Jobs, OperatorStep(k) PROVE JobStep(j)
  <2>1. CASE Enqueue(k)
    BY <2>1, OneJobStep DEF Enqueue, TypeOK, JobStep, OnTrack, GuardedWrite, SameHistory
  <2>2. CASE Cancel(k)
    BY <2>2, OneJobStep DEF Cancel, TypeOK, JobStep, OnTrack, GuardedWrite, SameHistory
  <2>3. CASE Recover(k)
    BY <2>3, OneJobStep DEF Recover, TypeOK, JobStep, OnTrack, Recovering
  <2> QED
    BY <1>1, <2>1, <2>2, <2>3 DEF OperatorStep
<1>2. ASSUME NEW w \in Workers, WorkerStep(w) PROVE JobStep(j)
  <2> DEFINE k == session[w].job
             l == session[w].lease
  <2>0. l \in Nat /\ (session[w].phase # "free" => k \in Jobs) /\ job[k] = Record(w)
    BY DEF TypeOK, Session, Record
  <2>1. CASE \/ BeginClaim(w) \/ BeginPick(w) \/ EndClaim(w) \/ Abort(w)
             \/ (\E outcome \in Outcomes : Finish(w, outcome))
             \/ ReadForLogs(w) \/ UploadFailed(w) \/ Abandon(w) \/ WorkerCrash(w)
    BY <2>1, Untouched DEF BeginClaim, BeginPick, EndClaim, Abort, Finish,
       ReadForLogs, UploadFailed, Abandon, WorkerCrash
  <2>2. ASSUME NEW i \in Jobs,
               SweepJob(w, i) \/ SkipSweep(w, i) \/ ClaimJob(w, i) \/ ClaimMissed(w, i)
        PROVE  JobStep(j)
    <3>1. CASE SweepJob(w, i)
      BY <3>1, OneJobStep DEF SweepJob, TypeOK, JobStep, OnTrack, GuardedWrite, SameHistory
    <3>2. CASE ClaimJob(w, i)
      BY <3>2, OneJobStep DEF ClaimJob, TypeOK, JobStep, OnTrack, GuardedWrite, SameHistory
    <3>3. CASE SkipSweep(w, i) \/ ClaimMissed(w, i)
      BY <3>3, Untouched DEF SkipSweep, ClaimMissed
    <3> QED
      BY <2>2, <3>1, <3>2, <3>3
  <2>3. CASE Start(w)
    <3>1. CASE UNCHANGED job
      BY <2>3, <3>1, Untouched DEF Start
    <3>2. CASE CanStart(Record(w), w, l) /\ SetRecord(w, Started(Record(w)))
      <4>1. k \in Jobs
        BY <2>0, <2>3 DEF Start
      <4> QED
        BY <2>0, <2>3, <3>2, <4>1, OneJobStep
        DEF Start, SetRecord, TypeOK, JobStep, OnTrack, GuardedWrite, SameHistory
    <3> QED
      BY <2>3, <3>1, <3>2 DEF Start
  <2>4. CASE BeginBeat(w)
    <3>1. k \in Jobs
      BY <2>0, <2>4 DEF BeginBeat, Active
    <3> QED
      BY <2>0, <2>4, <3>1, OneJobStep
      DEF BeginBeat, SetRecord, TypeOK, JobStep, OnTrack, GuardedWrite, SameHistory
  <2>9. CASE Renew(w)
    <3>1. beat[w].job \in Jobs /\ beat[w].lease \in Nat
      BY <2>9 DEF Renew, TypeOK, Beat
    <3>2. CASE UNCHANGED job
      BY <2>9, <3>2, Untouched DEF Renew
    <3>3. CASE /\ CanRenew(job[beat[w].job], beat[w].lease)
               /\ job' = [job EXCEPT ![beat[w].job] = Renewed(@)]
      BY <2>9, <3>1, <3>3, OneJobStep DEF Renew, TypeOK, JobStep, OnTrack, GuardedWrite, SameHistory
    <3> QED
      BY <2>9, <3>2, <3>3 DEF Renew
  <2>5. CASE Checkpoint(w)
    <3>1. k \in Jobs
      BY <2>0, <2>5 DEF Checkpoint
    <3>2. j = k => Checkpointing(j)
      BY <2>0, <2>5, <3>1 DEF Checkpoint, SetRecord, TypeOK, Checkpointing
    <3> QED
      BY <2>0, <2>5, <3>1, <3>2, OneJobStep DEF Checkpoint, SetRecord, JobStep, OnTrack
  <2>6. CASE WriteLogs(w)
    <3>1. /\ upload[w].on /\ SameHistory(j)
          /\ \/ upload[w].job # j /\ job'[j] = job[j] /\ OnTrack(j)
             \/ /\ upload[w].job = j /\ job'[j] = upload[w].record
                /\ j \in strayed' <=> j \in strayed \/ ~SameState(job'[j], job[j])
      BY <2>6 DEF WriteLogs, TypeOK, SameHistory, OnTrack
    <3> QED
      BY <2>6, <3>1 DEF JobStep, GuardedWrite, Overwriting
  <2>7. CASE Complete(w)
    BY <2>7, ReportSteps DEF Complete
  <2>8. CASE Fail(w)
    BY <2>8, ReportSteps DEF Fail
  <2> QED
    BY <1>2, <2>1, <2>2, <2>3, <2>4, <2>5, <2>6, <2>7, <2>8, <2>9 DEF WorkerStep
<1>3. CASE ServerRestart
  BY <1>3 DEF ServerRestart, JobStep, OnTrack, GuardedWrite, SameHistory
<1>4. CASE Tick
  BY <1>4 DEF Tick, JobStep, OnTrack, GuardedWrite, SameHistory
<1>5. CASE UNCHANGED vars
  BY <1>5, Untouched DEF vars
<1> QED
  BY <1>1, <1>2, <1>3, <1>4, <1>5 DEF Next

-----------------------------------------------------------------------------
(* The shape of a record, as LeaseShape says it and a little more: no job  *)
(* waits for approval under external workers.                              *)
Leased(r) ==
    /\ r.status \notin {"waiting_for_approval", "cancel_requested"}
    /\ r.status \in {"absent", "queued"} =>
           ~HasLease(r) /\ r.holder = NoWorker /\ ~r.mutated
    /\ r.status \in {"assigned", "running", "stalled"} =>
           HasLease(r) /\ r.holder \in Workers
    /\ r.status = "stalled" => r.mutated

LEMMA LeasedStep ==
    ASSUME TypeOK, NEW j \in Jobs, Leased(job[j]), JobStep(j), ~Overwriting(j)
    PROVE  Leased(job'[j])
<1> USE DEF NoLease, Leased, Finished, FINISHED_STATUSES, HasLease, Holds
<1>0. job[j] \in QueueJob /\ nextLease # NoLease
  BY DEF TypeOK
<1>1. CASE GuardedWrite(j)
  <2> USE <1>0 DEF QueueJob
  <2>1. CASE job'[j] = job[j]
    BY <2>1
  <2>2. CASE job'[j] = Aged(job[j])
    BY <2>2 DEF Aged
  <2>3. CASE job[j].status = "absent" /\ job'[j] = Enqueued
    BY <2>3 DEF Enqueued, Absent
  <2>4. CASE CanCancel(job[j]) /\ job'[j] = Cancelled(job[j])
    BY <2>4 DEF CanCancel, Cancelled
  <2>5. CASE IsStale(job[j]) /\ job'[j] = Swept(job[j])
    BY <2>5 DEF IsStale, Swept, Requeued
  <2>6. CASE IsHung(job[j]) /\ job'[j] = Interrupted(job[j])
    BY <2>6 DEF IsHung, Interrupted
  <2>7. ASSUME NEW w \in Workers, CanClaim(job[j]),
               job'[j] = Claimed(job[j], w, nextLease)
        PROVE  Leased(job'[j])
    BY <2>7 DEF CanClaim, Claimed
  <2>8. ASSUME NEW w \in Workers, NEW l \in Nat, CanStart(job[j], w, l),
               job'[j] = Started(job[j])
        PROVE  Leased(job'[j])
    BY <2>8 DEF CanStart, Started
  <2>9. ASSUME NEW l \in Nat, CanRenew(job[j], l), job'[j] = Renewed(job[j])
        PROVE  Leased(job'[j])
    BY <2>9 DEF CanRenew, Renewed
  <2> QED
    BY <1>1, <2>1, <2>2, <2>3, <2>4, <2>5, <2>6, <2>7, <2>8, <2>9 DEF GuardedWrite
<1>2. CASE Checkpointing(j)
  BY <1>0, <1>2 DEF Checkpointing, CanCheckpoint, Checkpointed, QueueJob, QueueJobStatus
<1>3. CASE Recovering(j)
  BY <1>0, <1>3 DEF Recovering, CanRecover, Recovered, Requeued, QueueJob
<1>4. CASE Reporting(j)
  BY <1>0, <1>4 DEF Reporting, CanReport, AlreadyReported, Reported, QueueJob
<1> QED
  BY <1>1, <1>2, <1>3, <1>4 DEF JobStep

(* A log upload in flight holds a record of that shape too.                *)
LeasedInv ==
    /\ TypeOK
    /\ \A j \in Jobs : Leased(job[j])
    /\ \A w \in Workers : upload[w].on =>
           /\ Leased(upload[w].record) /\ HasLease(upload[w].record)
           /\ job[upload[w].job].status # "absent"

(* A record stays in the store: no write makes a job absent.               *)
LEMMA NeverAbsent ==
    ASSUME LeasedInv, NEW j \in Jobs, JobStep(j), job[j].status # "absent"
    PROVE  job'[j].status # "absent"
<1> job[j] \in QueueJob
  BY DEF LeasedInv, TypeOK
<1> USE DEF QueueJob
<1>1. CASE GuardedWrite(j)
  <2>1. CASE IsStale(job[j]) /\ job'[j] = Swept(job[j])
    BY <2>1 DEF Swept, Requeued
  <2>2. CASE job'[j] \in {job[j], Aged(job[j])}
    BY <2>2 DEF Aged
  <2>3. CASE job'[j] \in {Cancelled(job[j]), Interrupted(job[j]), Started(job[j])}
    BY <2>3 DEF Cancelled, Interrupted, Started
  <2>4. CASE job'[j] = Renewed(job[j])
    BY <2>4 DEF Renewed
  <2>5. ASSUME NEW w \in Workers, job'[j] = Claimed(job[j], w, nextLease)
        PROVE  job'[j].status # "absent"
    BY <2>5 DEF Claimed
  <2> QED
    BY <1>1, <2>1, <2>2, <2>3, <2>4, <2>5 DEF GuardedWrite
<1>2. CASE Checkpointing(j) \/ Recovering(j) \/ Reporting(j)
  BY <1>2 DEF Checkpointing, Checkpointed, Recovering, Recovered, Requeued, Reporting, Reported
<1>3. CASE Overwriting(j)
  BY <1>3 DEF Overwriting, LeasedInv, Leased
<1> QED
  BY <1>1, <1>2, <1>3 DEF JobStep

LEMMA LeasedUpload ==
    ASSUME LeasedInv, [Next]_vars, NEW v \in Workers, upload'[v].on
    PROVE  /\ Leased(upload'[v].record) /\ HasLease(upload'[v].record)
           /\ job[upload'[v].job].status # "absent"
<1> USE DEF serverVars, calls, history
<1>0. upload[v].on => /\ Leased(upload[v].record) /\ HasLease(upload[v].record)
                      /\ job[upload[v].job].status # "absent"
  BY DEF LeasedInv
<1>1. CASE upload' = upload
  BY <1>0, <1>1
<1>2. ASSUME NEW w \in Workers, ReadForLogs(w)
      PROVE  /\ Leased(upload'[v].record) /\ HasLease(upload'[v].record)
             /\ job[upload'[v].job].status # "absent"
  <2>1. session[w].job \in Jobs
    BY <1>2 DEF ReadForLogs, LeasedInv, TypeOK, Session
  <2>2. Leased(Record(w)) /\ HasLease(Record(w)) /\ job[session[w].job].status # "absent"
    BY <1>2, <2>1 DEF ReadForLogs, LeasedInv, Record, Holds, Leased
  <2> QED
    BY <1>0, <1>2, <2>2 DEF ReadForLogs, LeasedInv, TypeOK
<1>3. ASSUME NEW w \in Workers, WriteLogs(w)
      PROVE  /\ Leased(upload'[v].record) /\ HasLease(upload'[v].record)
             /\ job[upload'[v].job].status # "absent"
  BY <1>0, <1>3 DEF WriteLogs, LeasedInv, TypeOK, UploadOff
<1>4. CASE ServerRestart
  BY <1>4 DEF ServerRestart, UploadOff
<1>5. CASE Tick
  <2>1. upload[v].on /\ upload'[v].record = Aged(upload[v].record)
        /\ upload[v].record \in QueueJob
        /\ upload'[v].job = upload[v].job
    BY <1>5 DEF Tick, LeasedInv, TypeOK, Upload
  <2> QED
    BY <1>0, <2>1 DEF Aged, Leased, HasLease, QueueJob
<1>6. ASSUME NEW k \in Jobs, OperatorStep(k) PROVE upload' = upload
  BY <1>6 DEF OperatorStep, Enqueue, Cancel, Recover
<1>7. ASSUME NEW w \in Workers, WorkerStep(w), ~ReadForLogs(w), ~WriteLogs(w)
      PROVE  upload' = upload
  BY <1>7 DEF WorkerStep, BeginClaim, BeginPick, EndClaim, SweepJob, SkipSweep,
     ClaimJob, ClaimMissed, Start, BeginBeat, Renew, Abort, Checkpoint, Finish,
     UploadFailed, Complete, Fail, Abandon, WorkerCrash
<1>8. CASE UNCHANGED vars
  BY <1>1, <1>8 DEF vars
<1> QED
  BY <1>1, <1>2, <1>3, <1>4, <1>5, <1>6, <1>7, <1>8 DEF Next

LEMMA LeasedInit == Init => LeasedInv
BY TypeInit DEF Init, LeasedInv, Leased, Absent, HasLease, UploadOff

LEMMA LeasedNext == LeasedInv /\ [Next]_vars => LeasedInv'
<1> SUFFICES ASSUME LeasedInv, [Next]_vars PROVE LeasedInv'
  OBVIOUS
<1>1. TypeOK'
  BY TypeNext DEF LeasedInv
<1>2. ASSUME NEW j \in Jobs PROVE Leased(job'[j])
  <2>1. CASE Overwriting(j)
    BY <2>1 DEF LeasedInv, Overwriting
  <2> QED
    BY <2>1, JobSteps, LeasedStep DEF LeasedInv
<1>3. ASSUME NEW v \in Workers, upload'[v].on
      PROVE  job'[upload'[v].job].status # "absent"
  <2>1. upload'[v].job \in Jobs
    BY <1>1, <1>3 DEF TypeOK, Upload
  <2> QED
    BY <1>3, <2>1, LeasedUpload, NeverAbsent, JobSteps DEF LeasedInv
<1> QED
  BY <1>1, <1>2, <1>3, LeasedUpload DEF LeasedInv

(* A lease is on a record exactly while a worker may be at the job, also   *)
(* where log uploads write stale records back.                             *)
THEOREM Leasing == Spec => []LeaseShape
<1>1. LeasedInv => LeaseShape
  BY DEF LeasedInv, Leased, LeaseShape
<1> QED
  BY <1>1, LeasedInit, LeasedNext, PTL DEF Spec

-----------------------------------------------------------------------------
(* The inductive invariant of one job that has not strayed.  None of its   *)
(* parts is inductive alone: that a dirty job is not requeued rests on its *)
(* mark, that its mark stays rests on its lease, and that its lease stays  *)
(* rests on its status.                                                    *)
Fenced(j) ==
    dirty[j] # NoLease =>
        /\ job[j].lease = dirty[j]
        /\ job[j].mutated
        /\ job[j].status \in {"assigned", "running", "stalled"} \cup FINISHED_STATUSES

Settled(j) == acked[j] # {} => job[j].status \in {"completed", "failed"}

JobInv(j) == j \notin strayed => Fenced(j) /\ Settled(j)

LEMMA JobInvStep ==
    ASSUME LeasedInv, NEW j \in Jobs, JobInv(j), JobStep(j)
    PROVE  JobInv(j)'
<1> USE DEF NoLease, JobInv, Fenced, Settled, Leased, Finished,
            FINISHED_STATUSES, HasLease, Holds
<1>0. job[j] \in QueueJob /\ Leased(job[j])
  BY DEF LeasedInv, TypeOK
<1> SUFFICES ASSUME j \notin strayed' PROVE (Fenced(j) /\ Settled(j))'
  OBVIOUS
<1>6. j \notin strayed
  BY DEF JobStep, OnTrack, Overwriting
<1> USE <1>6
<1>1. CASE GuardedWrite(j) /\ SameHistory(j)
  <2> USE <1>0, <1>1 DEF SameHistory, QueueJob
  <2>1. CASE job'[j] \in {job[j], Aged(job[j])}
    BY <2>1 DEF Aged
  <2>2. CASE job[j].status = "absent" \/ CanClaim(job[j])
    BY <2>2 DEF CanClaim
  <2>3. CASE CanCancel(job[j]) /\ job'[j] = Cancelled(job[j])
    BY <2>3 DEF CanCancel, Cancelled
  <2>4. CASE IsStale(job[j]) /\ job'[j] = Swept(job[j])
    BY <2>4 DEF IsStale, Swept, Requeued
  <2>5. CASE IsHung(job[j]) /\ job'[j] = Interrupted(job[j])
    BY <2>5 DEF IsHung, Interrupted
  <2>6. ASSUME NEW w \in Workers, NEW l \in Nat, CanStart(job[j], w, l),
               job'[j] = Started(job[j])
        PROVE  (Fenced(j) /\ Settled(j))'
    BY <2>6 DEF CanStart, Started
  <2>7. ASSUME NEW l \in Nat, CanRenew(job[j], l), job'[j] = Renewed(job[j])
        PROVE  (Fenced(j) /\ Settled(j))'
    BY <2>7 DEF CanRenew, Renewed
  <2> QED
    BY <2>1, <2>2, <2>3, <2>4, <2>5, <2>6, <2>7 DEF GuardedWrite
<1>2. CASE Checkpointing(j)
  BY <1>0, <1>2 DEF Checkpointing, CanCheckpoint, Checkpointed, QueueJob, QueueJobStatus
<1>3. CASE Recovering(j)
  BY <1>0, <1>3 DEF Recovering, CanRecover, Recovered, Requeued, QueueJob
<1>4. CASE Reporting(j)
  BY <1>0, <1>4 DEF Reporting, CanReport, AlreadyReported, Reported, QueueJob
<1>5. CASE Overwriting(j)
  BY <1>5 DEF Overwriting, SameState, SameHistory
<1> QED
  BY <1>1, <1>2, <1>3, <1>4, <1>5 DEF JobStep

IInv == LeasedInv /\ \A j \in Jobs : JobInv(j)

LEMMA IInvInit == Init => IInv
<1>1. ASSUME NEW j \in Jobs, Init PROVE JobInv(j)
  BY <1>1 DEF Init, JobInv, Fenced, Settled, Absent
<1> QED
  BY <1>1, LeasedInit DEF IInv

LEMMA IInvNext == IInv /\ [Next]_vars => IInv'
<1> SUFFICES ASSUME IInv, [Next]_vars PROVE IInv'
  OBVIOUS
<1>1. LeasedInv'
  BY LeasedNext DEF IInv
<1>2. ASSUME NEW j \in Jobs PROVE JobInv(j)'
  BY JobSteps, JobInvStep DEF IInv, LeasedInv
<1> QED
  BY <1>1, <1>2 DEF IInv

(* A worker's changes stay fenced by its lease: no sweep, crash, lost      *)
(* answer or late call of saveCheckpoint, detectStaleLeases or claimJob    *)
(* hands the job on.  Log uploads go on all the while; only the job whose  *)
(* older record one of them has put back is not covered.                   *)
THEOREM Fencing == Spec => []MutatedWorkIsFenced
<1>1. IInv => MutatedWorkIsFenced
  BY DEF IInv, JobInv, Fenced, MutatedWorkIsFenced
<1> QED
  BY <1>1, IInvInit, IInvNext, PTL DEF Spec

(* With the same exception a job whose report was answered ok by           *)
(* completeJob or failJob is finished, and stays so.                       *)
THEOREM Acknowledgement == Spec => []AckedIsFinished
<1>1. IInv => AckedIsFinished
  BY DEF IInv, JobInv, Settled, AckedIsFinished
<1> QED
  BY <1>1, IInvInit, IInvNext, PTL DEF Spec

(* No guarded write moves a finished job.                                  *)
LEMMA FinishedStep ==
    ASSUME TypeOK, NEW j \in Jobs, JobStep(j), ~Overwriting(j), Finished(job[j])
    PROVE  job'[j].status = job[j].status
<1> job[j] \in QueueJob
  BY DEF TypeOK
<1> USE DEF QueueJob, Finished, FINISHED_STATUSES
<1>1. CASE GuardedWrite(j)
  BY <1>1 DEF GuardedWrite, Aged, CanCancel, IsStale, IsHung, CanClaim,
     CanStart, Started, CanRenew
<1>2. CASE Checkpointing(j) \/ Recovering(j) \/ Reporting(j)
  BY <1>2 DEF Checkpointing, CanCheckpoint, Recovering, CanRecover, Reporting, CanReport
<1> QED
  BY <1>1, <1>2 DEF JobStep

(* Only a log upload can take a job out of a finished status.              *)
THEOREM OnlyLogs == Spec => OnlyLogsReopen
<1>1. TypeOK /\ [Next]_vars => TypeOK'
  BY TypeNext
<1>2. ASSUME TypeOK, [Next]_vars
      PROVE  [\/ \A j \in Jobs : Finished(job[j]) => job'[j].status = job[j].status
              \/ \E w \in Workers : WriteLogs(w)]_vars
  <2>1. CASE \E w \in Workers : WriteLogs(w)
    BY <2>1
  <2>2. CASE ~\E w \in Workers : WriteLogs(w)
    BY <1>2, <2>2, JobSteps, FinishedStep DEF Overwriting
  <2> QED
    BY <2>1, <2>2
<1> QED
  BY <1>1, <1>2, TypeInit, PTL DEF Spec, OnlyLogsReopen

-----------------------------------------------------------------------------
(* The refinement: at most one job changes its status in a step, and it    *)
(* changes it the way JobLifecycle allows.                                 *)
Shown(j) == IF j \in strayed THEN "astray" ELSE job[j].status
Unmoved(j) == Shown(j)' = Shown(j)

LifeMove(from, to) ==
    \/ from \notin {"absent", "astray"} /\ to = "astray"
    \/ from = "absent" /\ to = "queued"
    \/ from = "queued" /\ to = "assigned"
    \/ from = "assigned" /\ to = "running"
    \/ from \in {"assigned", "running"} /\ to \in {"queued", "stalled"}
    \/ from = "stalled" /\ to = "queued"
    \/ from \in {"assigned", "running", "stalled"} /\ to \in {"completed", "failed"}
    \/ from \in Lifecycle!Unfinished /\ to = "cancelled"

LEMMA LifeStep ==
    ASSUME LeasedInv, NEW j \in Jobs, JobStep(j)
    PROVE  Unmoved(j) \/ LifeMove(Shown(j), Shown(j)')
<1> job[j] \in QueueJob /\ Leased(job[j])
  BY DEF LeasedInv, TypeOK
<1> USE DEF QueueJob, QueueJobStatus, Unmoved, Shown, OnTrack, LifeMove, Finished, FINISHED_STATUSES,
            Leased, HasLease, Holds, NoLease
<1>1. CASE GuardedWrite(j) /\ OnTrack(j)
  <2> USE <1>1
  <2>1. CASE job'[j] \in {job[j], Aged(job[j])}
    BY <2>1 DEF Aged
  <2>2. CASE job[j].status = "absent" /\ job'[j] = Enqueued
    BY <2>2 DEF Enqueued, Absent
  <2>3. CASE CanCancel(job[j]) /\ job'[j] = Cancelled(job[j])
    BY <2>3 DEF CanCancel, Cancelled, Lifecycle!Unfinished
  <2>4. CASE IsStale(job[j]) /\ job'[j] = Swept(job[j])
    BY <2>4 DEF IsStale, Swept, Requeued
  <2>5. CASE IsHung(job[j])
    BY <2>5 DEF IsHung
  <2>6. ASSUME NEW w \in Workers, CanClaim(job[j]),
               job'[j] = Claimed(job[j], w, nextLease)
        PROVE  Unmoved(j) \/ LifeMove(job[j].status, job'[j].status)
    BY <2>6 DEF CanClaim, Claimed
  <2>7. ASSUME NEW w \in Workers, NEW l \in Nat, CanStart(job[j], w, l),
               job'[j] = Started(job[j])
        PROVE  Unmoved(j) \/ LifeMove(job[j].status, job'[j].status)
    BY <2>7 DEF CanStart, Started
  <2>8. ASSUME NEW l \in Nat, CanRenew(job[j], l), job'[j] = Renewed(job[j])
        PROVE  Unmoved(j) \/ LifeMove(job[j].status, job'[j].status)
    BY <2>8 DEF CanRenew, Renewed
  <2> QED
    BY <1>1, <2>1, <2>2, <2>3, <2>4, <2>5, <2>6, <2>7, <2>8 DEF GuardedWrite
<1>2. CASE Checkpointing(j) /\ OnTrack(j)
  BY <1>2 DEF Checkpointing, Checkpointed
<1>3. CASE Recovering(j) /\ OnTrack(j)
  BY <1>3 DEF Recovering, CanRecover, Recovered, Requeued
<1>4. CASE Reporting(j) /\ OnTrack(j)
  BY <1>4 DEF Reporting, CanReport, Reported
<1>5. CASE Overwriting(j)
  BY <1>5 DEF Overwriting, LeasedInv, SameState
<1> QED
  BY <1>1, <1>2, <1>3, <1>4, <1>5 DEF JobStep

OneMove ==
    \/ \A j \in Jobs : Unmoved(j)
    \/ \E k \in Jobs : \A j \in Jobs \ {k} : Unmoved(j)

LEMMA OneMoves ==
    ASSUME LeasedInv, [Next]_vars
    PROVE  OneMove
<1> USE DEF serverVars, calls, history
<1>0. UNCHANGED <<job, strayed>> => OneMove
  BY DEF Unmoved, Shown, OneMove
<1>1. ASSUME NEW k, NEW r, job' = [job EXCEPT ![k] = r],
             strayed' \in {strayed, strayed \cup {k}}
      PROVE  OneMove
  <2>1. \A j \in Jobs \ {k} : Unmoved(j)
    BY <1>1 DEF LeasedInv, TypeOK, Unmoved, Shown
  <2> QED
    BY <2>1 DEF OneMove, Unmoved
<1>2. ASSUME NEW k \in Jobs, OperatorStep(k) PROVE OneMove
  BY <1>1, <1>2 DEF OperatorStep, Enqueue, Cancel, Recover
<1>3. ASSUME NEW w \in Workers, WorkerStep(w) PROVE OneMove
  <2>1. CASE \E i \in Jobs : SweepJob(w, i) \/ SkipSweep(w, i)
                              \/ ClaimJob(w, i) \/ ClaimMissed(w, i)
    BY <1>0, <1>1, <2>1 DEF SweepJob, SkipSweep, ClaimJob, ClaimMissed
  <2>2. CASE Start(w) \/ BeginBeat(w) \/ Renew(w) \/ Checkpoint(w) \/ WriteLogs(w)
    BY <1>0, <1>1, <2>2 DEF Start, BeginBeat, Renew, Checkpoint, WriteLogs, SetRecord
  <2>3. CASE Complete(w) \/ Fail(w)
    BY <1>0, <1>1, <2>3 DEF Complete, Fail, ServeReport, SetRecord
  <2>4. CASE \/ BeginClaim(w) \/ BeginPick(w) \/ EndClaim(w) \/ Abort(w)
             \/ (\E outcome \in Outcomes : Finish(w, outcome))
             \/ ReadForLogs(w) \/ UploadFailed(w) \/ Abandon(w) \/ WorkerCrash(w)
    BY <1>0, <2>4 DEF BeginClaim, BeginPick, EndClaim, Abort, Finish, ReadForLogs,
       UploadFailed, Abandon, WorkerCrash
  <2> QED
    BY <1>3, <2>1, <2>2, <2>3, <2>4 DEF WorkerStep
<1>4. CASE ServerRestart
  <2>1. \A j \in Jobs : ~IsHung(job[j])
    BY DEF LeasedInv, Leased, IsHung
  <2>2. \A j \in Jobs : Unmoved(j)
    BY <1>4, <2>1 DEF ServerRestart, Unmoved, Shown
  <2> QED
    BY <2>2 DEF OneMove
<1>5. CASE Tick
  <2>1. \A j \in Jobs : job[j] \in QueueJob
    BY DEF LeasedInv, TypeOK
  <2>2. \A j \in Jobs : Unmoved(j)
    BY <1>5, <2>1 DEF Tick, Unmoved, Shown, Aged, QueueJob
  <2> QED
    BY <2>2 DEF OneMove
<1>6. CASE UNCHANGED vars
  BY <1>0, <1>6 DEF vars
<1> QED
  BY <1>2, <1>3, <1>4, <1>5, <1>6 DEF Next

(* Leases, sweeps, crashes and lost answers never take a job along a path  *)
(* the queue does not promise, log uploads included: a job leaves its life *)
(* only where an upload puts an older record of it back, and goes astray.  *)
THEOREM Refinement == Spec => ImplementsLifecycle
<1>1. Init => Lifecycle!Init
  BY DEF Init, Lifecycle!Init, Absent
<1>2. ASSUME LeasedInv, [Next]_vars
      PROVE  [Lifecycle!Next]_[j \in Jobs |-> IF j \in strayed THEN "astray" ELSE job[j].status]
  <2>1. CASE \A j \in Jobs : Unmoved(j)
    BY <2>1 DEF Unmoved, Shown
  <2>2. ASSUME NEW k \in Jobs, \A j \in Jobs \ {k} : Unmoved(j), ~Unmoved(k)
        PROVE  Lifecycle!Next
    <3>1. LifeMove(Shown(k), Shown(k)')
      BY <1>2, <2>2, JobSteps, LifeStep DEF LeasedInv
    <3>2. [j \in Jobs |-> Shown(j)]' = [[j \in Jobs |-> Shown(j)] EXCEPT ![k] = Shown(k)']
      <4>1. \A j \in Jobs : Shown(j)' = IF j = k THEN Shown(k)' ELSE Shown(j)
        BY <2>2 DEF Unmoved
      <4> QED
        BY <4>1, Zenon
    <3>3. ASSUME NEW from, NEW to, Shown(k) \in from, Shown(k)' = to
          PROVE  Lifecycle!Move(k, from, to)
      BY <3>2, <3>3 DEF Lifecycle!Move, Shown
    <3>13. ASSUME Shown(k) \notin {"absent", "astray"}, Shown(k)' = "astray"
           PROVE  Lifecycle!Stray(k)
      BY <3>2, <3>13 DEF Lifecycle!Stray, Shown
    <3>4. ASSUME \/ Lifecycle!Submit(k) \/ Lifecycle!Assign(k) \/ Lifecycle!Run(k)
                 \/ Lifecycle!Requeue(k) \/ Lifecycle!Park(k) \/ Lifecycle!Succeed(k)
                 \/ Lifecycle!GiveUp(k) \/ Lifecycle!Cancel(k) \/ Lifecycle!Stray(k)
          PROVE  Lifecycle!Next
      BY <3>4 DEF Lifecycle!Next, Lifecycle!Ordinary
    <3> DEFINE from == Shown(k)
               to == Shown(k)'
    <3>5. CASE from = "absent" /\ to = "queued"
      BY <3>3, <3>4, <3>5 DEF Lifecycle!Submit
    <3>6. CASE from = "queued" /\ to = "assigned"
      BY <3>3, <3>4, <3>6 DEF Lifecycle!Assign
    <3>7. CASE from = "assigned" /\ to = "running"
      BY <3>3, <3>4, <3>7 DEF Lifecycle!Run
    <3>8. CASE from \in {"assigned", "running", "stalled"} /\ to = "queued"
      BY <3>3, <3>4, <3>8 DEF Lifecycle!Requeue
    <3>9. CASE from \in {"assigned", "running"} /\ to = "stalled"
      BY <3>3, <3>4, <3>9 DEF Lifecycle!Park
    <3>10. CASE from \in {"assigned", "running", "stalled"} /\ to = "completed"
      BY <3>3, <3>4, <3>10 DEF Lifecycle!Succeed
    <3>11. CASE from \in {"assigned", "running", "stalled"} /\ to = "failed"
      BY <3>3, <3>4, <3>11 DEF Lifecycle!GiveUp
    <3>12. CASE from \in Lifecycle!Unfinished /\ to = "cancelled"
      BY <3>3, <3>4, <3>12 DEF Lifecycle!Cancel
    <3>14. CASE from \notin {"absent", "astray"} /\ to = "astray"
      BY <3>4, <3>13, <3>14
    <3> QED
      BY <3>1, <3>5, <3>6, <3>7, <3>8, <3>9, <3>10, <3>11, <3>12, <3>14 DEF LifeMove
  <2> QED
    BY <1>2, <2>1, <2>2, OneMoves DEF OneMove
<1> QED
  BY <1>1, <1>2, LeasedInit, LeasedNext, PTL
  DEF Spec, ImplementsLifecycle, Lifecycle!Spec

-----------------------------------------------------------------------------
(* What the upload's missing lock would give: while an upload of a job is  *)
(* between its read and its write, no other call changes the job's status, *)
(* lease or mark.                                                          *)
LockedUploads ==
    \A w \in Workers :
        upload[w].on /\ ~WriteLogs(w)
            => SameState(job'[upload[w].job], job[upload[w].job])

UploadsAgree ==
    \A w \in Workers : upload[w].on =>
        /\ upload[w].job \in Jobs
        /\ SameState(upload[w].record, job[upload[w].job])

LEMMA OverwritesAgree ==
    ASSUME UploadsAgree, NEW j, Overwriting(j)
    PROVE  SameState(job'[j], job[j])
BY DEF UploadsAgree, Overwriting

LEMMA UploadsAgreeNext ==
    ASSUME TypeOK, UploadsAgree, [Next]_vars, LockedUploads
    PROVE  UploadsAgree'
<1> SUFFICES ASSUME NEW v \in Workers, upload'[v].on
             PROVE  /\ upload'[v].job \in Jobs
                    /\ SameState(upload'[v].record, job'[upload'[v].job])
  BY DEF UploadsAgree
<1> USE DEF serverVars, calls, history
<1>0. upload[v].on => /\ upload[v].job \in Jobs
                      /\ SameState(upload[v].record, job[upload[v].job])
  BY DEF UploadsAgree
<1>1. CASE upload'[v] = upload[v] /\ ~WriteLogs(v)
  BY <1>0, <1>1 DEF LockedUploads, SameState
<1>2. ASSUME NEW w \in Workers, ReadForLogs(w)
      PROVE  /\ upload'[v].job \in Jobs
             /\ SameState(upload'[v].record, job'[upload'[v].job])
  <2>1. session[w].job \in Jobs
    BY <1>2 DEF ReadForLogs, TypeOK, Session
  <2>2. CASE v = w
    BY <1>2, <2>1, <2>2 DEF ReadForLogs, TypeOK, SameState, Record
  <2>3. CASE v # w
    BY <1>0, <1>2, <2>3 DEF ReadForLogs, TypeOK, SameState
  <2> QED
    BY <2>2, <2>3
<1>3. ASSUME NEW w \in Workers, WriteLogs(w)
      PROVE  upload'[v] = upload[v] /\ ~WriteLogs(v)
  BY <1>3 DEF WriteLogs, TypeOK, UploadOff
<1>4. CASE ServerRestart
  BY <1>4 DEF ServerRestart, UploadOff
<1>5. CASE Tick
  <2>1. /\ upload[v].on /\ upload'[v].job = upload[v].job
        /\ upload'[v].record = Aged(upload[v].record)
        /\ upload[v].record \in QueueJob
    BY <1>5 DEF Tick, TypeOK, Upload
  <2>2. /\ job[upload[v].job] \in QueueJob
        /\ job'[upload[v].job] = Aged(job[upload[v].job])
    BY <1>0, <1>5, <2>1 DEF Tick, TypeOK
  <2> QED
    BY <1>0, <2>1, <2>2 DEF SameState, Aged, QueueJob
<1>6. ASSUME NEW k \in Jobs, OperatorStep(k) PROVE upload' = upload
  BY <1>6 DEF OperatorStep, Enqueue, Cancel, Recover
<1>7. ASSUME NEW w \in Workers, WorkerStep(w), ~ReadForLogs(w), ~WriteLogs(w)
      PROVE  upload' = upload
  BY <1>7 DEF WorkerStep, BeginClaim, BeginPick, EndClaim, SweepJob, SkipSweep,
     ClaimJob, ClaimMissed, Start, BeginBeat, Renew, Abort, Checkpoint, Finish,
     UploadFailed, Complete, Fail, Abandon, WorkerCrash
<1>8. UNCHANGED vars => upload' = upload
  BY DEF vars
<1>9. upload' = upload => upload'[v] = upload[v] /\ ~WriteLogs(v)
  BY DEF WriteLogs, TypeOK, UploadOff
<1> QED
  BY <1>1, <1>2, <1>3, <1>4, <1>5, <1>6, <1>7, <1>8, <1>9 DEF Next

(* The lock appendWorkerLogs does not take is all that is missing: were    *)
(* every other writer of a job kept out between the read of an upload and  *)
(* its write, as the per-job lock keeps them out of the other calls, no    *)
(* job would ever stray.                                                   *)
THEOREM LockedUploadsKeepTrack ==
    Spec /\ [][LockedUploads]_vars => [](strayed = {})
<1> DEFINE Inv == TypeOK /\ UploadsAgree /\ strayed = {}
<1>1. Init => Inv
  BY TypeInit DEF Init, UploadsAgree, UploadOff
<1>2. Inv /\ [Next]_vars /\ [LockedUploads]_vars => Inv'
  <2> SUFFICES ASSUME Inv, [Next]_vars, [LockedUploads]_vars
               PROVE  Inv'
    OBVIOUS
  <2>1. CASE UNCHANGED vars
    BY <2>1, TypeNext DEF vars, UploadsAgree
  <2>2. CASE LockedUploads
    <3>1. TypeOK' /\ UploadsAgree'
      BY <2>2, TypeNext, UploadsAgreeNext
    <3>2. ASSUME NEW j \in Jobs PROVE j \notin strayed'
      BY JobSteps, OverwritesAgree DEF JobStep, OnTrack, Overwriting
    <3> QED
      BY <3>1, <3>2 DEF TypeOK
  <2> QED
    BY <2>1, <2>2
<1> QED
  BY <1>1, <1>2, PTL DEF Spec

(* And then a finished job never leaves its status, as FINISHED_STATUSES   *)
(* says: the promise the code breaks needs that lock and nothing else.     *)
THEOREM LockedUploadsKeepFinished ==
    Spec /\ [][LockedUploads]_vars => FinishedForever
<1>1. TypeOK /\ [Next]_vars => TypeOK'
  BY TypeNext
<1>2. ASSUME TypeOK, [Next]_vars, (strayed = {})'
      PROVE  [\A j \in Jobs : Finished(job[j]) => job'[j].status = job[j].status]_vars
  <2> SUFFICES ASSUME NEW j \in Jobs, Finished(job[j])
               PROVE  job'[j].status = job[j].status
    OBVIOUS
  <2>1. CASE Overwriting(j)
    BY <1>2, <2>1 DEF Overwriting, SameState
  <2> QED
    BY <1>2, <2>1, JobSteps, FinishedStep
<1> QED
  BY <1>1, <1>2, TypeInit, LockedUploadsKeepTrack, PTL DEF Spec, FinishedForever

=============================================================================
