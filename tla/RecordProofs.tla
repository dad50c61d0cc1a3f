---------------------------- MODULE RecordProofs -----------------------------
(* What processes share and none of them holds alone: the lock of a job,   *)
(* its record, the record of a worker, the files of a run and those of the *)
(* server.  Each is proved by itself, for any number of processes.         *)
EXTENDS JobLock, JobStore, WorkerRegistry, RunFiles, ServerFiles,
        WorkerExecutionProofs, SequenceTheorems, TLAPS

----------------------------------------------------------------------------
(* The lock of a job record (JobLock)                                      *)

(* Who holds the row, and has not held it for too long, owns it, and the   *)
(* row is as old as the hold; who holds the file, before any was stolen,   *)
(* owns it.                                                                *)
RowIsOwned ==
    store = "postgres" =>
        \A p \in Procs : InTime(p) => lock.owner = p /\ lock.age = proc[p].age
FileIsOwned ==
    (store = "file" /\ ~stolen) => \A p \in Procs : Holds(p) => lock.owner = p
(* Who is between its tries has not held anything; the row is never        *)
(* unlinked and the file never expires.                                    *)
OwnSteps ==
    \A p \in Procs :
        /\ proc[p].at = "expire" => store = "postgres"
        /\ proc[p].at \in {"stat", "unlink"} => store = "file"

LockInv == LockTypeOK /\ RowIsOwned /\ FileIsOwned /\ OwnSteps

LEMMA OlderIsAge == ASSUME NEW a \in Ages PROVE Older(a) \in Ages /\ (Older(a) <= LockTtl => Older(a) = a + 1 /\ a <= LockTtl)
  BY LockAssumption DEF Older, Ages

ProcStates == [at : {"away", "make", "stat", "unlink", "expire", "hold"}, try : {1, 2}, age : Ages]

LEMMA AwayIsPlace == Away \in ProcStates
  <1>1. 0 \in Ages
    BY LockAssumption DEF Ages
  <1>2. QED
    BY <1>1 DEF Away, ProcStates

LEMMA LockInitInv == LockInit => LockInv
  <1> SUFFICES ASSUME LockInit PROVE LockInv
    OBVIOUS
  <1>a. 0 \in Ages
    BY LockAssumption DEF Ages
  <1>1. LockTypeOK
    BY <1>a, AwayIsPlace DEF LockInit, LockTypeOK, Free, ProcStates
  <1>2. RowIsOwned /\ FileIsOwned /\ OwnSteps
    BY DEF LockInit, Away, Holds, RowIsOwned, FileIsOwned, OwnSteps, InTime
  <1>3. QED
    BY <1>1, <1>2 DEF LockInv

LEMMA LockStepInv == ASSUME LockInv, [LockNext]_lockVars PROVE LockInv'
  <1> USE LockAssumption DEF LockInv
  <1>1. ASSUME NEW p \in Procs, Acquire(p) PROVE LockInv'
    <2>1. LockTypeOK'
      BY <1>1 DEF Acquire, LockTypeOK, Goes
    <2>2. RowIsOwned' /\ FileIsOwned' /\ OwnSteps'
      BY <1>1 DEF Acquire, LockTypeOK, Goes, RowIsOwned, FileIsOwned, OwnSteps, Holds, InTime
    <2>3. QED
      BY <2>1, <2>2
  <1>2. ASSUME NEW p \in Procs, Make(p) PROVE LockInv'
    <2>1. CASE ~Held
      <3>1. LockTypeOK'
        BY <1>2, <2>1 DEF Make, LockTypeOK, Take, Ages
      <3>2. \A q \in Procs : q # p => proc'[q] = proc[q] /\ (Holds(q) => store = "postgres" \/ stolen)
        BY <1>2, <2>1 DEF Make, Take, LockTypeOK, Held, FileIsOwned, Holds
      <3>3. \A q \in Procs : (q # p /\ store = "postgres") => ~InTime(q)
        BY <2>1 DEF RowIsOwned, Held, Holds, LockTypeOK, Ages, InTime
      <3>4. RowIsOwned' /\ FileIsOwned' /\ OwnSteps'
        BY <1>2, <2>1, <3>2, <3>3 DEF Make, Take, LockTypeOK, RowIsOwned, FileIsOwned, OwnSteps, Holds, Ages, InTime
      <3>5. QED
        BY <3>1, <3>4
    <2>2. CASE Held
      <3>1. LockTypeOK'
        BY <1>2, <2>2 DEF Make, LockTypeOK, Goes, Leaves, Away, Ages
      <3>2. RowIsOwned' /\ FileIsOwned' /\ OwnSteps'
        BY <1>2, <2>2 DEF Make, LockTypeOK, Goes, Leaves, Away, RowIsOwned, FileIsOwned, OwnSteps, Holds, InTime
      <3>3. QED
        BY <3>1, <3>2
    <2>3. QED
      BY <2>1, <2>2
  <1>3. ASSUME NEW p \in Procs, Stat(p) PROVE LockInv'
    <2>1. LockTypeOK'
      BY <1>3 DEF Stat, LockTypeOK, Goes, Leaves, Away, Ages
    <2>2. RowIsOwned' /\ FileIsOwned' /\ OwnSteps'
      BY <1>3 DEF Stat, LockTypeOK, Goes, Leaves, Away, RowIsOwned, FileIsOwned, OwnSteps, Holds, InTime
    <2>3. QED
      BY <2>1, <2>2
  <1>4. ASSUME NEW p \in Procs, UnlinkAbandoned(p) PROVE LockInv'
    <2>1. LockTypeOK'
      BY <1>4 DEF UnlinkAbandoned, LockTypeOK, Leaves, Away, Free, Ages
    <2>2. store = "file" /\ stolen'
      BY <1>4 DEF UnlinkAbandoned, OwnSteps
    <2>3. RowIsOwned' /\ FileIsOwned' /\ OwnSteps'
      BY <1>4, <2>2 DEF UnlinkAbandoned, LockTypeOK, Leaves, Away, RowIsOwned, FileIsOwned, OwnSteps, InTime, Holds
    <2>4. QED
      BY <2>1, <2>3
  <1>5. ASSUME NEW p \in Procs, DeleteExpired(p) PROVE LockInv'
    <2>1. LockTypeOK'
      BY <1>5 DEF DeleteExpired, LockTypeOK, Goes, Free, Ages
    <2>2. store = "postgres"
      BY <1>5 DEF DeleteExpired, OwnSteps
    <2>3. \A q \in Procs : InTime(q) => lock' = lock
      BY <1>5, <2>2 DEF DeleteExpired, RowIsOwned, LockTypeOK, Ages, InTime, Holds
    <2>4. RowIsOwned' /\ FileIsOwned' /\ OwnSteps'
      BY <1>5, <2>2, <2>3 DEF DeleteExpired, LockTypeOK, Goes, RowIsOwned, FileIsOwned, OwnSteps, Holds, InTime
    <2>5. QED
      BY <2>1, <2>4
  <1>6. ASSUME NEW p \in Procs, ReleaseLock(p) PROVE LockInv'
    <2>1. LockTypeOK'
      BY <1>6 DEF ReleaseLock, LockTypeOK, Leaves, Away, Free, Ages
    <2>2. RowIsOwned' /\ OwnSteps'
      BY <1>6 DEF ReleaseLock, LockTypeOK, Leaves, Away, Free, RowIsOwned, OwnSteps, Holds, InTime
    <2>3. FileIsOwned'
      BY <1>6 DEF ReleaseLock, LockTypeOK, Leaves, Away, Free, FileIsOwned, Holds
    <2>4. QED
      BY <2>1, <2>2, <2>3
  <1>7. ASSUME NEW p \in Procs, HolderDies(p) PROVE LockInv'
    <2>1. LockTypeOK'
      BY <1>7 DEF HolderDies, LockTypeOK, Leaves, Away, Ages
    <2>2. RowIsOwned' /\ FileIsOwned' /\ OwnSteps'
      BY <1>7 DEF HolderDies, LockTypeOK, Leaves, Away, RowIsOwned, FileIsOwned, OwnSteps, Holds, InTime
    <2>3. QED
      BY <2>1, <2>2
  <1>8. ASSUME TimePasses PROVE LockInv'
    <2>1. LockTypeOK'
      BY <1>8, OlderIsAge DEF TimePasses, LockTypeOK
    <2>2. \A p \in Procs : proc'[p].at = proc[p].at
      BY <1>8 DEF TimePasses, LockTypeOK
    <2>3. lock'.owner = lock.owner
      BY <1>8 DEF TimePasses, LockTypeOK
    <2>4. RowIsOwned'
      <3> SUFFICES ASSUME store = "postgres", NEW p \in Procs, InTime(p)'
                   PROVE  lock'.owner = p /\ lock'.age = proc'[p].age
        BY <1>8 DEF TimePasses, RowIsOwned, InTime, Holds
      <3>1. Holds(p) /\ p \notin cut /\ proc'[p].age = Older(proc[p].age) /\ proc[p].age \in Ages
        BY <1>8, <2>2 DEF TimePasses, LockTypeOK, InTime, Holds
      <3>2. InTime(p)
        BY <3>1, OlderIsAge DEF InTime
      <3>3. lock.owner = p /\ lock.age = proc[p].age
        BY <3>1, <3>2 DEF RowIsOwned, InTime, Holds
      <3>4. lock'.age = Older(lock.age)
        BY <1>8, <3>3 DEF TimePasses, LockTypeOK, Held
      <3>5. QED
        BY <2>3, <3>1, <3>3, <3>4
    <2>5. FileIsOwned' /\ OwnSteps'
      BY <1>8, <2>2, <2>3 DEF TimePasses, FileIsOwned, OwnSteps, Holds
    <2>6. QED
      BY <2>1, <2>4, <2>5
  <1>11. CASE DropLock
    <2>1. LockTypeOK'
      BY <1>11 DEF DropLock, LockTypeOK, Free, Ages
    <2>2. \A p \in Procs : ~InTime(p)'
      BY <1>11 DEF DropLock, RowIsOwned, InTime, Holds
    <2>3. RowIsOwned' /\ FileIsOwned' /\ OwnSteps'
      BY <1>11, <2>2 DEF DropLock, RowIsOwned, FileIsOwned, OwnSteps
    <2>4. QED
      BY <2>1, <2>3
  <1>9. CASE UNCHANGED lockVars
    BY <1>9 DEF lockVars, LockTypeOK, RowIsOwned, FileIsOwned, OwnSteps, Holds, InTime
  <1>10. QED
    BY <1>1, <1>2, <1>3, <1>4, <1>5, <1>6, <1>7, <1>8, <1>9, <1>11 DEF LockNext

LEMMA LockInvIsSafe == LockInv => LockIsSafe
  <1> SUFFICES ASSUME LockInv PROVE LockIsSafe
    OBVIOUS
  <1>1. RowExcludes
    BY LockAssumption DEF LockInv, RowIsOwned, RowExcludes, Holds, LockTypeOK, Ages, InTime
  <1>2. FileExcludes
    BY DEF LockInv, FileIsOwned, FileExcludes
  <1>3. QED
    BY <1>1, <1>2 DEF LockInv, LockIsSafe

(* Two processes never hold the row of a job at a time unless one of them  *)
(* has held it too long or had it deleted under it, nor its file before    *)
(* one was taken for abandoned (acquireFileJobLock, and acquireLock and    *)
(* delete of PostgresJobRepository).                                       *)
THEOREM LockSafety == LockSpec => []LockIsSafe
  <1>1. LockInit => LockInv
    BY LockInitInv
  <1>2. LockInv /\ [LockNext]_lockVars => LockInv'
    BY LockStepInv
  <1>3. QED
    BY <1>1, <1>2, LockInvIsSafe, PTL DEF LockSpec

----------------------------------------------------------------------------
(* The record of a job in its stores (JobStore)                            *)

StoreTypeOK ==
    /\ kind \in {"file", "sqlite", "postgres"}
    /\ row \in Nat /\ snapshot \in Nat /\ writes \in Nat
    /\ row <= writes /\ snapshot <= writes /\ import.read <= writes
    /\ pending \subseteq 1 .. writes /\ removal \in {"none", "unlink"}
    /\ import \in [at : {"look", "read", "write", "snapshot", "done"}, read : Nat]
    /\ upset \in [crash : BOOLEAN, overlap : BOOLEAN]

(* The file store has no row, and nothing to import.                       *)
FileIsAlone ==
    /\ kind = "file" => row = 0 /\ pending = {} /\ removal = "none" /\ import.at \in {"look", "done"}
    /\ kind = "sqlite" => import.at # "snapshot"

(* While nothing overlaps an import and no write another, the import has   *)
(* what is on disk, and one write at most has its snapshot to make: the    *)
(* last.                                                                   *)
ImportIsAlone ==
    ~upset.overlap =>
        /\ pending # {} \/ removal # "none" => import.at = "done"
        /\ pending \subseteq {writes}
        /\ row # 0 => row >= snapshot
        /\ import.at \in {"write", "snapshot"} => import.read = snapshot /\ snapshot # 0
        /\ kind = "sqlite" /\ import.at \in {"read", "write"} => row = 0
        /\ ~upset.crash /\ pending = {} /\ row # 0 => snapshot \in {0, row}
        /\ pending # {} => row \in {0, writes}

StoreInv == StoreTypeOK /\ FileIsAlone /\ ImportIsAlone

LEMMA StoreInitInv == StoreInit => StoreInv
  BY DEF StoreInit, NoImport, StoreInv, StoreTypeOK, FileIsAlone, ImportIsAlone

(* A write or a deletion that begins while an import is under way is noted.*)
LEMMA DisturbSays ==
  ASSUME StoreTypeOK, NEW how \in BOOLEAN, Disturb(how)
  PROVE  /\ upset' \in [crash : BOOLEAN, overlap : BOOLEAN]
         /\ upset'.crash = upset.crash
         /\ ~upset'.overlap => ~upset.overlap /\ import.at = "done" /\ ~how
  <1> DEFINE busy == import.at # "done" \/ how
  <1>1. upset' = [upset EXCEPT !.overlap = upset.overlap \/ busy]
    BY DEF Disturb
  <1>2. busy \in BOOLEAN
    OBVIOUS
  <1> HIDE DEF busy
  <1>3. /\ upset' \in [crash : BOOLEAN, overlap : BOOLEAN]
        /\ upset'.crash = upset.crash
        /\ ~upset'.overlap => ~upset.overlap /\ ~busy
    BY <1>1, <1>2 DEF StoreTypeOK
  <1>4. QED
    BY <1>3 DEF busy

LEMMA RestartSays ==
  ASSUME StoreTypeOK, Restart
  PROVE  /\ upset' \in [crash : BOOLEAN, overlap : BOOLEAN]
         /\ upset'.overlap = upset.overlap
         /\ ~upset'.crash => ~upset.crash /\ pending = {} /\ import.at = "done"
  <1> DEFINE died == pending # {} \/ removal # "none" \/ import.at # "done"
  <1>1. upset' = [upset EXCEPT !.crash = upset.crash \/ died]
    BY DEF Restart
  <1>2. died \in BOOLEAN
    OBVIOUS
  <1> HIDE DEF died
  <1>3. /\ upset' \in [crash : BOOLEAN, overlap : BOOLEAN]
        /\ upset'.overlap = upset.overlap
        /\ ~upset'.crash => ~upset.crash /\ ~died
    BY <1>1, <1>2 DEF StoreTypeOK
  <1>4. QED
    BY <1>3 DEF died

(* Each step keeps the invariant, and takes no reader back.                *)
LEMMA WriteStepsRecord ==
  ASSUME StoreInv, WriteRecord \/ WriteSnapshot
  PROVE  StoreInv' /\ RecordIsMonotone
  <1>t. StoreTypeOK
    BY DEF StoreInv
  <1>1. CASE WriteRecord
    <2>1. /\ upset' \in [crash : BOOLEAN, overlap : BOOLEAN]
          /\ upset'.crash = upset.crash
          /\ ~upset'.overlap => ~upset.overlap /\ import.at = "done" /\ pending = {}
      <3>1. Disturb(pending # {}) /\ (pending # {}) \in BOOLEAN
        BY <1>1 DEF WriteRecord
      <3>2. QED
        BY <3>1, <1>t, DisturbSays
    <2>2. writes' = writes + 1 /\ UNCHANGED <<kind, import, removal>>
      BY <1>1 DEF WriteRecord
    <2>3. \/ kind = "file" /\ snapshot' = writes + 1 /\ UNCHANGED <<row, pending>>
          \/ /\ kind # "file" /\ row' = writes + 1 /\ UNCHANGED snapshot
             /\ pending' = pending \cup {writes + 1}
      BY <1>1 DEF WriteRecord
    <2>a. \A n \in pending : n \in Nat /\ 1 <= n /\ n <= writes
      BY <1>t DEF StoreTypeOK
    <2>b. \A n \in pending' : n \in pending \/ n = writes + 1
      BY <2>3
    <2>c. pending' \subseteq 1 .. writes'
      <3>1. writes \in Nat /\ writes' = writes + 1
        BY <1>t, <2>2 DEF StoreTypeOK
      <3>2. \A n \in pending' : n \in Nat /\ 1 <= n /\ n <= writes'
        BY <2>a, <2>b, <3>1
      <3>3. \A n \in pending' : n \in 1 .. writes'
        BY <3>1, <3>2
      <3>4. QED
        BY <3>3
    <2>d. ~upset'.overlap => pending' \subseteq {writes'}
      BY <2>1, <2>2, <2>3
    <2>4. StoreTypeOK' /\ FileIsAlone'
      BY <2>1, <2>2, <2>3, <2>c DEF StoreInv, StoreTypeOK, FileIsAlone
    <2>5. ImportIsAlone'
      <3>1. CASE kind = "file"
        BY <2>1, <2>2, <2>3, <2>d, <3>1 DEF StoreInv, StoreTypeOK, FileIsAlone, ImportIsAlone
      <3>2. CASE kind # "file"
        <4>1. pending' # {}
          BY <2>3, <3>2
        <4>2. QED
          BY <2>1, <2>2, <2>3, <2>d, <3>2, <4>1 DEF StoreInv, StoreTypeOK, ImportIsAlone
      <3>3. QED
        BY <3>1, <3>2
    <2>6. RecordIsMonotone
      BY <1>t, <2>2, <2>3
      DEF StoreInv, StoreTypeOK, FileIsAlone, RecordIsMonotone, NeverGoesBack, DeletedIsGone, Record
    <2>7. QED
      BY <2>4, <2>5, <2>6 DEF StoreInv
  <1>2. CASE WriteSnapshot
    <2>1. PICK n \in pending : snapshot' = n /\ pending' = pending \ {n}
      BY <1>2 DEF WriteSnapshot
    <2>2. UNCHANGED <<kind, row, writes, removal, import, upset>>
      BY <1>2 DEF WriteSnapshot
    <2>3. n \in Nat /\ 1 <= n /\ n <= writes
      BY <1>t, <2>1 DEF StoreTypeOK
    <2>4. ~upset.overlap => n = writes /\ pending' = {} /\ import.at = "done"
      BY <2>1 DEF StoreInv, ImportIsAlone
    <2>5. StoreTypeOK' /\ FileIsAlone'
      BY <2>1, <2>2, <2>3 DEF StoreInv, StoreTypeOK, FileIsAlone
    <2>6. ImportIsAlone'
      BY <2>1, <2>2, <2>3, <2>4 DEF StoreInv, StoreTypeOK, ImportIsAlone
    <2>7. RecordIsMonotone
      BY <2>1, <2>2, <2>3, <2>4
      DEF StoreInv, StoreTypeOK, FileIsAlone, RecordIsMonotone, NeverGoesBack, DeletedIsGone, Record, Reliable
    <2>8. QED
      BY <2>5, <2>6, <2>7 DEF StoreInv
  <1>3. QED
    BY <1>1, <1>2

LEMMA DeleteSteps ==
  ASSUME StoreInv, DeleteRecord \/ UnlinkSnapshot
  PROVE  StoreInv' /\ RecordIsMonotone
  <1>t. StoreTypeOK
    BY DEF StoreInv
  <1>1. CASE DeleteRecord
    <2>1. /\ upset' \in [crash : BOOLEAN, overlap : BOOLEAN]
          /\ upset'.crash = upset.crash
          /\ ~upset'.overlap => ~upset.overlap /\ import.at = "done"
      BY <1>1, <1>t, DisturbSays DEF DeleteRecord
    <2>2. removal = "none" /\ Record # 0 /\ UNCHANGED <<kind, import, writes, pending>>
      BY <1>1 DEF DeleteRecord
    <2>3. \/ kind = "file" /\ snapshot' = 0 /\ UNCHANGED <<row, removal>>
          \/ kind # "file" /\ row' = 0 /\ removal' = "unlink" /\ UNCHANGED snapshot
      BY <1>1 DEF DeleteRecord
    <2>4. StoreInv'
      BY <2>1, <2>2, <2>3 DEF StoreInv, StoreTypeOK, FileIsAlone, ImportIsAlone
    <2>5. RecordIsMonotone
      BY <1>t, <2>2, <2>3
      DEF StoreInv, StoreTypeOK, FileIsAlone, RecordIsMonotone, NeverGoesBack, DeletedIsGone, Record
    <2>6. QED
      BY <2>4, <2>5
  <1>2. CASE UnlinkSnapshot
    <2>1. StoreInv'
      BY <1>2 DEF UnlinkSnapshot, StoreInv, StoreTypeOK, FileIsAlone, ImportIsAlone
    <2>2. RecordIsMonotone
      BY <1>2 DEF UnlinkSnapshot, StoreInv, StoreTypeOK, FileIsAlone, ImportIsAlone, RecordIsMonotone, NeverGoesBack,
                  DeletedIsGone, Record, Reliable
    <2>3. QED
      BY <2>1, <2>2
  <1>3. QED
    BY <1>1, <1>2

LEMMA ImportSteps ==
  ASSUME StoreInv, ImportLooks \/ ImportReads \/ ImportWrites \/ ImportSnapshot
  PROVE  StoreInv' /\ RecordIsMonotone
  <1>t. StoreTypeOK
    BY DEF StoreInv
  <1>1. CASE ImportLooks \/ ImportReads
    <2>1. UNCHANGED <<kind, row, snapshot, writes, pending, removal, upset>>
      BY <1>1 DEF ImportLooks, ImportReads, doing
    <2>2. \/ import' = NoImport
          \/ /\ import' = [at |-> "read", read |-> 0] /\ kind # "file" /\ (kind = "sqlite" => row = 0)
             /\ import.at # "done"
          \/ import' = [at |-> "write", read |-> snapshot] /\ snapshot # 0 /\ import.at = "read"
      BY <1>1 DEF ImportLooks, ImportReads
    <2>3. StoreInv'
      BY <2>1, <2>2 DEF NoImport, StoreInv, StoreTypeOK, FileIsAlone, ImportIsAlone
    <2>4. Record' = Record
      BY <2>1 DEF Record
    <2>5. QED
      BY <1>t, <2>3, <2>4 DEF RecordIsMonotone, NeverGoesBack, DeletedIsGone, Record, StoreTypeOK
  <1>2. CASE ImportWrites
    <2>1. /\ UNCHANGED <<kind, snapshot, writes, pending, removal, upset>> /\ import.at = "write" /\ row' = import.read
          /\ import' = IF kind = "postgres" THEN [import EXCEPT !.at = "snapshot"] ELSE NoImport
      BY <1>2 DEF ImportWrites, doing
    <2>2. /\ import' \in [at : {"look", "read", "write", "snapshot", "done"}, read : Nat]
          /\ import'.read <= writes
          /\ \/ import'.at = "done"
             \/ import'.at = "snapshot" /\ kind = "postgres" /\ import'.read = import.read
      BY <2>1, <1>t DEF NoImport, StoreTypeOK
    <2>3. StoreInv'
      BY <2>1, <2>2 DEF StoreInv, StoreTypeOK, FileIsAlone, ImportIsAlone
    <2>4. RecordIsMonotone
      BY <2>1 DEF StoreInv, StoreTypeOK, FileIsAlone, ImportIsAlone, RecordIsMonotone, NeverGoesBack,
                  DeletedIsGone, Record, Reliable
    <2>5. QED
      BY <2>3, <2>4
  <1>3. CASE ImportSnapshot
    <2>1. /\ UNCHANGED <<kind, row, writes, pending, removal, upset>> /\ import.at = "snapshot"
          /\ snapshot' = import.read /\ import' = NoImport
      BY <1>3 DEF ImportSnapshot, doing
    <2>2. StoreInv'
      BY <2>1 DEF NoImport, StoreInv, StoreTypeOK, FileIsAlone, ImportIsAlone
    <2>3. RecordIsMonotone
      BY <2>1 DEF StoreInv, StoreTypeOK, FileIsAlone, ImportIsAlone, RecordIsMonotone, NeverGoesBack,
                  DeletedIsGone, Record, Reliable
    <2>4. QED
      BY <2>2, <2>3
  <1>4. QED
    BY <1>1, <1>2, <1>3

LEMMA RestartStep ==
  ASSUME StoreInv, Restart
  PROVE  StoreInv' /\ RecordIsMonotone
  <1>1. /\ upset' \in [crash : BOOLEAN, overlap : BOOLEAN]
        /\ upset'.overlap = upset.overlap
        /\ ~upset'.crash => ~upset.crash /\ pending = {} /\ import.at = "done"
    BY RestartSays DEF StoreInv
  <1>2. /\ pending' = {} /\ removal' = "none" /\ import' = [at |-> "look", read |-> 0]
        /\ UNCHANGED <<kind, row, snapshot, writes>>
    BY DEF Restart, NoImport
  <1>3. StoreInv'
    BY <1>1, <1>2 DEF StoreInv, StoreTypeOK, FileIsAlone, ImportIsAlone
  <1>4. RecordIsMonotone
    BY <1>2 DEF StoreInv, StoreTypeOK, RecordIsMonotone, NeverGoesBack, DeletedIsGone, Record
  <1>5. QED
    BY <1>3, <1>4

LEMMA StoreStepInv == StoreInv /\ [StoreNext]_storeVars => StoreInv' /\ RecordIsMonotone
  <1>1. ASSUME StoreInv, StoreNext PROVE StoreInv' /\ RecordIsMonotone
    BY <1>1, WriteStepsRecord, DeleteSteps, ImportSteps, RestartStep, Zenon DEF StoreNext
  <1>2. ASSUME StoreInv, UNCHANGED storeVars PROVE StoreInv' /\ RecordIsMonotone
    BY <1>2 DEF storeVars, StoreInv, StoreTypeOK, FileIsAlone, ImportIsAlone, RecordIsMonotone,
                NeverGoesBack, DeletedIsGone, Record
  <1>3. QED
    BY <1>1, <1>2

(* No reader of a record goes back, but for the snapshot a delete is about *)
(* to unlink, and what was deleted stays so, but for the write the delete  *)
(* fell into, in each store under what it needs, for any number of writes. *)
THEOREM StoreIsMonotone == StoreSpec => [][RecordIsMonotone]_storeVars
  <1>1. StoreInv /\ [StoreNext]_storeVars => StoreInv' /\ [RecordIsMonotone]_storeVars
    BY StoreStepInv
  <1>2. QED
    BY <1>1, StoreInitInv, PTL DEF StoreSpec

----------------------------------------------------------------------------
(* The record of a worker (WorkerRegistry)                                 *)

(* While no requests overlapped and no lease was lost, a request's copy is *)
(* the record, and each step of the loop knows what the record names.      *)
LoopKnows ==
    /\ loop.at = "none" => held = NoRegJob /\ active = NoRegJob /\ record.current = NoRegJob
    /\ loop.at = "claim" => /\ active = NoRegJob /\ record.current = NoRegJob
                            /\ record.status \in {"idle", "online"}
    /\ loop.at = "claimed" => /\ active = NoRegJob /\ held # NoRegJob
                              /\ record.current = held /\ loop.copy.current = held
    /\ loop.at = "work" => held # NoRegJob /\ active = held /\ record.current = held
    /\ loop.at = "result" => held = NoRegJob /\ loop.copy = record
    /\ loop.at = "rest" => held = NoRegJob /\ record.current = NoRegJob
    /\ loop.at = "idle" => held = NoRegJob /\ active = NoRegJob /\ loop.copy.current = NoRegJob

OneRequest ==
    /\ LoopAway \/ (TimerAway /\ DeskAway)
    /\ TimerAway \/ DeskAway
    /\ ~TimerAway => timer.copy = record
    /\ ~DeskAway => desk.copy = record

OrderStands ==
    (order.word \in {"drain", "disable"} /\ ~order.heard) => record.status \in {"draining", "disabled"}

WorkerType == [status : Statuses, current : RegJobs \cup {NoRegJob}]

RegTypeOK ==
    /\ record \in WorkerType
    /\ queued \subseteq RegJobs /\ held \in RegJobs \cup {NoRegJob} /\ active \in RegJobs \cup {NoRegJob}
    /\ loop \in [at : {"none", "claim", "claimed", "work", "result", "rest", "idle"}, copy : WorkerType]
    /\ timer \in [at : {"none", "idle", "busy"}, copy : WorkerType]
    /\ desk \in [at : {"none", "disable", "enable", "drain"}, copy : WorkerType]
    /\ order \in [word : {"none", "disable", "enable", "drain"}, heard : BOOLEAN]
    /\ mishap \in BOOLEAN

RegInv ==
    /\ RegTypeOK
    /\ OrderStands
    /\ ~mishap => LoopKnows /\ OneRequest

LoopType == [at : {"none", "claim", "claimed", "work", "result", "rest", "idle"}, copy : WorkerType]
OrderType == [word : {"none", "disable", "enable", "drain"}, heard : BOOLEAN]

LEMMA IdleHasType ==
  /\ Idle.copy \in WorkerType /\ Idle.at = "none" /\ Idle \in LoopType
  /\ Idle \in [at : {"none", "idle", "busy"}, copy : WorkerType]
  /\ Idle \in [at : {"none", "disable", "enable", "drain"}, copy : WorkerType]
  /\ [Idle EXCEPT !.at = "rest"] \in LoopType
  /\ \A j \in RegJobs \cup {NoRegJob} : [Idle EXCEPT !.at = "claimed", !.copy.current = j] \in LoopType
  BY DEF Idle, WorkerType, Statuses, LoopType

LEMMA HeardHasType == RegTypeOK /\ HeardFrom => order' \in OrderType /\ order'.heard
  BY DEF RegTypeOK, HeardFrom, OrderType

LEMMA RegInitInv == RegInit => RegInv
  <1> SUFFICES ASSUME RegInit PROVE RegInv
    OBVIOUS
  <1>1. RegTypeOK
    <2>1. record \in WorkerType /\ order \in OrderType
      BY DEF RegInit, WorkerType, Statuses, OrderType
    <2>2. QED
      BY <2>1, IdleHasType DEF RegInit, RegTypeOK, LoopType, OrderType
  <1>2. OrderStands /\ LoopKnows /\ OneRequest
    BY IdleHasType DEF RegInit, OrderStands, LoopKnows, OneRequest, LoopAway, TimerAway, DeskAway
  <1>3. QED
    BY <1>1, <1>2 DEF RegInv

(* The heartbeats and the operator: at what is on record.                  *)
LEMMA TimerSteps ==
  ASSUME RegInv, TimerLoads \/ TimerSaves \/ DeskLoads \/ DeskSaves
  PROVE  RegInv'
  <1>1. CASE TimerLoads
    <2>1. RegTypeOK' /\ OrderStands'
      BY <1>1 DEF RegInv, TimerLoads, RegTypeOK, OrderStands, Loaded, Beat, Begins, WorkerType
    <2>2. ~mishap' => LoopKnows' /\ OneRequest'
      BY <1>1 DEF RegInv, RegTypeOK, TimerLoads, LoopKnows, OneRequest, Loaded, Beat, Begins, LoopAway, TimerAway,
                  DeskAway
    <2>3. QED
      BY <2>1, <2>2 DEF RegInv
  <1>2. CASE TimerSaves
    <2>t. RegTypeOK
      BY DEF RegInv
    <2>r. record' \in WorkerType
      BY <1>2, <2>t DEF TimerSaves, Beaten, RegTypeOK, WorkerType, Statuses
    <2>o. order' \in OrderType /\ order'.heard
      BY <1>2, <2>t, HeardHasType DEF TimerSaves
    <2>1. RegTypeOK' /\ OrderStands'
      BY <1>2, <2>t, <2>r, <2>o, IdleHasType DEF TimerSaves, RegTypeOK, OrderStands, OrderType, LoopType
    <2>2. ~mishap' => LoopKnows' /\ OneRequest'
      BY <1>2 DEF RegInv, RegTypeOK, TimerSaves, LoopKnows, OneRequest, Beaten, Idle, LoopAway, TimerAway, DeskAway
    <2>3. QED
      BY <2>1, <2>2 DEF RegInv
  <1>3. CASE DeskLoads
    <2>1. RegTypeOK' /\ OrderStands'
      BY <1>3 DEF RegInv, DeskLoads, RegTypeOK, OrderStands, Loaded, Begins, WorkerType
    <2>2. ~mishap' => LoopKnows' /\ OneRequest'
      <3>1. /\ UNCHANGED <<record, held, active, loop, timer>> /\ desk'.copy = record
            /\ mishap' = (mishap \/ ~(LoopAway /\ TimerAway))
        BY <1>3 DEF DeskLoads, Loaded, Begins
      <3>2. QED
        BY <3>1 DEF RegInv, RegTypeOK, LoopKnows, OneRequest, LoopAway, TimerAway, DeskAway
    <2>3. QED
      BY <2>1, <2>2 DEF RegInv
  <1>4. CASE DeskSaves
    <2>1. RegTypeOK' /\ OrderStands'
      BY <1>4 DEF RegInv, DeskSaves, RegTypeOK, OrderStands, StatusOf, Idle, WorkerType, Statuses
    <2>2. ~mishap' => LoopKnows' /\ OneRequest'
      BY <1>4 DEF RegInv, RegTypeOK, WorkerType, DeskSaves, LoopKnows, OneRequest, Idle, LoopAway, TimerAway, DeskAway
    <2>3. QED
      BY <2>1, <2>2 DEF RegInv
  <1>5. QED
    BY <1>1, <1>2, <1>3, <1>4

(* The loop: from one request to the next.                                 *)
LEMMA ClaimSteps ==
  ASSUME RegInv, ClaimLoads \/ ClaimLeases \/ ClaimSaves \/ ClaimHeard \/ LeaseLost
  PROVE  RegInv'
  <1>1. CASE ClaimLoads
    <2>1. RegTypeOK' /\ OrderStands'
      BY <1>1 DEF RegInv, ClaimLoads, RegTypeOK, OrderStands, Loaded, Begins, WorkerType
    <2>2. ~mishap' => LoopKnows' /\ OneRequest'
      <3>1. /\ UNCHANGED <<record, held, active, timer, desk>>
            /\ mishap' = (mishap \/ ~(TimerAway /\ DeskAway))
            /\ loop.at = "none"
            /\ \/ loop' = loop
               \/ loop'.at = "claim" /\ record.status \in {"idle", "online"}
        BY <1>1 DEF ClaimLoads, MayClaim, Loaded, Begins
      <3>2. QED
        BY <3>1 DEF RegInv, RegTypeOK, LoopKnows, OneRequest, LoopAway, TimerAway, DeskAway
    <2>3. QED
      BY <2>1, <2>2 DEF RegInv
  <1>2. CASE ClaimLeases
    <2>1. RegTypeOK' /\ OrderStands'
      BY <1>2 DEF RegInv, ClaimLeases, RegTypeOK, OrderStands
    <2>2. ~mishap' => LoopKnows' /\ OneRequest'
      BY <1>2 DEF RegInv, ClaimLeases, LoopKnows, OneRequest, LoopAway, TimerAway, DeskAway
    <2>3. QED
      BY <2>1, <2>2 DEF RegInv
  <1>3. CASE ClaimSaves
    <2>t. RegTypeOK
      BY DEF RegInv
    <2>r. record' \in WorkerType
      BY <1>3, <2>t DEF ClaimSaves, RegTypeOK, WorkerType, Statuses
    <2>o. order' \in OrderType /\ order'.heard
      BY <1>3, <2>t, HeardHasType DEF ClaimSaves
    <2>1. RegTypeOK' /\ OrderStands'
      BY <1>3, <2>t, <2>r, <2>o, IdleHasType DEF ClaimSaves, RegTypeOK, OrderStands, OrderType, LoopType
    <2>2. ~mishap' => LoopKnows' /\ OneRequest'
      BY <1>3 DEF RegInv, RegTypeOK, ClaimSaves, LoopKnows, OneRequest, Idle, LoopAway, TimerAway, DeskAway
    <2>3. QED
      BY <2>1, <2>2 DEF RegInv
  <1>4. CASE ClaimHeard
    <2>1. RegTypeOK' /\ OrderStands'
      BY <1>4, RegistryAssumption DEF RegInv, ClaimHeard, RegTypeOK, OrderStands, Idle, WorkerType, Statuses
    <2>2. ~mishap' => LoopKnows' /\ OneRequest'
      BY <1>4 DEF RegInv, RegTypeOK, ClaimHeard, LoopKnows, OneRequest, Idle, LoopAway, TimerAway, DeskAway
    <2>3. QED
      BY <2>1, <2>2 DEF RegInv
  <1>5. CASE LeaseLost
    BY <1>5 DEF RegInv, LeaseLost, RegTypeOK, OrderStands
  <1>6. QED
    BY <1>1, <1>2, <1>3, <1>4, <1>5

LEMMA ResultSteps ==
  ASSUME RegInv, ResultLoads \/ ResultSaves \/ RestLoads \/ RestSaves
  PROVE  RegInv'
  <1>1. CASE ResultLoads
    <2>1. RegTypeOK' /\ OrderStands'
      BY <1>1, RegistryAssumption DEF RegInv, ResultLoads, RegTypeOK, OrderStands, Loaded, Begins, Idle, WorkerType, Statuses
    <2>2. ~mishap' => LoopKnows' /\ OneRequest'
      BY <1>1 DEF RegInv, RegTypeOK, ResultLoads, LoopKnows, OneRequest, Loaded, Begins, Idle, LoopAway, TimerAway,
                  DeskAway
    <2>3. QED
      BY <2>1, <2>2 DEF RegInv
  <1>2. CASE ResultSaves
    <2>t. RegTypeOK
      BY DEF RegInv
    <2>r. record' \in WorkerType
      BY <1>2, <2>t DEF ResultSaves, Rested, RegTypeOK, WorkerType, Statuses
    <2>o. order' \in OrderType /\ order'.heard
      BY <1>2, <2>t, HeardHasType DEF ResultSaves
    <2>1. RegTypeOK' /\ OrderStands'
      BY <1>2, <2>t, <2>r, <2>o, IdleHasType DEF ResultSaves, RegTypeOK, OrderStands, OrderType, LoopType
    <2>2. ~mishap' => LoopKnows' /\ OneRequest'
      BY <1>2 DEF RegInv, RegTypeOK, ResultSaves, Rested, LoopKnows, OneRequest, Idle, LoopAway, TimerAway, DeskAway
    <2>3. QED
      BY <2>1, <2>2 DEF RegInv
  <1>3. CASE RestLoads
    <2>1. RegTypeOK' /\ OrderStands'
      BY <1>3 DEF RegInv, RestLoads, RegTypeOK, OrderStands, Loaded, Begins, WorkerType
    <2>2. ~mishap' => LoopKnows' /\ OneRequest'
      BY <1>3 DEF RegInv, RegTypeOK, RestLoads, LoopKnows, OneRequest, Loaded, Begins, LoopAway, TimerAway, DeskAway
    <2>3. QED
      BY <2>1, <2>2 DEF RegInv
  <1>4. CASE RestSaves
    <2>t. RegTypeOK
      BY DEF RegInv
    <2>r. record' \in WorkerType
      BY <1>4, <2>t DEF RestSaves, Beaten, RegTypeOK, WorkerType, Statuses
    <2>o. order' \in OrderType /\ order'.heard
      BY <1>4, <2>t, HeardHasType DEF RestSaves
    <2>1. RegTypeOK' /\ OrderStands'
      BY <1>4, <2>t, <2>r, <2>o, IdleHasType DEF RestSaves, RegTypeOK, OrderStands, OrderType, LoopType
    <2>2. ~mishap' => LoopKnows' /\ OneRequest'
      BY <1>4 DEF RegInv, RegTypeOK, RestSaves, Beaten, LoopKnows, OneRequest, Idle, LoopAway, TimerAway, DeskAway
    <2>3. QED
      BY <2>1, <2>2 DEF RegInv
  <1>5. QED
    BY <1>1, <1>2, <1>3, <1>4

LEMMA RegStepInv == RegInv /\ [RegNext]_regVars => RegInv'
  <1>1. ASSUME RegInv, RegNext PROVE RegInv'
    BY <1>1, TimerSteps, ClaimSteps, ResultSteps, Zenon DEF RegNext
  <1>2. ASSUME RegInv, UNCHANGED regVars PROVE RegInv'
    BY <1>2 DEF RegInv, regVars, RegTypeOK, OrderStands, LoopKnows, OneRequest, LoopAway, TimerAway, DeskAway
  <1>3. QED
    BY <1>1, <1>2

LEMMA RegInvIsTrue == RegInv => RecordIsTrue
  BY DEF RegInv, RegTypeOK, RecordIsTrue, Quiet, LoopKnows, LoopAway

LEMMA StepKeepsOrder == RegInv /\ [RegNext]_regVars => OrderIsKept
  <1> SUFFICES ASSUME RegInv, [RegNext]_regVars, held' # held, held' # NoRegJob, ~mishap'
               PROVE  order.word \notin {"drain", "disable"} \/ order.heard
    BY DEF OrderIsKept
  <1>1. ClaimLeases
    BY DEF RegNext, regVars, TimerLoads, TimerSaves, DeskLoads, DeskSaves, ClaimLoads, ClaimSaves, ClaimHeard,
           LeaseLost, ResultLoads, ResultSaves, RestLoads, RestSaves
  <1>2. QED
    BY <1>1 DEF ClaimLeases, RegInv, LoopKnows, OrderStands

(* Between requests the record of a worker names the job whose lease it    *)
(* holds, for any jobs and any number of changes by the operator.          *)
THEOREM RegistrySafety == RegSpec => []RecordIsTrue
  <1>1. QED
    BY RegInitInv, RegStepInv, RegInvIsTrue, PTL DEF RegSpec

(* A worker that was drained or disabled claims nothing before it is heard *)
(* from again, unless requests overlapped.                                 *)
THEOREM RegistryObeys == RegSpec => [][OrderIsKept]_regVars
  <1>1. RegInv /\ [RegNext]_regVars => [OrderIsKept]_regVars
    BY StepKeepsOrder
  <1>2. QED
    BY <1>1, RegInitInv, RegStepInv, PTL DEF RegSpec

----------------------------------------------------------------------------
(* The files of a run (RunFiles)                                           *)

WriterType ==
    [at : {"off", "running", "files", "index"}, iteration : Nat, making : Nat, left : SUBSET Artifacts,
     then : {"none", "running", "off"}]
IndexType == [applied : Nat, torn : BOOLEAN]
ApplierType ==
    [at : {"none", "reading", "counting", "done"}, iteration : Nat, making : Nat, left : SUBSET Artifacts,
     took : SUBSET Nat, saw : IndexType, clean : BOOLEAN]
Making == [files : [Artifacts -> Nat], manifest : Nat]

FilesTypeOK ==
    /\ written \in [1 .. Iterations -> Making]
    /\ stateFile \in [done : Nat, torn : BOOLEAN] /\ indexFile \in IndexType
    /\ applyEvents \subseteq Appliers /\ since \subseteq applyEvents
    /\ writer \in WriterType /\ makings \in Nat
    /\ applier \in [Appliers -> ApplierType]
    /\ muddled \in BOOLEAN

(* Who writes an iteration's files works on the last making of all.        *)
WriterIsSound ==
    /\ writer.at = "index" => writer.then # "none"
    /\ writer.at = "files" =>
         /\ writer.iteration \in 1 .. Iterations /\ writer.iteration \in dirty
         /\ writer.making = makings /\ makings # 0
         /\ \A f \in Artifacts \ writer.left : written[writer.iteration].files[f] = makings

WrittenIsSound ==
    \A i \in 1 .. Iterations :
        /\ written[i].manifest <= makings
        /\ \A f \in Artifacts : written[i].files[f] <= makings
        /\ written[i].manifest # 0 =>
             /\ \A f \in Artifacts : written[i].files[f] >= written[i].manifest
             /\ i \notin dirty => \A f \in Artifacts : written[i].files[f] = written[i].manifest

(* The iteration of an applier that is clean is as it was when it was      *)
(* chosen, and what was taken of it is of its manifest's making.           *)
ApplierIsSound(a) ==
    /\ IF a.at = "none" THEN a.took = {} ELSE a.iteration \in 1 .. Iterations
    /\ a.at \in {"counting", "done"} => a.left = {}
    /\ (a.at # "none" /\ a.clean) =>
         /\ a.iteration \notin dirty /\ a.making # 0 /\ written[a.iteration].manifest = a.making
         /\ a.took \subseteq {a.making} /\ (a.left # Artifacts => a.took = {a.making})

CountsAreSound ==
    /\ IsFiniteSet(applyEvents) /\ indexFile.applied <= Cardinality(applyEvents)
    /\ indexFile.torn => indexFile.applied = 0
    /\ \A p \in Appliers : applier[p].at = "counting" =>
         p \notin applyEvents /\ applier[p].saw.applied <= Cardinality(applyEvents)
    /\ \A p \in applyEvents : applier[p].at = "done"
    /\ ~muddled =>
         /\ indexFile.applied = Cardinality(since)
         /\ \A p \in Appliers : applier[p].at = "counting" => applier[p].saw = indexFile

FilesInv ==
    /\ FilesTypeOK /\ WriterIsSound /\ WrittenIsSound
    /\ \A p \in Appliers : ApplierIsSound(applier[p])
    /\ CountsAreSound

LEMMA FilesInitInv == FilesInit => FilesInv
  <1> SUFFICES ASSUME FilesInit PROVE FilesInv
    OBVIOUS
  <1>1. NoIndex \in IndexType /\ NoIndex.applied = 0
    BY DEF NoIndex, IndexType
  <1>2. NoApplier \in ApplierType /\ NoApplier.at = "none" /\ NoApplier.took = {}
    BY <1>1 DEF NoApplier, ApplierType
  <1>3. writer \in WriterType /\ writer.at = "running"
    BY DEF FilesInit, NoWriter, WriterType
  <1>4. written \in [1 .. Iterations -> Making]
    BY DEF FilesInit, Making
  <1>5. FilesTypeOK
    BY <1>1, <1>2, <1>3, <1>4 DEF FilesInit, FilesTypeOK, NoStateFile
  <1>6. WriterIsSound /\ WrittenIsSound
    BY <1>3 DEF FilesInit, WriterIsSound, WrittenIsSound
  <1>7. \A p \in Appliers : ApplierIsSound(applier[p])
    BY <1>2 DEF FilesInit, ApplierIsSound
  <1>8. CountsAreSound
    BY <1>1, <1>2, FS_EmptySet DEF FilesInit, CountsAreSound
  <1>9. QED
    BY <1>5, <1>6, <1>7, <1>8 DEF FilesInv

(* The run moves on without its iterations or its index.                   *)
LEMMA WriterMovesOn ==
  ASSUME FilesInv, UNCHANGED <<written, indexFile, applyEvents, makings, applier, dirty, muddled, since>>,
         writer' \in WriterType, stateFile' \in [done : Nat, torn : BOOLEAN],
         writer'.at # "files", writer'.at = "index" => writer'.then # "none"
  PROVE  FilesInv'
  <1>1. FilesTypeOK' /\ WriterIsSound'
    BY DEF FilesInv, FilesTypeOK, WriterIsSound
  <1>2. WrittenIsSound' /\ CountsAreSound' /\ \A p \in Appliers : ApplierIsSound(applier[p])'
    BY DEF FilesInv, WrittenIsSound, CountsAreSound, ApplierIsSound
  <1>3. QED
    BY <1>1, <1>2 DEF FilesInv

LEMMA RunSteps ==
  ASSUME FilesInv, Checkpoint \/ SaveState \/ ResumeFiles
  PROVE  FilesInv'
  <1>t. /\ writer \in WriterType /\ stateFile \in [done : Nat, torn : BOOLEAN]
        /\ NoWriter \in WriterType /\ NoWriter.at = "off"
    BY DEF FilesInv, FilesTypeOK, NoWriter, WriterType
  <1>1. CASE Checkpoint
    <2>1. /\ writer' \in WriterType /\ writer'.at = "index" /\ writer'.then = "running"
          /\ UNCHANGED <<written, stateFile, indexFile, applyEvents, makings, applier, dirty, muddled, since>>
      BY <1>1, <1>t DEF Checkpoint, WriterType
    <2>2. QED
      BY <1>t, <2>1, WriterMovesOn
  <1>2. CASE SaveState
    <2>1. /\ writer' \in WriterType /\ writer'.at = "index" /\ writer'.then = "off"
          /\ stateFile' \in [done : Nat, torn : BOOLEAN]
          /\ UNCHANGED <<written, indexFile, applyEvents, makings, applier, dirty, muddled, since>>
      BY <1>2, <1>t DEF SaveState, WriterType
    <2>2. QED
      BY <2>1, WriterMovesOn
  <1>3. CASE ResumeFiles
    <2>1. PICK last \in Nat : writer' = [NoWriter EXCEPT !.at = "running", !.iteration = last]
      BY <1>3 DEF ResumeFiles
    <2>2. /\ writer' \in WriterType /\ writer'.at = "running"
          /\ UNCHANGED <<written, stateFile, indexFile, applyEvents, makings, applier, dirty, muddled, since>>
      BY <1>3, <1>t, <2>1 DEF ResumeFiles, WriterType
    <2>3. QED
      BY <1>t, <2>2, WriterMovesOn
  <1>4. QED
    BY <1>1, <1>2, <1>3

(* Who applies the iteration that is begun is not clean any more.          *)
LEMMA BeginsIteration ==
  ASSUME FilesInv, BeginIteration
  PROVE  FilesInv'
  <1> DEFINE next == writer.iteration + 1
             clean(p) == applier[p].clean /\ applier[p].iteration # next
  <1>t. /\ FilesTypeOK /\ writer \in WriterType /\ applier \in [Appliers -> ApplierType] /\ makings \in Nat
        /\ Iterations \in Nat \ {0}
    BY RunFilesAssumption DEF FilesInv, FilesTypeOK
  <1>1. /\ writer.iteration < Iterations /\ makings' = makings + 1
        /\ writer' = [writer EXCEPT !.at = "files", !.iteration = @ + 1, !.making = makings', !.left = Artifacts]
        /\ dirty' = dirty \cup {writer'.iteration}
        /\ applier' = [p \in Appliers |-> [applier[p] EXCEPT !.clean = @ /\ applier[p].iteration # writer'.iteration]]
        /\ UNCHANGED <<written, stateFile, indexFile, applyEvents, resumes, muddled, since>>
    BY DEF BeginIteration
  <1>2. /\ writer' \in WriterType /\ writer'.at = "files" /\ writer'.iteration = next /\ writer'.making = makings + 1
        /\ writer'.left = Artifacts /\ next \in 1 .. Iterations
    <2>1. writer.iteration \in Nat /\ next \in 1 .. Iterations /\ makings + 1 \in Nat
      BY <1>1, <1>t DEF WriterType
    <2>2. writer' = [writer EXCEPT !.at = "files", !.iteration = next, !.making = makings + 1, !.left = Artifacts]
      BY <1>1
    <2> HIDE DEF next
    <2>3. next \in Nat
      BY <2>1, <1>t
    <2>4. QED
      BY <1>t, <2>1, <2>2, <2>3 DEF WriterType
  <1>3. applier' = [p \in Appliers |-> [applier[p] EXCEPT !.clean = clean(p)]]
    BY <1>1, <1>2, Zenon
  <1>4. \A p \in Appliers : clean(p) \in BOOLEAN /\ (clean(p) => applier[p].clean /\ applier[p].iteration # next)
    OBVIOUS
  <1> HIDE DEF clean, next
  <1>5. ASSUME NEW p \in Appliers
        PROVE  /\ applier'[p] \in ApplierType /\ applier'[p].at = applier[p].at
               /\ applier'[p].iteration = applier[p].iteration /\ applier'[p].making = applier[p].making
               /\ applier'[p].left = applier[p].left /\ applier'[p].took = applier[p].took
               /\ applier'[p].saw = applier[p].saw
               /\ applier'[p].clean => applier[p].clean /\ applier[p].iteration # next
    BY <1>3, <1>4, <1>t DEF ApplierType
  <1>6. applier' \in [Appliers -> ApplierType]
    BY <1>3, <1>5
  <1>7. FilesTypeOK'
    BY <1>1, <1>2, <1>6, <1>t DEF FilesTypeOK
  <1>8. WriterIsSound'
    BY <1>1, <1>2, <1>t DEF WriterIsSound
  <1>9. WrittenIsSound'
    <2>1. ASSUME NEW i \in 1 .. Iterations
          PROVE  /\ written[i].manifest <= makings + 1
                 /\ \A f \in Artifacts : written[i].files[f] <= makings + 1
      BY <1>t DEF FilesInv, WrittenIsSound, FilesTypeOK, Making
    <2>2. dirty \subseteq dirty'
      BY <1>1
    <2>3. QED
      BY <1>1, <2>1, <2>2 DEF FilesInv, WrittenIsSound
  <1>10. \A p \in Appliers : ApplierIsSound(applier[p])'
    BY <1>1, <1>2, <1>5 DEF FilesInv, ApplierIsSound
  <1>11. CountsAreSound'
    <2>1. \A p \in applyEvents : p \in Appliers /\ applier'[p].at = "done"
      BY <1>5, <1>t DEF FilesInv, CountsAreSound, FilesTypeOK
    <2>2. \A p \in Appliers : applier'[p].at = applier[p].at /\ applier'[p].saw = applier[p].saw
      BY <1>5
    <2>3. QED
      BY <1>1, <2>1, <2>2 DEF FilesInv, CountsAreSound
  <1>12. QED
    BY <1>7, <1>8, <1>9, <1>10, <1>11 DEF FilesInv

(* An iteration that is being made is written: none that is clean.         *)
LEMMA OneIsRewritten ==
  ASSUME FilesInv, NEW n \in 1 .. Iterations, n \in dirty, written' \in [1 .. Iterations -> Making],
         \A i \in (1 .. Iterations) \ {n} : written'[i] = written[i],
         written'[n].manifest <= makings, \A f \in Artifacts : written'[n].files[f] <= makings,
         written'[n].manifest # 0 =>
            \A f \in Artifacts : written'[n].files[f] >= written'[n].manifest /\
                                 (n \notin dirty' => written'[n].files[f] = written'[n].manifest),
         dirty' = dirty \/ dirty' = dirty \ {n}, UNCHANGED <<applier, makings>>
  PROVE  WrittenIsSound' /\ \A p \in Appliers : ApplierIsSound(applier[p])'
  <1>1. WrittenIsSound'
    BY DEF FilesInv, WrittenIsSound
  <1>2. \A p \in Appliers : ApplierIsSound(applier[p])'
    BY DEF FilesInv, ApplierIsSound
  <1>3. QED
    BY <1>1, <1>2

LEMMA WriteFileStep ==
  ASSUME FilesInv, NEW f \in Artifacts, WriteFile(f)
  PROVE  FilesInv'
  <1> DEFINE n == writer.iteration
  <1>t. /\ FilesTypeOK /\ written \in [1 .. Iterations -> Making] /\ writer \in WriterType /\ makings \in Nat
        /\ WriterIsSound
    BY DEF FilesInv, FilesTypeOK
  <1>1. /\ writer.at = "files" /\ f \in writer.left /\ written' = [written EXCEPT ![n].files[f] = writer.making]
        /\ writer' = [writer EXCEPT !.left = @ \ {f}]
        /\ UNCHANGED <<stateFile, indexFile, applyEvents, resumes, makings, applier, dirty, muddled, since>>
    BY DEF WriteFile
  <1>2. n \in 1 .. Iterations /\ n \in dirty /\ writer.making = makings /\ makings # 0
    BY <1>1, <1>t DEF WriterIsSound
  <1>3. /\ writer' \in WriterType /\ writer'.at = "files" /\ writer'.iteration = n /\ writer'.making = writer.making
        /\ writer'.left = writer.left \ {f} /\ writer'.then = writer.then
    BY <1>1, <1>t DEF WriterType
  <1>4. /\ written' \in [1 .. Iterations -> Making] /\ written'[n].manifest = written[n].manifest
        /\ written'[n].files[f] = makings /\ \A g \in Artifacts \ {f} : written'[n].files[g] = written[n].files[g]
        /\ \A i \in (1 .. Iterations) \ {n} : written'[i] = written[i]
    <2>1. written[n] \in Making
      BY <1>2, <1>t
    <2> HIDE DEF n
    <2>2. written' = [written EXCEPT ![n] = [written[n] EXCEPT !.files = [written[n].files EXCEPT ![f] = makings]]]
      BY <1>1, <1>2
    <2>3. QED
      BY <1>2, <1>t, <2>1, <2>2 DEF Making
  <1>5. FilesTypeOK'
    BY <1>1, <1>3, <1>4, <1>t DEF FilesTypeOK
  <1>6. WriterIsSound'
    BY <1>1, <1>2, <1>3, <1>4, <1>t DEF WriterIsSound
  <1>7. /\ written[n].manifest \in Nat /\ written[n].manifest <= makings
        /\ \A g \in Artifacts : written[n].files[g] \in Nat /\ written[n].files[g] <= makings
        /\ written[n].manifest # 0 => \A g \in Artifacts : written[n].files[g] >= written[n].manifest
    BY <1>2, <1>t DEF FilesInv, WrittenIsSound, Making
  <1>8. /\ written'[n].manifest <= makings
        /\ \A g \in Artifacts : written'[n].files[g] <= makings
        /\ written'[n].manifest # 0 => \A g \in Artifacts : written'[n].files[g] >= written'[n].manifest
    <2>1. \A g \in Artifacts : g = f \/ g \in Artifacts \ {f}
      OBVIOUS
    <2> HIDE DEF n
    <2>2. QED
      BY <1>4, <1>7, <1>t, <2>1
  <1>9. WrittenIsSound' /\ \A p \in Appliers : ApplierIsSound(applier[p])'
    <2> HIDE DEF n
    <2>1. QED
      BY <1>1, <1>2, <1>4, <1>8, OneIsRewritten
  <1>10. CountsAreSound'
    BY <1>1 DEF FilesInv, CountsAreSound
  <1>11. QED
    BY <1>5, <1>6, <1>9, <1>10 DEF FilesInv

(* A manifest is written, of the making whose files are all there.         *)
LEMMA ManifestStep ==
  ASSUME FilesInv, WriteManifest
  PROVE  FilesInv'
  <1> DEFINE n == writer.iteration
  <1>t. /\ FilesTypeOK /\ written \in [1 .. Iterations -> Making] /\ writer \in WriterType /\ makings \in Nat
        /\ WriterIsSound
    BY DEF FilesInv, FilesTypeOK
  <1>1. /\ writer.at = "files" /\ writer.left = {} /\ written' = [written EXCEPT ![n].manifest = writer.making]
        /\ writer' = [writer EXCEPT !.at = "index", !.then = "running"] /\ dirty' = dirty \ {n}
        /\ UNCHANGED <<stateFile, indexFile, applyEvents, resumes, makings, applier, muddled, since>>
    BY DEF WriteManifest
  <1>2. /\ n \in 1 .. Iterations /\ n \in dirty /\ writer.making = makings /\ makings # 0
        /\ \A f \in Artifacts : written[n].files[f] = makings
    BY <1>1, <1>t DEF WriterIsSound
  <1>3. writer' \in WriterType /\ writer'.at = "index" /\ writer'.then = "running"
    BY <1>1, <1>t DEF WriterType
  <1>4. /\ written' \in [1 .. Iterations -> Making] /\ written'[n].manifest = makings
        /\ written'[n].files = written[n].files
        /\ \A i \in (1 .. Iterations) \ {n} : written'[i] = written[i]
    <2> HIDE DEF n
    <2>1. QED
      BY <1>1, <1>2, <1>t DEF Making
  <1>5. FilesTypeOK' /\ WriterIsSound'
    BY <1>1, <1>3, <1>4, <1>t DEF FilesTypeOK, WriterIsSound
  <1>6. WrittenIsSound' /\ \A p \in Appliers : ApplierIsSound(applier[p])'
    <2> HIDE DEF n
    <2>1. QED
      BY <1>1, <1>2, <1>4, <1>t, OneIsRewritten
  <1>7. CountsAreSound'
    BY <1>1 DEF FilesInv, CountsAreSound
  <1>8. QED
    BY <1>5, <1>6, <1>7 DEF FilesInv

LEMMA WriterDiesStep ==
  ASSUME FilesInv, WriterDies
  PROVE  FilesInv'
  <1> DEFINE n == writer.iteration
  <1>t. /\ FilesTypeOK /\ written \in [1 .. Iterations -> Making] /\ WriterIsSound /\ WrittenIsSound
        /\ NoWriter \in WriterType /\ NoWriter.at = "off" /\ NoIndex \in IndexType /\ NoIndex.applied = 0
        /\ NoStateFile \in [done : Nat, torn : BOOLEAN] /\ stateFile \in [done : Nat, torn : BOOLEAN]
    BY DEF FilesInv, FilesTypeOK, NoWriter, WriterType, NoIndex, IndexType, NoStateFile
  <1>1. writer' = NoWriter /\ UNCHANGED <<applyEvents, resumes, makings, applier, dirty, since>>
    BY DEF WriterDies
  <1>2. CASE UNCHANGED <<written, indexFile, muddled>> /\ (stateFile' = stateFile \/ stateFile' = NoStateFile)
    BY <1>1, <1>2, <1>t, WriterMovesOn
  <1>3. CASE /\ writer.at = "files" /\ written' = [written EXCEPT ![n].manifest = 0]
             /\ UNCHANGED <<stateFile, indexFile, muddled>>
    <2>1. n \in 1 .. Iterations /\ n \in dirty
      BY <1>3, <1>t DEF WriterIsSound
    <2>2. /\ written' \in [1 .. Iterations -> Making] /\ written'[n].manifest = 0
          /\ written'[n].files = written[n].files
          /\ \A i \in (1 .. Iterations) \ {n} : written'[i] = written[i]
      <3> HIDE DEF n
      <3>1. QED
        BY <1>3, <1>t, <2>1 DEF Making
    <2>3. FilesTypeOK' /\ WriterIsSound'
      BY <1>1, <1>3, <1>t, <2>2 DEF FilesTypeOK, WriterIsSound
    <2>4. 0 <= makings /\ \A f \in Artifacts : written[n].files[f] <= makings
      BY <1>t, <2>1 DEF WrittenIsSound, FilesTypeOK
    <2>5. WrittenIsSound' /\ \A p \in Appliers : ApplierIsSound(applier[p])'
      <3> HIDE DEF n
      <3>1. QED
        BY <1>1, <2>1, <2>2, <2>4, OneIsRewritten
    <2>6. CountsAreSound'
      BY <1>1, <1>3 DEF FilesInv, CountsAreSound
    <2>7. QED
      BY <2>3, <2>5, <2>6 DEF FilesInv
  <1>4. CASE indexFile' = NoIndex /\ muddled' = TRUE /\ UNCHANGED <<written, stateFile>>
    <2>1. FilesTypeOK' /\ WriterIsSound'
      BY <1>1, <1>4, <1>t DEF FilesTypeOK, WriterIsSound
    <2>2. WrittenIsSound' /\ \A p \in Appliers : ApplierIsSound(applier[p])'
      BY <1>1, <1>4 DEF FilesInv, WrittenIsSound, ApplierIsSound
    <2>3. Cardinality(applyEvents) \in Nat
      BY FS_CardinalityType DEF FilesInv, CountsAreSound
    <2>4. CountsAreSound'
      BY <1>1, <1>4, <1>t, <2>3 DEF FilesInv, CountsAreSound
    <2>5. QED
      BY <2>1, <2>2, <2>4 DEF FilesInv
  <1>5. QED
    BY <1>2, <1>3, <1>4 DEF WriterDies

(* The index is written anew: what was applied is not in it any more.      *)
LEMMA IndexWriteStep ==
  ASSUME FilesInv, WriteIndex
  PROVE  FilesInv'
  <1>t. FilesTypeOK /\ writer \in WriterType /\ WriterIsSound
    BY DEF FilesInv, FilesTypeOK
  <1>1. /\ writer.at = "index" /\ indexFile' = [applied |-> 0, torn |-> FALSE]
        /\ writer' = [writer EXCEPT !.at = writer.then] /\ since' = {}
        /\ muddled' = \E p \in Appliers : applier[p].at = "counting"
        /\ UNCHANGED <<written, stateFile, applyEvents, resumes, makings, applier, dirty>>
    BY DEF WriteIndex
  <1>2. writer' \in WriterType /\ writer'.at \in {"running", "off"}
    BY <1>1, <1>t DEF WriterType, WriterIsSound
  <1>3. muddled' \in BOOLEAN /\ (~muddled' => \A p \in Appliers : applier[p].at # "counting")
    BY <1>1, Zenon
  <1>4. indexFile' \in IndexType /\ indexFile'.applied = 0
    BY <1>1 DEF IndexType
  <1>5. FilesTypeOK' /\ WriterIsSound'
    BY <1>1, <1>2, <1>3, <1>4, <1>t DEF FilesTypeOK, WriterIsSound
  <1>6. WrittenIsSound' /\ \A p \in Appliers : ApplierIsSound(applier[p])'
    BY <1>1 DEF FilesInv, WrittenIsSound, ApplierIsSound
  <1>7. CountsAreSound'
    <2>1. Cardinality(applyEvents) \in Nat /\ Cardinality({}) = 0
      BY FS_CardinalityType, FS_EmptySet DEF FilesInv, CountsAreSound
    <2>2. QED
      BY <1>1, <1>3, <1>4, <2>1 DEF FilesInv, CountsAreSound
  <1>8. QED
    BY <1>5, <1>6, <1>7 DEF FilesInv

(* Only an applier's record is replaced, and nothing is counted.           *)
LEMMA ApplierMovesOn ==
  ASSUME FilesInv, NEW p \in Appliers, NEW new \in ApplierType, applier' = [applier EXCEPT ![p] = new],
         applier[p].at # "done", ApplierIsSound(new),
         new.at = "counting" => new.saw = indexFile /\ applier[p].at # "counting", new.at # "done",
         UNCHANGED <<written, stateFile, indexFile, applyEvents, writer, makings, dirty, muddled, since>>
  PROVE  FilesInv'
  <1>t. FilesTypeOK /\ applier \in [Appliers -> ApplierType]
    BY DEF FilesInv, FilesTypeOK
  <1>1. /\ applier' \in [Appliers -> ApplierType] /\ applier'[p] = new
        /\ \A q \in Appliers \ {p} : applier'[q] = applier[q]
    BY <1>t
  <1>2. FilesTypeOK' /\ WriterIsSound' /\ WrittenIsSound'
    BY <1>1, <1>t DEF FilesInv, FilesTypeOK, WriterIsSound, WrittenIsSound
  <1>3. ASSUME NEW q \in Appliers PROVE ApplierIsSound(applier[q])'
    BY <1>1 DEF FilesInv, ApplierIsSound
  <1>4. CountsAreSound'
    <2>1. p \notin applyEvents
      BY DEF FilesInv, CountsAreSound
    <2>2. ASSUME NEW q \in Appliers, applier'[q].at = "counting"
          PROVE  /\ q \notin applyEvents /\ applier'[q].saw.applied <= Cardinality(applyEvents)
                 /\ ~muddled => applier'[q].saw = indexFile
      <3>1. CASE q = p
        BY <1>1, <2>1, <2>2, <3>1 DEF FilesInv, CountsAreSound
      <3>2. CASE q # p
        BY <1>1, <2>2, <3>2 DEF FilesInv, CountsAreSound
      <3>3. QED
        BY <3>1, <3>2
    <2>3. \A q \in applyEvents : applier'[q].at = "done"
      BY <1>1, <1>t, <2>1 DEF FilesInv, CountsAreSound, FilesTypeOK
    <2>4. QED
      BY <2>2, <2>3 DEF FilesInv, CountsAreSound
  <1>5. QED
    BY <1>2, <1>3, <1>4 DEF FilesInv

LEMMA ReadSteps ==
  ASSUME FilesInv, NEW p \in Appliers, ReadManifest(p) \/ (\E f \in Artifacts : ReadFile(p, f)) \/ ReadIndex(p)
  PROVE  FilesInv'
  <1>t. /\ FilesTypeOK /\ applier[p] \in ApplierType /\ written \in [1 .. Iterations -> Making]
        /\ ApplierIsSound(applier[p]) /\ indexFile \in IndexType /\ WrittenIsSound
    BY DEF FilesInv, FilesTypeOK
  <1>1. CASE ReadManifest(p)
    <2>1. PICK i \in 1 .. Iterations :
            /\ written[i].manifest # 0
            /\ applier' = [applier EXCEPT ![p] = [@ EXCEPT !.at = "reading", !.iteration = i, !.left = Artifacts,
                             !.making = written[i].manifest, !.clean = i \notin dirty]]
      BY <1>1 DEF ReadManifest
    <2> DEFINE clean == i \notin dirty
               new == [applier[p] EXCEPT !.at = "reading", !.iteration = i, !.left = Artifacts,
                         !.making = written[i].manifest, !.clean = clean]
    <2>2. applier' = [applier EXCEPT ![p] = new] /\ clean \in BOOLEAN /\ (clean => i \notin dirty)
      BY <2>1
    <2> HIDE DEF clean
    <2>3. /\ new \in ApplierType /\ new.at = "reading" /\ new.iteration = i /\ new.left = Artifacts
          /\ new.making = written[i].manifest /\ new.clean = clean /\ new.took = applier[p].took
      <3>1. i \in Nat /\ written[i].manifest \in Nat /\ clean \in BOOLEAN /\ applier[p] \in ApplierType
        BY <1>t, <2>2, RunFilesAssumption DEF Making
      <3>2. QED
        BY <3>1 DEF ApplierType
    <2> HIDE DEF new
    <2>4. applier[p].took = {}
      BY <1>1, <1>t DEF ApplierIsSound, ReadManifest
    <2>5. ApplierIsSound(new)
      BY <2>1, <2>2, <2>3, <2>4 DEF ApplierIsSound
    <2>6. QED
      BY <1>1, <2>2, <2>3, <2>5, ApplierMovesOn DEF ReadManifest
  <1>2. ASSUME NEW f \in Artifacts, ReadFile(p, f)
        PROVE  FilesInv'
    <2> DEFINE took == applier[p].took \cup {written[applier[p].iteration].files[f]}
               new == [applier[p] EXCEPT !.left = @ \ {f}, !.took = took]
    <2>1. /\ applier[p].at = "reading" /\ f \in applier[p].left /\ applier' = [applier EXCEPT ![p] = new]
          /\ UNCHANGED <<written, stateFile, indexFile, applyEvents, writer, makings, dirty, muddled, since>>
      BY <1>2 DEF ReadFile
    <2>2. took \in SUBSET Nat /\ (applier[p].clean => took = {applier[p].making})
      BY <1>2, <1>t, <2>1 DEF ApplierIsSound, WrittenIsSound, ApplierType, Making
    <2> HIDE DEF took
    <2>3. /\ new \in ApplierType /\ new.at = "reading" /\ new.iteration = applier[p].iteration
          /\ new.making = applier[p].making /\ new.clean = applier[p].clean /\ new.took = took
      BY <1>t, <2>1, <2>2 DEF ApplierType
    <2> HIDE DEF new
    <2>4. ApplierIsSound(new)
      BY <1>t, <2>1, <2>2, <2>3 DEF ApplierIsSound
    <2>5. QED
      BY <2>1, <2>3, <2>4, ApplierMovesOn
  <1>3. CASE ReadIndex(p)
    <2> DEFINE new == [applier[p] EXCEPT !.at = "counting", !.saw = indexFile]
    <2>1. /\ applier[p].at = "reading" /\ applier[p].left = {} /\ applier' = [applier EXCEPT ![p] = new]
          /\ UNCHANGED <<written, stateFile, indexFile, applyEvents, writer, makings, dirty, muddled, since>>
      BY <1>3 DEF ReadIndex
    <2>2. /\ new \in ApplierType /\ new.at = "counting" /\ new.iteration = applier[p].iteration
          /\ new.making = applier[p].making /\ new.clean = applier[p].clean /\ new.took = applier[p].took
          /\ new.left = {} /\ new.saw = indexFile
      BY <1>t, <2>1 DEF ApplierType
    <2> HIDE DEF new
    <2>3. ApplierIsSound(new)
      BY <1>t, <2>1, <2>2 DEF ApplierIsSound
    <2>4. QED
      BY <2>1, <2>2, <2>3, ApplierMovesOn
  <1>4. QED
    BY <1>1, <1>2, <1>3

(* One more is counted, by what it read of the index.                      *)
LEMMA CountStep ==
  ASSUME FilesInv, NEW p \in Appliers, CountApply(p)
  PROVE  FilesInv'
  <1> DEFINE saw == applier[p].saw
             count == (IF Known(saw) THEN saw.applied ELSE 0) + 1
             new == [applier[p] EXCEPT !.at = "done"]
  <1>t. /\ FilesTypeOK /\ applier \in [Appliers -> ApplierType] /\ ApplierIsSound(applier[p])
        /\ saw \in IndexType /\ CountsAreSound
    BY DEF FilesInv, FilesTypeOK, ApplierType
  <1>1. /\ applier[p].at = "counting" /\ applyEvents' = applyEvents \cup {p}
        /\ indexFile' = [applied |-> count, torn |-> FALSE] /\ applier' = [applier EXCEPT ![p] = new]
        /\ muddled' = (muddled \/ \E q \in Appliers \ {p} : applier[q].at = "counting")
        /\ since' = since \cup {p} /\ UNCHANGED <<written, stateFile, writer, resumes, makings, dirty>>
    BY DEF CountApply
  <1>2. /\ new \in ApplierType /\ new.at = "done" /\ new.left = applier[p].left /\ new.iteration = applier[p].iteration
        /\ new.making = applier[p].making /\ new.clean = applier[p].clean /\ new.took = applier[p].took
    BY <1>t DEF ApplierType
  <1> HIDE DEF new
  <1>3. /\ applier' \in [Appliers -> ApplierType] /\ applier'[p] = new
        /\ \A q \in Appliers \ {p} : applier'[q] = applier[q]
    BY <1>1, <1>2, <1>t
  <1>4. /\ count \in Nat /\ count <= saw.applied + 1
        /\ Known(saw) => count = saw.applied + 1
        /\ ~Known(saw) => count = 1
    <2>1. saw.applied \in Nat
      BY <1>t DEF IndexType
    <2> HIDE DEF saw
    <2>2. QED
      BY <2>1
  <1> HIDE DEF count
  <1>5. indexFile' \in IndexType /\ indexFile'.applied = count /\ indexFile'.torn = FALSE
    BY <1>1, <1>4 DEF IndexType
  <1>6. /\ muddled' \in BOOLEAN
        /\ ~muddled' => ~muddled /\ \A q \in Appliers \ {p} : applier[q].at # "counting"
    BY <1>1, Zenon
  <1>7. FilesTypeOK'
    BY <1>1, <1>3, <1>5, <1>6, <1>t DEF FilesTypeOK
  <1>8. WriterIsSound' /\ WrittenIsSound'
    BY <1>1 DEF FilesInv, WriterIsSound, WrittenIsSound
  <1>9. ASSUME NEW q \in Appliers PROVE ApplierIsSound(applier[q])'
    <2>1. CASE q = p
      BY <1>1, <1>2, <1>3, <1>t, <2>1 DEF ApplierIsSound
    <2>2. CASE q # p
      BY <1>1, <1>3, <2>2 DEF FilesInv, ApplierIsSound
    <2>3. QED
      BY <2>1, <2>2
  <1>10. /\ p \notin applyEvents /\ IsFiniteSet(applyEvents) /\ IsFiniteSet(since) /\ p \notin since
         /\ saw.applied <= Cardinality(applyEvents) /\ saw.applied \in Nat
    <2>1. IsFiniteSet(since)
      BY <1>t, FS_Subset DEF CountsAreSound, FilesTypeOK
    <2>2. QED
      BY <1>1, <1>t, <2>1 DEF CountsAreSound, FilesTypeOK, IndexType
  <1>11. /\ IsFiniteSet(applyEvents') /\ Cardinality(applyEvents') = Cardinality(applyEvents) + 1
         /\ Cardinality(since') = Cardinality(since) + 1 /\ Cardinality(applyEvents) \in Nat
    BY <1>1, <1>10, FS_AddElement, FS_CardinalityType
  <1>12. indexFile'.applied <= Cardinality(applyEvents')
    BY <1>4, <1>5, <1>10, <1>11
  <1>13. ASSUME NEW q \in Appliers, applier'[q].at = "counting"
         PROVE  /\ q \notin applyEvents' /\ applier'[q].saw.applied <= Cardinality(applyEvents') /\ muddled'
    <2>1. q # p /\ applier'[q] = applier[q]
      BY <1>2, <1>3, <1>13
    <2>2. applier[q].saw.applied \in Nat
      BY <1>t DEF ApplierType, IndexType
    <2>3. QED
      BY <1>1, <1>6, <1>11, <1>13, <1>t, <2>1, <2>2 DEF CountsAreSound
  <1>14. \A q \in applyEvents' : applier'[q].at = "done"
    BY <1>1, <1>2, <1>3, <1>t DEF CountsAreSound, FilesTypeOK
  <1>15. ~muddled' => indexFile'.applied = Cardinality(since')
    <2> SUFFICES ASSUME ~muddled' PROVE count = Cardinality(since) + 1
      BY <1>5, <1>11
    <2>1. saw = indexFile /\ indexFile.applied = Cardinality(since) /\ (indexFile.torn => indexFile.applied = 0)
      BY <1>1, <1>6, <1>t DEF CountsAreSound
    <2>2. indexFile.torn \in BOOLEAN
      BY <1>t DEF FilesTypeOK, IndexType
    <2>3. QED
      <3>1. ~Known(indexFile) => indexFile.applied = 0
        BY <2>1, <2>2 DEF Known
      <3>2. QED
        BY <1>4, <2>1, <3>1
  <1>16. CountsAreSound'
    BY <1>5, <1>11, <1>12, <1>13, <1>14, <1>15 DEF CountsAreSound
  <1>17. QED
    BY <1>7, <1>8, <1>9, <1>16 DEF FilesInv

LEMMA FilesStepInv == FilesInv /\ [FilesNext]_filesVars => FilesInv'
  <1> SUFFICES ASSUME FilesInv, [FilesNext]_filesVars PROVE FilesInv'
    OBVIOUS
  <1>1. CASE FilesNext
    BY <1>1, RunSteps, BeginsIteration, WriteFileStep, ManifestStep, WriterDiesStep, IndexWriteStep, ReadSteps, CountStep
    DEF FilesNext
  <1>2. CASE UNCHANGED filesVars
    BY <1>2 DEF filesVars, FilesInv, FilesTypeOK, WriterIsSound, WrittenIsSound, ApplierIsSound, CountsAreSound
  <1>3. QED
    BY <1>1, <1>2

LEMMA ReadableAsTold == FilesInv => RunIsReadable
  <1> SUFFICES ASSUME FilesInv PROVE RunIsReadable
    OBVIOUS
  <1>1. AppliedIsWhole
    BY DEF FilesInv, ApplierIsSound, AppliedIsWhole, Artifacts
  <1>2. ManifestIsLast /\ AppliesAreCounted
    BY DEF FilesInv, WrittenIsSound, CountsAreSound, ManifestIsLast, AppliesAreCounted
  <1>3. QED
    BY <1>1, <1>2 DEF RunIsReadable

(* artifact-persistence.ts and artifact-apply.ts: a manifest tells of      *)
(* files that are all there wherever the run died; who applies an          *)
(* iteration that is not done again meanwhile takes what its manifest      *)
(* tells of; and the index counts who applied, unless it was overwritten.  *)
THEOREM FilesSafety == FilesSpec => []RunIsReadable
  <1>1. QED
    BY FilesInitInv, FilesStepInv, ReadableAsTold, PTL DEF FilesSpec

----------------------------------------------------------------------------
(* The audit log and the registry of repositories (ServerFiles)            *)

(* What a cleanup keeps of a log                                           *)

Event == [by : Askers, day : Nat]
Chronicle == Seq(Event)

Sorted(events) == \A p, q \in 1 .. Len(events) : p < q => events[p].day <= events[q].day
Distinct(events) == \A p, q \in 1 .. Len(events) : events[p] = events[q] => p = q

(* What is young in the first i events.                                    *)
Filters(f, events, i) ==
    /\ f[0] = <<>>
    /\ \A k \in 1 .. i : f[k] = IF IsYoung(events[k]) THEN Append(f[k - 1], events[k]) ELSE f[k - 1]

(* What was kept is in the order of what there was, and all that is young. *)
KeepsYoung(kept, events, i) ==
    /\ kept \in Chronicle
    /\ \A p \in 1 .. Len(kept) : \E a \in 1 .. i : kept[p] = events[a] /\ IsYoung(events[a])
    /\ \A p, q \in 1 .. Len(kept) : p < q => \E a, b \in 1 .. i : a < b /\ kept[p] = events[a] /\ kept[q] = events[b]
    /\ \A a \in 1 .. i : IsYoung(events[a]) => \E p \in 1 .. Len(kept) : kept[p] = events[a]
    /\ (\A a \in 1 .. i : IsYoung(events[a])) => Len(kept) = i /\ \A a \in 1 .. i : kept[a] = events[a]

(* There is a filtering of the first events, for each number of them.      *)
LEMMA FilterExists ==
  ASSUME NEW events \in Chronicle, NEW i \in 0 .. Len(events)
  PROVE  \E f : f = [k \in 0 .. i |-> f[k]] /\ Filters(f, events, i)
  <1> DEFINE HasFilter(n) == \E f : f = [k \in 0 .. n |-> f[k]] /\ Filters(f, events, n)
             S == {n \in 0 .. Len(events) : ~HasFilter(n)}
  <1>1. Len(events) \in Nat
    BY DEF Chronicle
  <1> SUFFICES ASSUME i \in S PROVE FALSE
    OBVIOUS
  <1>2. S \in SUBSET Nat /\ S # {}
    BY <1>1
  <1>3. PICK n \in S : \A m \in S : n <= m
    BY <1>2, LeastNumber
  <1>4. n \in Nat /\ n <= Len(events) /\ ~HasFilter(n)
    BY <1>1, <1>3
  <1>5. n # 0
    <2>1. ASSUME n = 0 PROVE HasFilter(0)
      <3> DEFINE f == [k \in 0 .. 0 |-> <<>>]
      <3>1. f = [k \in 0 .. 0 |-> f[k]] /\ f[0] = <<>> /\ 1 .. 0 = {}
        OBVIOUS
      <3> HIDE DEF f
      <3>2. Filters(f, events, 0)
        BY <3>1 DEF Filters
      <3>3. QED
        BY <3>1, <3>2
    <2>2. QED
      BY <1>4, <2>1
  <1>6. n - 1 \in 0 .. Len(events) /\ n - 1 \notin S
    BY <1>1, <1>3, <1>4, <1>5
  <1>7. PICK f : f = [k \in 0 .. n - 1 |-> f[k]] /\ Filters(f, events, n - 1)
    BY <1>6
  <1> DEFINE last == IF IsYoung(events[n]) THEN Append(f[n - 1], events[n]) ELSE f[n - 1]
             g == [k \in 0 .. n |-> IF k = n THEN last ELSE f[k]]
  <1>8. /\ g = [k \in 0 .. n |-> g[k]] /\ g[n] = last
        /\ \A k \in 0 .. n - 1 : g[k] = f[k]
    BY <1>4, <1>5
  <1>9. g[n] = IF IsYoung(events[n]) THEN Append(g[n - 1], events[n]) ELSE g[n - 1]
    <2>1. g[n - 1] = f[n - 1]
      BY <1>4, <1>5, <1>8
    <2>2. QED
      BY <1>8, <2>1, Zenon
  <1> HIDE DEF g, last
  <1>10. Filters(g, events, n)
    <2>1. g[0] = <<>>
      BY <1>4, <1>5, <1>7, <1>8 DEF Filters
    <2>2. ASSUME NEW k \in 1 .. n
          PROVE  g[k] = IF IsYoung(events[k]) THEN Append(g[k - 1], events[k]) ELSE g[k - 1]
      <3>1. CASE k = n
        BY <1>9, <3>1
      <3>2. CASE k # n
        <4>1. k \in 1 .. n - 1 /\ k \in 0 .. n - 1 /\ k - 1 \in 0 .. n - 1
          BY <1>4, <2>2, <3>2
        <4>2. f[k] = IF IsYoung(events[k]) THEN Append(f[k - 1], events[k]) ELSE f[k - 1]
          BY <1>7, <4>1 DEF Filters
        <4>3. g[k] = f[k] /\ g[k - 1] = f[k - 1]
          BY <1>8, <4>1
        <4>4. QED
          BY <4>2, <4>3
      <3>3. QED
        BY <3>1, <3>2
    <2>3. QED
      BY <2>1, <2>2 DEF Filters
  <1>11. HasFilter(n)
    BY <1>8, <1>10
  <1>12. QED
    BY <1>4, <1>11

LEMMA KeepsOneMore ==
  ASSUME day \in Nat, NEW events \in Chronicle, NEW i \in 1 .. Len(events), NEW old,
         KeepsYoung(old, events, i - 1)
  PROVE  KeepsYoung(IF IsYoung(events[i]) THEN Append(old, events[i]) ELSE old, events, i)
  <1> DEFINE n == Len(old)
             event == events[i]
  <1>1. /\ old \in Chronicle /\ event \in Event /\ i \in Nat \ {0} /\ n \in Nat
        /\ \A a \in 1 .. i - 1 : a \in 1 .. i /\ a < i
        /\ \A a \in 1 .. i : a = i \/ a \in 1 .. i - 1
    BY DEF KeepsYoung, Chronicle
  <1>2. /\ \A p \in 1 .. n : \E a \in 1 .. i - 1 : old[p] = events[a] /\ IsYoung(events[a])
        /\ \A p, q \in 1 .. n : p < q =>
             \E a, b \in 1 .. i - 1 : a < b /\ old[p] = events[a] /\ old[q] = events[b]
        /\ \A a \in 1 .. i - 1 : IsYoung(events[a]) => \E p \in 1 .. n : old[p] = events[a]
        /\ (\A a \in 1 .. i - 1 : IsYoung(events[a])) => n = i - 1 /\ \A a \in 1 .. i - 1 : old[a] = events[a]
    BY DEF KeepsYoung
  <1>3. CASE IsYoung(event)
    <2> DEFINE new == Append(old, event)
    <2>1. /\ new \in Chronicle /\ Len(new) = n + 1 /\ new[n + 1] = event
          /\ \A p \in 1 .. n : new[p] = old[p]
          /\ \A p \in 1 .. n + 1 : p = n + 1 \/ p \in 1 .. n
          /\ \A p \in 1 .. n : p \in 1 .. n + 1 /\ ~(n + 1 < p)
          /\ n + 1 \in 1 .. n + 1 /\ ~(n + 1 < n + 1)
      BY <1>1 DEF Chronicle
    <2>2. i \in 1 .. i /\ event = events[i]
      BY <1>1
    <2> HIDE DEF new, event, n
    <2>3. \A p \in 1 .. n + 1 : \E a \in 1 .. i : new[p] = events[a] /\ IsYoung(events[a])
      <3>1. ASSUME NEW p \in 1 .. n + 1 PROVE \E a \in 1 .. i : new[p] = events[a] /\ IsYoung(events[a])
        <4>1. CASE p = n + 1
          BY <1>3, <2>1, <2>2, <4>1
        <4>2. CASE p \in 1 .. n
          <5>1. PICK a \in 1 .. i - 1 : old[p] = events[a] /\ IsYoung(events[a])
            BY <1>2, <4>2
          <5>2. a \in 1 .. i /\ new[p] = old[p]
            BY <1>1, <2>1, <4>2
          <5>3. QED
            BY <5>1, <5>2
        <4>3. QED
          BY <2>1, <4>1, <4>2
      <3>2. QED
        BY <3>1
    <2>4. ASSUME NEW p \in 1 .. n + 1, NEW q \in 1 .. n + 1, p < q
          PROVE  \E a, b \in 1 .. i : a < b /\ new[p] = events[a] /\ new[q] = events[b]
      <3>1. p \in 1 .. n
        BY <2>1, <2>4
      <3>2. CASE q = n + 1
        <4>1. PICK a \in 1 .. i - 1 : old[p] = events[a]
          BY <1>2, <3>1
        <4>2. a \in 1 .. i /\ a < i /\ new[p] = events[a]
          BY <1>1, <2>1, <3>1, <4>1
        <4>3. QED
          BY <2>1, <2>2, <3>2, <4>2
      <3>3. CASE q \in 1 .. n
        <4>1. PICK a \in 1 .. i - 1, b \in 1 .. i - 1 : a < b /\ old[p] = events[a] /\ old[q] = events[b]
          BY <1>2, <2>4, <3>1, <3>3
        <4>2. a \in 1 .. i /\ b \in 1 .. i /\ new[p] = old[p] /\ new[q] = old[q]
          BY <1>1, <2>1, <3>1, <3>3, <4>1
        <4>3. QED
          BY <4>1, <4>2
      <3>4. QED
        BY <2>1, <3>2, <3>3
    <2>5. ASSUME NEW a \in 1 .. i, IsYoung(events[a]) PROVE \E p \in 1 .. n + 1 : new[p] = events[a]
      <3>1. CASE a = i
        BY <2>1, <2>2, <3>1
      <3>2. CASE a \in 1 .. i - 1
        <4>1. PICK p \in 1 .. n : old[p] = events[a]
          BY <1>2, <2>5, <3>2
        <4>2. p \in 1 .. n + 1 /\ new[p] = old[p]
          BY <2>1
        <4>3. QED
          BY <4>1, <4>2
      <3>3. QED
        BY <1>1, <3>1, <3>2
    <2>6. ASSUME \A a \in 1 .. i : IsYoung(events[a])
          PROVE  n + 1 = i /\ \A a \in 1 .. i : new[a] = events[a]
      <3>1. n = i - 1 /\ \A a \in 1 .. i - 1 : old[a] = events[a]
        BY <1>1, <1>2, <2>6
      <3>2. n + 1 = i
        BY <1>1, <3>1
      <3>3. ASSUME NEW a \in 1 .. i PROVE new[a] = events[a]
        <4>1. CASE a = i
          BY <2>1, <2>2, <3>2, <4>1
        <4>2. CASE a \in 1 .. i - 1
          BY <2>1, <3>1, <4>2
        <4>3. QED
          BY <1>1, <4>1, <4>2
      <3>4. QED
        BY <3>2, <3>3
    <2>7. KeepsYoung(new, events, i)
      BY <2>1, <2>3, <2>4, <2>5, <2>6 DEF KeepsYoung
    <2>8. QED
      BY <1>3, <2>7 DEF new, event
  <1>4. CASE ~IsYoung(event)
    <2>1. ~IsYoung(events[i]) /\ i \in 1 .. i
      BY <1>1, <1>4
    <2> HIDE DEF event
    <2>2. KeepsYoung(old, events, i)
      <3>1. \A p \in 1 .. Len(old) : \E a \in 1 .. i : old[p] = events[a] /\ IsYoung(events[a])
        BY <1>1, <1>2
      <3>2. \A p, q \in 1 .. Len(old) : p < q => \E a, b \in 1 .. i : a < b /\ old[p] = events[a] /\ old[q] = events[b]
        BY <1>1, <1>2
      <3>3. \A a \in 1 .. i : IsYoung(events[a]) => \E p \in 1 .. Len(old) : old[p] = events[a]
        BY <1>1, <1>2, <2>1
      <3>4. ~ \A a \in 1 .. i : IsYoung(events[a])
        BY <2>1
      <3>5. QED
        BY <1>1, <3>1, <3>2, <3>3, <3>4 DEF KeepsYoung
    <2>3. QED
      BY <2>1, <2>2
  <1>5. QED
    BY <1>3, <1>4

(* The filtering that runRetentionCleanup does, to its end.                *)
LEMMA YoungSays ==
  ASSUME day \in Nat, NEW events \in Chronicle
  PROVE  KeepsYoung(Young(events), events, Len(events))
  <1> DEFINE n == Len(events)
             Step(f, k) == IF k = 0 THEN <<>>
                           ELSE IF IsYoung(events[k]) THEN Append(f[k - 1], events[k]) ELSE f[k - 1]
             young == CHOOSE f : f = [k \in 0 .. n |-> Step(f, k)]
  <1>1. n \in Nat
    BY DEF Chronicle
  <1>2. Young(events) = young[n]
    BY Zenon DEF Young
  <1>3. PICK f : f = [k \in 0 .. n |-> f[k]] /\ Filters(f, events, n)
    BY <1>1, FilterExists
  <1>4. f = [k \in 0 .. n |-> Step(f, k)]
    <2>1. \A k \in 0 .. n : k = 0 \/ k \in 1 .. n
      BY <1>1
    <2>2. ASSUME NEW k \in 0 .. n PROVE f[k] = Step(f, k)
      <3>1. CASE k = 0
        BY <1>3, <3>1 DEF Filters
      <3>2. CASE k # 0
        <4>1. f[k] = IF IsYoung(events[k]) THEN Append(f[k - 1], events[k]) ELSE f[k - 1]
          BY <1>3, <2>1, <3>2, Zenon DEF Filters
        <4>2. QED
          BY <3>2, <4>1
      <3>3. QED
        BY <3>1, <3>2
    <2> HIDE DEF Step
    <2>3. QED
      BY <1>3, <2>2
  <1>5. young = [k \in 0 .. n |-> Step(young, k)]
    <2> HIDE DEF Step
    <2>1. QED
      BY <1>4, Zenon
  <1> HIDE DEF young
  <1>6. /\ young[0] = <<>>
        /\ \A k \in 1 .. n : young[k] = IF IsYoung(events[k]) THEN Append(young[k - 1], events[k]) ELSE young[k - 1]
    <2>1. \A k \in 0 .. n : young[k] = Step(young, k)
      <3> HIDE DEF Step
      <3>1. QED
        BY <1>5
    <2>2. 0 \in 0 .. n /\ \A k \in 1 .. n : k \in 0 .. n /\ k # 0
      BY <1>1
    <2>3. QED
      BY <2>1, <2>2
  <1> HIDE DEF Step
  <1> DEFINE S == {k \in 0 .. n : ~KeepsYoung(young[k], events, k)}
  <1>7. S = {}
    <2> SUFFICES ASSUME S # {} PROVE FALSE
      OBVIOUS
    <2>1. S \in SUBSET Nat
      BY <1>1
    <2>2. PICK k \in S : \A m \in S : k <= m
      BY <2>1, LeastNumber
    <2>3. k \in 0 .. n /\ k \in Nat /\ ~KeepsYoung(young[k], events, k)
      BY <1>1, <2>2
    <2>4. k # 0
      <3>1. <<>> \in Chronicle /\ Len(<<>>) = 0 /\ 1 .. 0 = {}
        BY EmptySeq DEF Chronicle
      <3>2. KeepsYoung(<<>>, events, 0)
        BY <3>1 DEF KeepsYoung
      <3>3. QED
        BY <1>6, <2>3, <3>2
    <2>5. k - 1 \in 0 .. n /\ k - 1 \notin S /\ k \in 1 .. n
      BY <1>1, <2>2, <2>3, <2>4
    <2>6. KeepsYoung(young[k - 1], events, k - 1)
      BY <2>5
    <2>7. KeepsYoung(young[k], events, k)
      <3>1. KeepsYoung(IF IsYoung(events[k]) THEN Append(young[k - 1], events[k]) ELSE young[k - 1], events, k)
        BY <2>5, <2>6, KeepsOneMore
      <3>2. QED
        BY <1>6, <2>5, <3>1
    <2>8. QED
      BY <2>3, <2>7
  <1>8. QED
    BY <1>1, <1>2, <1>7

----------------------------------------------------------------------------
(* A list that has what is to be kept of the known                          *)

(* A list of events is of what was logged, in order, each once, and has    *)
(* all that is to be kept but what was lost.                               *)
Faithful(events, known, today, lost) ==
    /\ \A p \in 1 .. Len(events) : events[p] \in known
    /\ Sorted(events) /\ Distinct(events)
    /\ \A e \in known : today - e.day <= KeptDays => e \in lost \/ \E p \in 1 .. Len(events) : events[p] = e

LEMMA FaithfulStays ==
  ASSUME NEW events, NEW known \in SUBSET Event, NEW today \in Nat, NEW later \in Nat, NEW lost, NEW more,
         today <= later, lost \subseteq more, Faithful(events, known, today, lost)
  PROVE  Faithful(events, known, later, more)
  <1>1. KeptDays \in Nat /\ \A e \in known : e.day \in Nat
    BY ServerFilesAssumption DEF Event
  <1>2. \A e \in known : later - e.day <= KeptDays => today - e.day <= KeptDays
    BY <1>1
  <1>3. QED
    BY <1>2 DEF Faithful

LEMMA FaithfulMisses ==
  ASSUME NEW events, NEW known, NEW today, NEW lost, NEW event, Faithful(events, known, today, lost)
  PROVE  Faithful(events, known \cup {event}, today, lost \cup {event})
  BY DEF Faithful

LEMMA FaithfulAppends ==
  ASSUME NEW events \in Chronicle, NEW known \in SUBSET Event, NEW today, NEW lost, NEW event \in Event,
         event \notin known, \A e \in known : e.day <= event.day, Faithful(events, known, today, lost)
  PROVE  Faithful(Append(events, event), known \cup {event}, today, lost)
  <1> DEFINE n == Len(events)
             new == Append(events, event)
  <1>1. /\ n \in Nat /\ new \in Chronicle /\ Len(new) = n + 1 /\ new[n + 1] = event
        /\ \A p \in 1 .. n : new[p] = events[p]
        /\ \A p \in 1 .. n + 1 : p = n + 1 \/ p \in 1 .. n
        /\ \A p \in 1 .. n : p \in 1 .. n + 1 /\ ~(n + 1 < p)
        /\ n + 1 \in 1 .. n + 1 /\ ~(n + 1 < n + 1)
    BY DEF Chronicle
  <1>2. event.day <= event.day
    BY DEF Event
  <1>3. /\ \A p \in 1 .. n : events[p] \in known
        /\ \A p, q \in 1 .. n : p < q => events[p].day <= events[q].day
        /\ \A p, q \in 1 .. n : events[p] = events[q] => p = q
        /\ \A e \in known : today - e.day <= KeptDays => e \in lost \/ \E p \in 1 .. n : events[p] = e
    BY DEF Faithful, Sorted, Distinct
  <1> HIDE DEF new, n
  <1>4. \A p \in 1 .. n + 1 : new[p] \in known \cup {event}
    BY <1>1, <1>3
  <1>5. Sorted(new)
    <2>1. \A p, q \in 1 .. n + 1 : p < q => new[p].day <= new[q].day
      BY <1>1, <1>3
    <2>2. QED
      BY <1>1, <2>1 DEF Sorted
  <1>6. Distinct(new)
    <2>1. \A p, q \in 1 .. n + 1 : new[p] = new[q] => p = q
      BY <1>1, <1>3
    <2>2. QED
      BY <1>1, <2>1 DEF Distinct
  <1>7. \A e \in known \cup {event} : today - e.day <= KeptDays => e \in lost \/ \E p \in 1 .. n + 1 : new[p] = e
    <2>1. ASSUME NEW e \in known, today - e.day <= KeptDays, e \notin lost
          PROVE  \E p \in 1 .. n + 1 : new[p] = e
      <3>1. PICK p \in 1 .. n : events[p] = e
        BY <1>3, <2>1
      <3>2. QED
        BY <1>1, <3>1
    <2>2. QED
      BY <1>1, <2>1
  <1>8. Faithful(new, known \cup {event}, today, lost)
    BY <1>1, <1>4, <1>5, <1>6, <1>7 DEF Faithful
  <1>9. QED
    BY <1>8 DEF new

(* What a cleanup is about to write back, when that is not all it read.    *)
LEMMA CleanupIsFaithful ==
  ASSUME day \in Nat, log \in Chronicle, logged \in SUBSET Event, Faithful(log, logged, day, lostEvents)
  PROVE  /\ Young(ReadEvents) \in Chronicle
         /\ Young(ReadEvents) # ReadEvents => Faithful(Young(ReadEvents), logged, day, lostEvents)
  <1>0. CASE garbled
    <2>1. ReadEvents = <<>> /\ <<>> \in Chronicle /\ Len(<<>>) = 0 /\ 1 .. 0 = {}
      BY <1>0, EmptySeq DEF ReadEvents, Chronicle
    <2>2. KeepsYoung(Young(<<>>), <<>>, 0)
      BY <2>1, YoungSays
    <2>3. Young(<<>>) \in Chronicle /\ Len(Young(<<>>)) = 0
      BY <2>1, <2>2 DEF KeepsYoung
    <2>4. Young(<<>>) = <<>>
      BY <2>3, EmptySeq DEF Chronicle
    <2>5. QED
      BY <2>1, <2>3, <2>4
  <1> SUFFICES ASSUME ~garbled
               PROVE  /\ Young(ReadEvents) \in Chronicle
                      /\ Young(ReadEvents) # ReadEvents => Faithful(Young(ReadEvents), logged, day, lostEvents)
    BY <1>0
  <1> DEFINE n == Len(log)
             from == IF n > ReadLimit THEN (n - ReadLimit) + 1 ELSE 1
             read == SubSeq(log, from, n)
             kept == Young(read)
             size == Len(read)
  <1>1. ReadLimit \in Nat \ {0} /\ KeptDays \in Nat /\ n \in Nat
    BY ServerFilesAssumption DEF Chronicle
  <1>2. ReadEvents = read
    BY <1>1 DEF ReadEvents
  <1>3. from \in Nat \ {0} /\ from <= n + 1
    BY <1>1
  <1> HIDE DEF from
  <1>4. /\ read \in Chronicle /\ size = (n - from) + 1 /\ size \in Nat
        /\ \A a \in 1 .. size : read[a] = log[(from + a) - 1] /\ (from + a) - 1 \in 1 .. n
    BY <1>1, <1>3 DEF Chronicle
  <1> DEFINE At(a) == (from + a) - 1
  <1>5. /\ \A a, b \in 1 .. size : (a < b => At(a) < At(b)) /\ (At(a) = At(b) => a = b)
        /\ \A q \in 1 .. n, a \in 1 .. size : q < from => q < At(a)
        /\ \A q \in 1 .. n : q >= from => (q - from) + 1 \in 1 .. size /\ At((q - from) + 1) = q
    BY <1>1, <1>3, <1>4
  <1> HIDE DEF n, read, size
  <1>6. \A a \in 1 .. size : read[a] = log[At(a)] /\ At(a) \in 1 .. n
    BY <1>4
  <1> HIDE DEF At
  <1>7. KeepsYoung(kept, read, size)
    BY <1>4, YoungSays DEF size
  <1> HIDE DEF kept
  <1>8. /\ \A p \in 1 .. n : log[p] \in logged /\ log[p] \in Event
        /\ \A p, q \in 1 .. n : p < q => log[p].day <= log[q].day
        /\ \A p, q \in 1 .. n : log[p] = log[q] => p = q
        /\ \A e \in logged : day - e.day <= KeptDays => e \in lostEvents \/ \E p \in 1 .. n : log[p] = e
    BY DEF Faithful, Sorted, Distinct, n
  <1>9. kept \in Chronicle /\ Len(kept) \in Nat
    BY <1>7 DEF KeepsYoung, Chronicle
  <1>10. ASSUME kept # read PROVE Faithful(kept, logged, day, lostEvents)
    <2>1. PICK old \in 1 .. size : ~IsYoung(read[old])
      <3>1. ASSUME \A a \in 1 .. size : IsYoung(read[a]) PROVE kept = read
        <4>1. Len(kept) = size /\ \A a \in 1 .. size : kept[a] = read[a]
          BY <1>7, <3>1 DEF KeepsYoung
        <4>2. read \in Seq(Event) /\ kept \in Seq(Event) /\ Len(read) = size
          BY <1>4, <1>9 DEF Chronicle, size
        <4>3. QED
          BY <4>1, <4>2, SeqEqual
      <3>2. QED
        BY <1>10, <3>1
    <2>2. ASSUME NEW p \in 1 .. Len(kept) PROVE kept[p] \in logged
      <3>1. PICK a \in 1 .. size : kept[p] = read[a]
        BY <1>7 DEF KeepsYoung
      <3>2. QED
        BY <1>6, <1>8, <3>1
    <2>3. ASSUME NEW p \in 1 .. Len(kept), NEW q \in 1 .. Len(kept), p < q
          PROVE  kept[p].day <= kept[q].day /\ kept[p] # kept[q]
      <3>1. PICK a \in 1 .. size, b \in 1 .. size : a < b /\ kept[p] = read[a] /\ kept[q] = read[b]
        BY <1>7, <2>3 DEF KeepsYoung
      <3>2. /\ kept[p] = log[At(a)] /\ kept[q] = log[At(b)]
            /\ At(a) \in 1 .. n /\ At(b) \in 1 .. n /\ At(a) < At(b) /\ a # b
        BY <1>4, <1>5, <1>6, <3>1
      <3>3. At(a) # At(b)
        BY <1>5, <3>2
      <3>4. QED
        BY <1>8, <3>2, <3>3
    <2>4. Sorted(kept) /\ Distinct(kept)
      <3>1. Sorted(kept)
        BY <2>3 DEF Sorted
      <3>2. ASSUME NEW p \in 1 .. Len(kept), NEW q \in 1 .. Len(kept), kept[p] = kept[q] PROVE p = q
        <4>1. ~(p < q) /\ ~(q < p)
          BY <2>3, <3>2
        <4>2. QED
          BY <1>9, <4>1
      <3>3. QED
        BY <3>1, <3>2 DEF Distinct
    <2>5. ASSUME NEW e \in logged, day - e.day <= KeptDays, e \notin lostEvents
          PROVE  \E p \in 1 .. Len(kept) : kept[p] = e
      <3>1. PICK q \in 1 .. n : log[q] = e
        BY <1>8, <2>5
      <3>2. q >= from
        <4>1. ASSUME q < from PROVE FALSE
          <5>1. log[q].day <= log[At(old)].day /\ log[q] \in Event /\ log[At(old)] \in Event
            BY <1>5, <1>6, <1>8, <4>1
          <5>2. ~(day - log[At(old)].day <= KeptDays)
            BY <1>6, <2>1 DEF IsYoung
          <5>3. log[q].day \in Nat /\ log[At(old)].day \in Nat
            BY <5>1 DEF Event
          <5>4. QED
            BY <1>1, <2>5, <3>1, <5>1, <5>2, <5>3
        <4>2. QED
          BY <1>1, <1>3, <4>1
      <3>3. PICK a \in 1 .. size : read[a] = e
        BY <1>5, <1>6, <3>1, <3>2
      <3>4. IsYoung(read[a])
        BY <2>5, <3>3 DEF IsYoung
      <3>5. QED
        BY <1>7, <3>3, <3>4 DEF KeepsYoung
    <2>6. QED
      BY <2>2, <2>4, <2>5 DEF Faithful
  <1>11. QED
    BY <1>2, <1>9, <1>10 DEF kept

(* What a rewrite leaves: the first k events of what it writes, and what   *)
(* was appended meanwhile but for the first j.                             *)
Follows(earlier, later) ==
    \A p \in 1 .. Len(earlier), q \in 1 .. Len(later) :
        earlier[p].day <= later[q].day /\ earlier[p] # later[q]

LEMMA RewriteIsFaithful ==
  ASSUME NEW a \in Chronicle, NEW b \in Chronicle, NEW k \in 0 .. Len(a), NEW j \in 0 .. Len(b),
         NEW known, NEW today, NEW lost, NEW any, NEW more,
         Faithful(a, known, today, lost), Faithful(b, known, today, any), Follows(a, b),
         lost \subseteq more,
         LET w == SubSeq(a, 1, k) \o SubSeq(b, j + 1, Len(b))
         IN  \A p \in 1 .. Len(a) : a[p] \in more \/ \E q \in 1 .. Len(w) : w[q] = a[p]
  PROVE  LET w == SubSeq(a, 1, k) \o SubSeq(b, j + 1, Len(b))
         IN  w \in Chronicle /\ Faithful(w, known, today, more)
  <1> DEFINE n == Len(b) - j
             head == SubSeq(a, 1, k)
             tail == SubSeq(b, j + 1, Len(b))
             w == head \o tail
  <1>1. /\ Len(a) \in Nat /\ Len(b) \in Nat /\ n \in Nat /\ k \in Nat /\ j \in Nat /\ k <= Len(a) /\ j <= Len(b)
        /\ head \in Chronicle /\ Len(head) = k /\ \A p \in 1 .. k : head[p] = a[p]
    BY DEF Chronicle
  <1>11. tail \in Chronicle /\ Len(tail) = n /\ \A p \in 1 .. n : tail[p] = b[j + p]
    BY <1>1 DEF Chronicle
  <1> HIDE DEF head, tail
  <1>12. /\ w \in Chronicle /\ Len(w) = k + n
         /\ \A p \in 1 .. k : w[p] = head[p]
         /\ \A p \in (k + 1) .. (k + n) : w[p] = tail[p - k]
    <2>1. head \in Seq(Event) /\ tail \in Seq(Event) /\ head \o tail \in Seq(Event)
      BY <1>1, <1>11 DEF Chronicle
    <2> DEFINE h == Len(head)
               t == Len(tail)
    <2>2. /\ h \in Nat /\ t \in Nat /\ Len(w) = h + t
          /\ \A p \in 1 .. h + t : w[p] = IF p <= h THEN head[p] ELSE tail[p - h]
      BY <2>1
    <2>3. h = k /\ t = n
      BY <1>1, <1>11
    <2> HIDE DEF w
    <2>4. /\ \A p \in 1 .. k : p \in 1 .. k + n /\ p <= k
          /\ \A p \in (k + 1) .. (k + n) : p \in 1 .. k + n /\ ~(p <= k)
      BY <1>1
    <2>5. w \in Chronicle
      BY <2>1 DEF w, Chronicle
    <2>6. QED
      BY <2>2, <2>3, <2>4, <2>5
  <1> HIDE DEF w
  <1>2. /\ w \in Chronicle /\ Len(w) = k + n
        /\ \A p \in 1 .. k : w[p] = a[p] /\ p \in 1 .. Len(a)
        /\ \A p \in (k + 1) .. (k + n) : w[p] = b[(j + p) - k] /\ (j + p) - k \in 1 .. Len(b)
        /\ \A p \in 1 .. (k + n) : p \in 1 .. k \/ p \in (k + 1) .. (k + n)
    <2>1. ASSUME NEW p \in (k + 1) .. (k + n) PROVE w[p] = b[(j + p) - k] /\ (j + p) - k \in 1 .. Len(b)
      <3>1. p - k \in 1 .. n /\ j + (p - k) = (j + p) - k /\ (j + p) - k \in 1 .. Len(b)
        BY <1>1, <2>1
      <3>2. w[p] = tail[p - k] /\ tail[p - k] = b[j + (p - k)]
        BY <1>11, <1>12, <2>1, <3>1
      <3>3. QED
        BY <3>1, <3>2
    <2>2. \A p \in 1 .. k : w[p] = a[p] /\ p \in 1 .. Len(a)
      BY <1>1, <1>12
    <2>3. \A p \in 1 .. (k + n) : p \in 1 .. k \/ p \in (k + 1) .. (k + n)
      BY <1>1
    <2>4. QED
      BY <1>12, <2>1, <2>2, <2>3
  <1> HIDE DEF n
  <1>3. /\ \A p \in 1 .. Len(a) : a[p] \in known
        /\ \A p, q \in 1 .. Len(a) : (p < q => a[p].day <= a[q].day) /\ (a[p] = a[q] => p = q)
        /\ \A p \in 1 .. Len(b) : b[p] \in known
        /\ \A p, q \in 1 .. Len(b) : (p < q => b[p].day <= b[q].day) /\ (b[p] = b[q] => p = q)
        /\ \A e \in known : today - e.day <= KeptDays => e \in lost \/ \E p \in 1 .. Len(a) : a[p] = e
    BY DEF Faithful, Sorted, Distinct
  <1>4. \A p \in 1 .. Len(w) : w[p] \in known
    BY <1>2, <1>3
  <1>5. ASSUME NEW p \in 1 .. Len(w), NEW q \in 1 .. Len(w), p < q
        PROVE  w[p].day <= w[q].day /\ w[p] # w[q]
    <2>1. CASE p \in 1 .. k /\ q \in 1 .. k
      <3>1. w[p] = a[p] /\ w[q] = a[q] /\ p \in 1 .. Len(a) /\ q \in 1 .. Len(a) /\ p # q
        BY <1>2, <1>5, <2>1
      <3>2. QED
        BY <1>3, <1>5, <3>1
    <2>2. CASE p \in 1 .. k /\ q \in (k + 1) .. (k + n)
      BY <1>2, <2>2 DEF Follows
    <2>3. CASE p \in (k + 1) .. (k + n)
      <3>1. q \in (k + 1) .. (k + n)
        BY <1>1, <1>2, <1>5, <2>3
      <3>2. /\ w[p] = b[(j + p) - k] /\ (j + p) - k \in 1 .. Len(b)
            /\ w[q] = b[(j + q) - k] /\ (j + q) - k \in 1 .. Len(b)
            /\ (j + p) - k < (j + q) - k /\ (j + p) - k # (j + q) - k
        BY <1>1, <1>2, <1>5, <2>3, <3>1
      <3>3. QED
        BY <1>3, <3>2
    <2>4. QED
      BY <1>2, <2>1, <2>2, <2>3
  <1>6. Sorted(w) /\ Distinct(w)
    <2>1. Sorted(w)
      BY <1>5 DEF Sorted
    <2>2. ASSUME NEW p \in 1 .. Len(w), NEW q \in 1 .. Len(w), w[p] = w[q] PROVE p = q
      <3>1. ~(p < q) /\ ~(q < p)
        BY <1>5, <2>2
      <3>2. QED
        BY <1>1, <1>2, <3>1
    <2>3. QED
      BY <2>1, <2>2 DEF Distinct
  <1>7. \A e \in known : today - e.day <= KeptDays => e \in more \/ \E p \in 1 .. Len(w) : w[p] = e
    BY <1>3 DEF w, head, tail
  <1>8. Faithful(w, known, today, more)
    BY <1>4, <1>6, <1>7 DEF Faithful
  <1>9. QED
    BY <1>2, <1>8 DEF w, head, tail

----------------------------------------------------------------------------
(* The inductive invariant                                                 *)

RepoEntry == [by : Askers \cup {"none"}, since : Nat]
Works == {"nothing", "done", "cleaning", "rewriting", "registering", "saving"}

ServerTypes ==
    /\ day \in Nat /\ log \in Chronicle /\ logged \in SUBSET Event
    /\ does \in [Askers -> Works]
    /\ loaded \in [Askers -> [events : Chronicle, repos : [RepoIds -> RepoEntry], id : RepoIds \cup {"none"}]]
    /\ repos \in [RepoIds -> RepoEntry]
    /\ made \in SUBSET [id : RepoIds, by : Askers, first : Nat]
    /\ garbled \in BOOLEAN /\ readable \in BOOLEAN

Cleans(work) == work \in {"cleaning", "rewriting"}
Registers(work) == work \in {"registering", "saving"}

(* What may be missing of the log: anything, while it is rewritten.        *)
Missing == IF Now({"rewriting"}) = {} THEN lostEvents ELSE lostEvents \cup logged

LogInv ==
    /\ \A e \in logged : e.day <= day /\ does[e.by] # "nothing"
    /\ Faithful(log, logged, day, Missing)
    /\ \A r \in Askers : Cleans(does[r]) =>
         /\ Faithful(loaded[r].events, logged, day, lostEvents)
         /\ \A s \in Askers : Cleans(does[s]) => s = r
    /\ \A r \in Askers : does[r] = "rewriting" =>
         Follows(loaded[r].events, log) /\ (log # <<>> => spoilt # {})
    /\ garbled => spoilt # {}

ReposInv ==
    /\ \A l, m \in made : l.id = m.id => l = m
    /\ \A r \in Askers : Registers(does[r]) => loaded[r].id \in RepoIds
    /\ lostRepos = {} =>
         /\ \A r \in Askers : Registers(does[r]) =>
              /\ loaded[r].repos = repos
              /\ \A s \in Askers : Registers(does[s]) => s = r
         /\ readable \/ Now({"saving"}) # {}
         /\ \A id \in RepoIds : repos[id] = NoRepo => ~ \E m \in made : m.id = id
         /\ \A id \in RepoIds : repos[id] # NoRepo => \E m \in made : m.id = id
         /\ \A m \in made : repos[m.id] = [by |-> m.by, since |-> m.first]

ServerIInv == ServerTypes /\ LogInv /\ ReposInv

LEMMA ServerInitInv == ServerInit => ServerIInv
  <1> SUFFICES ASSUME ServerInit PROVE ServerIInv
    OBVIOUS
  <1>1. <<>> \in Chronicle /\ Len(<<>>) = 0 /\ 1 .. 0 = {} /\ NoRepo \in RepoEntry
    BY EmptySeq DEF Chronicle, RepoEntry, NoRepo
  <1>2. ServerTypes
    BY <1>1 DEF ServerInit, ServerTypes, Works
  <1>3. Faithful(log, logged, day, Missing)
    BY <1>1 DEF ServerInit, Faithful, Sorted, Distinct
  <1>4. LogInv
    BY <1>3 DEF ServerInit, LogInv, Cleans
  <1>5. ReposInv
    BY DEF ServerInit, ReposInv, Registers
  <1>6. QED
    BY <1>2, <1>4, <1>5 DEF ServerIInv

(* One of a kind of work, when another does something else.                *)
LEMMA NobodyRewrites ==
  ASSUME \A s \in Askers : does'[s] = "rewriting" <=> does[s] = "rewriting"
  PROVE  Now({"rewriting"})' = Now({"rewriting"})
  BY DEF Now

(* A step that leaves the log, and what the cleanups read of it.           *)
LEMMA LogStays ==
  ASSUME ServerTypes, LogInv, day' \in Nat, day <= day', UNCHANGED logVars,
         \A r \in Askers : does[r] # "nothing" => does'[r] # "nothing",
         \A r \in Askers : does'[r] = "rewriting" <=> does[r] = "rewriting",
         \A r \in Askers : Cleans(does'[r]) => Cleans(does[r]) /\ loaded'[r].events = loaded[r].events
  PROVE  LogInv'
  <1> USE DEF logVars
  <1>1. day \in Nat /\ logged \in SUBSET Event
    BY DEF ServerTypes
  <1>2. \A e \in logged : e.day <= day' /\ does'[e.by] # "nothing"
    BY <1>1 DEF LogInv, Event
  <1>3. Faithful(log, logged, day', Missing')
    <2>1. Missing' = Missing
      BY NobodyRewrites DEF Missing
    <2>2. QED
      BY <1>1, <2>1, FaithfulStays DEF LogInv
  <1>4. ASSUME NEW r \in Askers, Cleans(does'[r])
        PROVE  /\ Faithful(loaded'[r].events, logged, day', lostEvents)
               /\ \A s \in Askers : Cleans(does'[s]) => s = r
    BY <1>1, <1>4, FaithfulStays DEF LogInv
  <1>5. ASSUME NEW r \in Askers, does'[r] = "rewriting"
        PROVE  Follows(loaded'[r].events, log) /\ (log # <<>> => spoilt # {})
    BY <1>5 DEF LogInv, Cleans
  <1>6. garbled => spoilt # {}
    BY DEF LogInv
  <1>7. QED
    BY <1>2, <1>3, <1>4, <1>5, <1>6 DEF LogInv

(* A step that leaves the repositories, and those that register them.      *)
LEMMA ReposStay ==
  ASSUME ServerTypes, ReposInv, UNCHANGED repoVars,
         \A r \in Askers : does'[r] = "saving" <=> does[r] = "saving",
         \A r \in Askers : Registers(does'[r]) =>
             Registers(does[r]) /\ loaded'[r].id = loaded[r].id /\ loaded'[r].repos = loaded[r].repos
  PROVE  ReposInv'
  <1> USE DEF repoVars
  <1>1. /\ \A l, m \in made : l.id = m.id => l = m
        /\ \A r \in Askers : Registers(does'[r]) => loaded'[r].id \in RepoIds
    BY DEF ReposInv
  <1>2. lostRepos = {} =>
            \A r \in Askers : Registers(does'[r]) =>
              /\ loaded'[r].repos = repos
              /\ \A s \in Askers : Registers(does'[s]) => s = r
    BY DEF ReposInv
  <1>3. lostRepos = {} =>
          /\ \A id \in RepoIds : repos[id] = NoRepo => ~ \E m \in made : m.id = id
          /\ \A id \in RepoIds : repos[id] # NoRepo => \E m \in made : m.id = id
          /\ \A m \in made : repos[m.id] = [by |-> m.by, since |-> m.first]
    BY DEF ReposInv
  <1>4. lostRepos = {} => readable \/ Now({"saving"})' # {}
    <2>1. Now({"saving"})' = Now({"saving"})
      BY DEF Now
    <2>2. QED
      BY <2>1 DEF ReposInv
  <1>5. QED
    BY <1>1, <1>2, <1>3, <1>4 DEF ReposInv, NoRepo

(* Every step but the passing of a day is that of a request.               *)
LEMMA WorkChanges ==
  ASSUME ServerTypes, NEW r \in Askers, NEW from, NEW to, Proceeds(r, from, to)
  PROVE  /\ does[r] = from /\ does'[r] = to /\ \A s \in Askers : s # r => does'[s] = does[s]
         /\ to \in Works => does' \in [Askers -> Works]
  BY DEF ServerTypes, Proceeds

LEMMA DayStep == ASSUME ServerIInv, DayPasses PROVE ServerIInv'
  <1>1. ServerTypes' /\ day' \in Nat /\ day <= day'
    BY DEF ServerIInv, ServerTypes, DayPasses, logVars, repoVars
  <1>2. LogInv'
    BY <1>1, LogStays DEF ServerIInv, DayPasses, logVars
  <1>3. ReposInv'
    BY ReposStay DEF ServerIInv, DayPasses, repoVars
  <1>4. QED
    BY <1>1, <1>2, <1>3 DEF ServerIInv

(* A request that is over, and has left both files as they were.           *)
LEMMA StopsStep ==
  ASSUME ServerIInv, NEW r \in Askers, Stops(r) \/ RegistrationFails(r)
  PROVE  ServerIInv'
  <1>1. PICK from \in {"nothing", "cleaning", "registering"} : Proceeds(r, from, "done")
    BY Zenon DEF Stops, RegistrationFails
  <1>2. UNCHANGED <<day, loaded, logVars, repoVars>>
    BY DEF Stops, RegistrationFails
  <1>3. /\ does[r] = from /\ does'[r] = "done" /\ \A s \in Askers : s # r => does'[s] = does[s]
        /\ does' \in [Askers -> Works]
    BY <1>1, WorkChanges DEF ServerIInv, Works
  <1>4. ServerTypes' /\ day' \in Nat /\ day <= day'
    BY <1>2, <1>3 DEF ServerIInv, ServerTypes, logVars, repoVars
  <1>5. LogInv'
    <2>1. \A s \in Askers : /\ does[s] # "nothing" => does'[s] # "nothing"
                            /\ does'[s] = "rewriting" <=> does[s] = "rewriting"
                            /\ Cleans(does'[s]) => Cleans(does[s])
      BY <1>3 DEF Cleans
    <2>2. QED
      BY <1>2, <1>4, <2>1, LogStays DEF ServerIInv
  <1>6. ReposInv'
    <2>1. \A s \in Askers : /\ does'[s] = "saving" <=> does[s] = "saving"
                            /\ Registers(does'[s]) => Registers(does[s])
      BY <1>3 DEF Registers
    <2>2. QED
      BY <1>2, <2>1, ReposStay DEF ServerIInv
  <1>7. QED
    BY <1>4, <1>5, <1>6 DEF ServerIInv

LEMMA AppendEventStep == ASSUME ServerIInv, NEW r \in Askers, AppendEvent(r) PROVE ServerIInv'
  <1> DEFINE event == [by |-> r, day |-> day]
             under == Now({"cleaning", "rewriting"}) # {}
  <1>1. /\ event \in Event /\ event.day = day /\ event.by = r /\ day \in Nat
        /\ logged \in SUBSET Event /\ log \in Chronicle
    BY DEF ServerIInv, ServerTypes, Event
  <1>2. /\ logged' = logged \cup {event} /\ day' = day /\ loaded' = loaded /\ garbled' = garbled
        /\ spoilt' = IF Now({"rewriting"}) # {} THEN spoilt \cup {r} ELSE spoilt
        /\ UNCHANGED repoVars
    BY DEF AppendEvent
  <1>3. /\ does[r] = "nothing" /\ does'[r] = "done" /\ \A s \in Askers : s # r => does'[s] = does[s]
        /\ does' \in [Askers -> Works]
    BY WorkChanges DEF AppendEvent, ServerIInv, Works
  <1>4. event \notin logged /\ \A e \in logged : e.day <= event.day /\ e.by \in Askers
    BY <1>1, <1>3 DEF ServerIInv, LogInv, Event
  <1>5. \/ log' = Append(log, event) /\ lostEvents' = IF under THEN lostEvents \cup {event} ELSE lostEvents
        \/ garbled /\ log' = log /\ lostEvents' = lostEvents \cup {event}
    BY DEF AppendEvent
  <1> HIDE DEF event
  <1>6. lostEvents \subseteq lostEvents' /\ (under => lostEvents' = lostEvents \cup {event}) /\ logged' \in SUBSET Event
    BY <1>1, <1>2, <1>5
  <1>7. ServerTypes'
    <2>1. log' \in Chronicle
      BY <1>1, <1>5 DEF Chronicle
    <2>2. QED
      BY <1>2, <1>3, <1>6, <2>1 DEF ServerIInv, ServerTypes, repoVars
  <1>8. LogInv'
    <2>1. \A e \in logged' : e.day <= day' /\ does'[e.by] # "nothing"
      BY <1>1, <1>2, <1>3, <1>4 DEF ServerIInv, LogInv
    <2>2. Faithful(log', logged', day', Missing')
      <3>1. Missing' = IF Now({"rewriting"}) = {} THEN lostEvents' ELSE lostEvents' \cup logged'
        <4>1. Now({"rewriting"})' = Now({"rewriting"})
          BY <1>3, NobodyRewrites
        <4>2. QED
          BY <4>1 DEF Missing
      <3>2. Missing \subseteq Missing' /\ (event \in lostEvents' => Missing \cup {event} \subseteq Missing')
        BY <1>2, <1>6, <3>1 DEF Missing
      <3>3. Faithful(log, logged, day, Missing)
        BY DEF ServerIInv, LogInv
      <3>4. CASE log' = Append(log, event)
        <4>1. Faithful(Append(log, event), logged \cup {event}, day, Missing)
          BY <1>1, <1>4, <3>3, FaithfulAppends
        <4>2. QED
          BY <1>1, <1>2, <1>6, <3>2, <3>4, <4>1, FaithfulStays
      <3>5. CASE log' = log /\ lostEvents' = lostEvents \cup {event}
        <4>1. Faithful(log, logged \cup {event}, day, Missing \cup {event})
          BY <3>3, FaithfulMisses
        <4>2. Missing \cup {event} \subseteq Missing'
          BY <3>2, <3>5
        <4>3. QED
          BY <1>1, <1>2, <1>6, <3>5, <4>1, <4>2, FaithfulStays
      <3>6. QED
        BY <1>5, <3>4, <3>5
    <2>3. ASSUME NEW s \in Askers, Cleans(does'[s])
          PROVE  /\ Faithful(loaded'[s].events, logged', day', lostEvents')
                 /\ \A t \in Askers : Cleans(does'[t]) => t = s
      <3>1. s # r /\ Cleans(does[s]) /\ \A t \in Askers : Cleans(does'[t]) => Cleans(does[t])
        BY <1>3, <2>3 DEF Cleans
      <3>2. lostEvents' = lostEvents \cup {event}
        BY <1>6, <3>1 DEF Now, Cleans
      <3>3. Faithful(loaded[s].events, logged, day, lostEvents) /\ \A t \in Askers : Cleans(does[t]) => t = s
        BY <3>1 DEF ServerIInv, LogInv
      <3>4. Faithful(loaded[s].events, logged \cup {event}, day, lostEvents \cup {event})
        BY <3>3, FaithfulMisses
      <3>5. QED
        BY <1>2, <3>1, <3>2, <3>3, <3>4
    <2>4. ASSUME NEW s \in Askers, does'[s] = "rewriting"
          PROVE  Follows(loaded'[s].events, log') /\ (log' # <<>> => spoilt' # {})
      <3>1. does[s] = "rewriting" /\ s \in Now({"rewriting"})
        BY <1>3, <2>4 DEF Now
      <3>2. Follows(loaded[s].events, log) /\ Faithful(loaded[s].events, logged, day, lostEvents)
        BY <3>1 DEF ServerIInv, LogInv, Cleans
      <3>3. \A p \in 1 .. Len(loaded[s].events) : loaded[s].events[p] \in logged
        BY <3>2 DEF Faithful
      <3>4. CASE log' = log
        BY <1>2, <3>1, <3>2, <3>4
      <3>5. CASE log' = Append(log, event)
        <4>1. \A q \in 1 .. Len(log') : log'[q] = event \/ (q \in 1 .. Len(log) /\ log'[q] = log[q])
          BY <1>1, <3>5 DEF Chronicle
        <4>2. Follows(loaded[s].events, log')
          BY <1>4, <3>2, <3>3, <4>1 DEF Follows
        <4>3. QED
          BY <1>2, <3>1, <4>2
      <3>6. QED
        BY <1>5, <3>4, <3>5
    <2>5. garbled' => spoilt' # {}
      BY <1>2 DEF ServerIInv, LogInv
    <2>6. QED
      BY <2>1, <2>2, <2>3, <2>4, <2>5 DEF LogInv
  <1>9. ReposInv'
    <2>1. \A s \in Askers : /\ does'[s] = "saving" <=> does[s] = "saving"
                            /\ Registers(does'[s]) => Registers(does[s])
      BY <1>3 DEF Registers
    <2>2. QED
      BY <1>2, <2>1, ReposStay DEF ServerIInv
  <1>10. QED
    BY <1>7, <1>8, <1>9 DEF ServerIInv

LEMMA AppendIsCutStep == ASSUME ServerIInv, NEW r \in Askers, AppendIsCut(r) PROVE ServerIInv'
  <1>1. /\ garbled' = TRUE /\ spoilt' = spoilt \cup {r}
        /\ UNCHANGED <<day, loaded, logged, log, lostEvents, repoVars>>
    BY DEF AppendIsCut
  <1>2. /\ does[r] = "nothing" /\ does'[r] = "done" /\ \A s \in Askers : s # r => does'[s] = does[s]
        /\ does' \in [Askers -> Works]
    BY WorkChanges DEF AppendIsCut, ServerIInv, Works
  <1>3. ServerTypes'
    BY <1>1, <1>2 DEF ServerIInv, ServerTypes, repoVars
  <1>4. LogInv'
    <2>1. Missing' = Missing
      <3>1. Now({"rewriting"})' = Now({"rewriting"})
        BY <1>2, NobodyRewrites
      <3>2. QED
        BY <1>1, <3>1 DEF Missing
    <2>2. \A e \in logged : e.day <= day /\ does'[e.by] # "nothing"
      BY <1>2 DEF ServerIInv, ServerTypes, LogInv, Event
    <2>3. \A s \in Askers : /\ Cleans(does'[s]) => Cleans(does[s])
                            /\ does'[s] = "rewriting" => does[s] = "rewriting"
      BY <1>2 DEF Cleans
    <2>4. \A s \in Askers : Cleans(does'[s]) =>
            /\ Faithful(loaded[s].events, logged, day, lostEvents)
            /\ \A t \in Askers : Cleans(does'[t]) => t = s
      BY <2>3 DEF ServerIInv, LogInv
    <2>5. \A s \in Askers : does'[s] = "rewriting" => Follows(loaded[s].events, log)
      BY <2>3 DEF ServerIInv, LogInv
    <2>6. spoilt' # {}
      BY <1>1
    <2>7. Faithful(log, logged, day, Missing)
      BY DEF ServerIInv, LogInv
    <2>8. QED
      BY <1>1, <2>1, <2>2, <2>4, <2>5, <2>6, <2>7 DEF LogInv
  <1>5. ReposInv'
    <2>1. \A s \in Askers : /\ does'[s] = "saving" <=> does[s] = "saving"
                            /\ Registers(does'[s]) => Registers(does[s])
      BY <1>2 DEF Registers
    <2>2. QED
      BY <1>1, <2>1, ReposStay DEF ServerIInv
  <1>6. QED
    BY <1>3, <1>4, <1>5 DEF ServerIInv

LEMMA ReadLogStep == ASSUME ServerIInv, NEW r \in Askers, ReadLog(r) PROVE ServerIInv'
  <1> DEFINE kept == Young(ReadEvents)
             next == IF kept = ReadEvents THEN "done" ELSE "cleaning"
  <1>1. \A s \in Askers : ~Cleans(does[s])
    BY DEF ReadLog, Now, Cleans
  <1>2. Faithful(log, logged, day, lostEvents)
    <2>1. Now({"rewriting"}) = {}
      BY <1>1 DEF Now, Cleans
    <2>2. QED
      BY <2>1 DEF ServerIInv, LogInv, Missing
  <1>3. kept \in Chronicle /\ (kept # ReadEvents => Faithful(kept, logged, day, lostEvents))
    BY <1>2, CleanupIsFaithful DEF ServerIInv, ServerTypes
  <1>4. loaded' = [loaded EXCEPT ![r].events = kept] /\ UNCHANGED <<day, logVars, repoVars>>
    BY DEF ReadLog
  <1>5. /\ does[r] = "nothing" /\ does'[r] = next /\ \A s \in Askers : s # r => does'[s] = does[s]
        /\ does' \in [Askers -> Works]
    BY WorkChanges DEF ReadLog, ServerIInv, Works
  <1> HIDE DEF kept
  <1>6. /\ loaded'[r].events = kept /\ \A s \in Askers : s # r => loaded'[s] = loaded[s]
    BY <1>4 DEF ServerIInv, ServerTypes
  <1>7. ServerTypes'
    BY <1>3, <1>4, <1>5 DEF ServerIInv, ServerTypes, logVars, repoVars
  <1>8. LogInv'
    <2> USE DEF logVars
    <2>1. \A e \in logged : e.day <= day /\ does'[e.by] # "nothing"
      BY <1>5 DEF ServerIInv, ServerTypes, LogInv, Event
    <2>2. ASSUME NEW s \in Askers, Cleans(does'[s])
          PROVE  /\ Faithful(loaded'[s].events, logged, day, lostEvents)
                 /\ \A t \in Askers : Cleans(does'[t]) => t = s
      <3>1. \A t \in Askers : Cleans(does'[t]) => t = r
        BY <1>1, <1>5
      <3>2. kept # ReadEvents
        BY <1>5, <2>2, <3>1 DEF Cleans
      <3>3. QED
        BY <1>3, <1>6, <2>2, <3>1, <3>2
    <2>3. \A s \in Askers : does'[s] # "rewriting"
      BY <1>1, <1>5 DEF Cleans
    <2>4. Missing' = lostEvents
      BY <1>4, <2>3 DEF Missing, Now
    <2>5. garbled => spoilt # {}
      BY DEF ServerIInv, LogInv
    <2>6. QED
      BY <1>2, <1>4, <2>1, <2>2, <2>3, <2>4, <2>5 DEF LogInv
  <1>9. ReposInv'
    <2>1. \A s \in Askers : /\ does'[s] = "saving" <=> does[s] = "saving"
                            /\ Registers(does'[s]) => Registers(does[s]) /\ s # r
      BY <1>5 DEF Registers
    <2>2. QED
      BY <1>4, <1>6, <2>1, ReposStay DEF ServerIInv
  <1>10. QED
    BY <1>7, <1>8, <1>9 DEF ServerIInv

LEMMA EmptyLogStep == ASSUME ServerIInv, NEW r \in Askers, EmptyLog(r) PROVE ServerIInv'
  <1>1. /\ log' = <<>> /\ garbled' = FALSE
        /\ UNCHANGED <<day, loaded, logged, lostEvents, spoilt, repoVars>>
    BY DEF EmptyLog
  <1>2. /\ does[r] = "cleaning" /\ does'[r] = "rewriting" /\ \A s \in Askers : s # r => does'[s] = does[s]
        /\ does' \in [Askers -> Works]
    BY WorkChanges DEF EmptyLog, ServerIInv, Works
  <1>3. <<>> \in Chronicle /\ Len(<<>>) = 0 /\ 1 .. 0 = {}
    BY EmptySeq DEF Chronicle
  <1>4. ServerTypes'
    BY <1>1, <1>2, <1>3 DEF ServerIInv, ServerTypes, repoVars
  <1>5. LogInv'
    <2>1. \A e \in logged : e.day <= day /\ does'[e.by] # "nothing"
      BY <1>2 DEF ServerIInv, ServerTypes, LogInv, Event
    <2>2. Missing' = lostEvents \cup logged
      BY <1>1, <1>2 DEF Missing, Now
    <2>3. Faithful(<<>>, logged, day, lostEvents \cup logged)
      BY <1>3 DEF Faithful, Sorted, Distinct
    <2>4. \A s \in Askers : Cleans(does'[s]) => Cleans(does[s])
      BY <1>2 DEF Cleans
    <2>5. \A s \in Askers : Cleans(does'[s]) =>
            /\ Faithful(loaded[s].events, logged, day, lostEvents)
            /\ \A t \in Askers : Cleans(does'[t]) => t = s
      BY <2>4 DEF ServerIInv, LogInv
    <2>6. \A s \in Askers : Follows(loaded[s].events, <<>>)
      BY <1>3 DEF Follows
    <2>7. QED
      BY <1>1, <2>1, <2>2, <2>3, <2>5, <2>6 DEF LogInv
  <1>6. ReposInv'
    <2>1. \A s \in Askers : /\ does'[s] = "saving" <=> does[s] = "saving"
                            /\ Registers(does'[s]) => Registers(does[s])
      BY <1>2 DEF Registers
    <2>2. QED
      BY <1>1, <2>1, ReposStay DEF ServerIInv
  <1>7. QED
    BY <1>4, <1>5, <1>6 DEF ServerIInv

(* A rewrite that is over: to its end, or cut.                             *)
LEMMA RewriteIsOver ==
  ASSUME ServerIInv, NEW r \in Askers, Proceeds(r, "rewriting", "done"), UNCHANGED <<day, loaded, logged, repoVars>>,
         NEW put \in 0 .. Len(loaded[r].events), NEW over \in 0 .. Len(log),
         log' = LogAfter(r, put, over),
         lostEvents \subseteq lostEvents',
         \A e \in Range(loaded[r].events) : e \in lostEvents' \/ e \in Range(log') \/ put = Len(loaded[r].events),
         garbled' \in BOOLEAN, garbled' => spoilt' # {}
  PROVE  ServerIInv'
  <1> DEFINE events == loaded[r].events
  <1>1. /\ does[r] = "rewriting" /\ does'[r] = "done" /\ \A s \in Askers : s # r => does'[s] = does[s]
        /\ does' \in [Askers -> Works]
    BY WorkChanges DEF ServerIInv, Works
  <1>2. /\ events \in Chronicle /\ log \in Chronicle /\ Follows(events, log)
        /\ Faithful(events, logged, day, lostEvents) /\ Faithful(log, logged, day, Missing)
        /\ \A s \in Askers : Cleans(does[s]) => s = r
    BY <1>1 DEF ServerIInv, ServerTypes, LogInv, Cleans
  <1>3. log' = SubSeq(events, 1, put) \o SubSeq(log, over + 1, Len(log))
    BY DEF LogAfter
  <1>4. log' \in Chronicle /\ Faithful(log', logged, day, lostEvents')
    <2>1. \A w \in Chronicle : Range(w) = {w[q] : q \in 1 .. Len(w)}
      <3>1. ASSUME NEW w \in Chronicle PROVE DOMAIN w = 1 .. Len(w)
        BY <3>1 DEF Chronicle
      <3>2. QED
        BY <3>1 DEF Range
    <2>2. log' \in Chronicle
      BY <1>2, <1>3 DEF Chronicle
    <2>3. ASSUME NEW p \in 1 .. Len(events)
          PROVE  events[p] \in lostEvents' \/ \E q \in 1 .. Len(log') : log'[q] = events[p]
      <3>1. CASE put = Len(events)
        <4> DEFINE head == SubSeq(events, 1, put)
                   tail == SubSeq(log, over + 1, Len(log))
        <4>1. head \in Seq(Event) /\ tail \in Seq(Event) /\ Len(head) = Len(events) /\ head[p] = events[p]
          BY <1>2, <2>3, <3>1 DEF Chronicle
        <4>2. log' = head \o tail
          BY <1>3
        <4> HIDE DEF head, tail
        <4>4. p \in 1 .. Len(head) /\ p \in 1 .. Len(head \o tail) /\ (head \o tail)[p] = head[p]
          BY <2>3, <4>1
        <4>5. p \in 1 .. Len(log') /\ log'[p] = events[p]
          BY <4>1, <4>2, <4>4
        <4>3. QED
          BY <4>5
      <3>2. CASE put # Len(events)
        <4>1. events[p] \in Range(events)
          BY <1>2, <2>1, <2>3
        <4>2. events[p] \in lostEvents' \/ events[p] \in Range(log')
          BY <3>2, <4>1
        <4>3. Range(log') = {log'[q] : q \in 1 .. Len(log')}
          BY <2>1, <2>2
        <4>4. QED
          BY <4>2, <4>3
      <3>3. QED
        BY <3>1, <3>2
    <2>4. logged \in SUBSET Event /\ put \in 0 .. Len(events)
      BY DEF ServerIInv, ServerTypes
    <2> HIDE DEF events
    <2>5. LET w == SubSeq(events, 1, put) \o SubSeq(log, over + 1, Len(log))
          IN  Faithful(w, logged, day, lostEvents')
      BY <1>2, <1>3, <2>3, <2>4, RewriteIsFaithful
    <2>6. QED
      BY <1>3, <2>2, <2>5
  <1>5. ServerTypes'
    BY <1>1, <1>4 DEF ServerIInv, ServerTypes, repoVars
  <1>6. LogInv'
    <2>1. \A e \in logged : e.day <= day /\ does'[e.by] # "nothing"
      BY <1>1 DEF ServerIInv, ServerTypes, LogInv, Event
    <2>2. \A s \in Askers : ~Cleans(does'[s]) /\ does'[s] # "rewriting"
      BY <1>1, <1>2 DEF Cleans
    <2>3. Missing' = lostEvents'
      BY <2>2 DEF Missing, Now
    <2>4. QED
      BY <1>4, <2>1, <2>2, <2>3 DEF LogInv
  <1>7. ReposInv'
    <2>1. \A s \in Askers : /\ does'[s] = "saving" <=> does[s] = "saving"
                            /\ Registers(does'[s]) => Registers(does[s])
      BY <1>1 DEF Registers
    <2>2. QED
      BY <2>1, ReposStay DEF ServerIInv
  <1>8. QED
    BY <1>5, <1>6, <1>7 DEF ServerIInv

LEMMA WriteLogStep == ASSUME ServerIInv, NEW r \in Askers, WriteLog(r) \/ WriteIsCut(r) PROVE ServerIInv'
  <1> DEFINE events == loaded[r].events
  <1>1. CASE WriteLog(r)
    <2>1. /\ Proceeds(r, "rewriting", "done") /\ UNCHANGED <<day, loaded, logged, lostEvents, spoilt, repoVars>>
          /\ garbled' \in IF events # <<>> /\ (log # <<>> \/ garbled) THEN BOOLEAN ELSE {garbled}
      BY <1>1 DEF WriteLog
    <2>2. PICK over \in 0 .. Len(log) : log' = LogAfter(r, Len(events), over)
      BY <1>1 DEF WriteLog
    <2>3. Len(events) \in 0 .. Len(events) /\ garbled \in BOOLEAN
      BY DEF ServerIInv, ServerTypes, Chronicle
    <2>4. garbled' \in BOOLEAN /\ (garbled' => garbled \/ log # <<>>)
      BY <2>1, <2>3
    <2>5. garbled' => spoilt' # {}
      BY <2>1, <2>4 DEF ServerIInv, LogInv, Proceeds
    <2>6. QED
      BY <2>1, <2>2, <2>3, <2>4, <2>5, RewriteIsOver
  <1>2. CASE WriteIsCut(r)
    <2>1. /\ Proceeds(r, "rewriting", "done") /\ UNCHANGED <<day, loaded, logged, repoVars>>
          /\ lostEvents' = lostEvents \cup (Range(events) \ Range(log'))
          /\ garbled' \in BOOLEAN /\ spoilt' = spoilt \cup {r}
      BY <1>2 DEF WriteIsCut
    <2>2. PICK put \in 0 .. Len(events), over \in 0 .. Len(log) : log' = LogAfter(r, put, over)
      BY <1>2 DEF WriteIsCut
    <2>3. lostEvents \subseteq lostEvents' /\ spoilt' # {} /\ \A e \in Range(events) : e \in lostEvents' \/ e \in Range(log')
      BY <2>1
    <2>4. QED
      BY <2>1, <2>2, <2>3, RewriteIsOver
  <1>3. QED
    BY <1>1, <1>2

LEMMA LoadReposStep == ASSUME ServerIInv, NEW r \in Askers, LoadRepos(r) PROVE ServerIInv'
  <1> DEFINE others == Now({"registering", "saving"})
  <1>1. PICK id \in RepoIds : loaded' = [loaded EXCEPT ![r] = [@ EXCEPT !.repos = repos, !.id = id]]
    BY DEF LoadRepos
  <1>2. /\ readable /\ UNCHANGED <<day, made, repos, readable, logVars>>
        /\ lostRepos' = IF others # {} THEN lostRepos \cup others \cup {r} ELSE lostRepos
    BY DEF LoadRepos
  <1>3. /\ does[r] = "nothing" /\ does'[r] = "registering" /\ \A s \in Askers : s # r => does'[s] = does[s]
        /\ does' \in [Askers -> Works]
    BY WorkChanges DEF LoadRepos, ServerIInv, Works
  <1>4. /\ loaded'[r].repos = repos /\ loaded'[r].id = id
        /\ \A s \in Askers : s # r => loaded'[s] = loaded[s]
    BY <1>1 DEF ServerIInv, ServerTypes
  <1>5. ServerTypes'
    BY <1>1, <1>2, <1>3 DEF ServerIInv, ServerTypes, logVars
  <1>6. LogInv'
    <2>1. day' \in Nat /\ day <= day'
      BY <1>2 DEF ServerIInv, ServerTypes
    <2>2. \A s \in Askers : /\ does[s] # "nothing" => does'[s] # "nothing"
                            /\ does'[s] = "rewriting" <=> does[s] = "rewriting"
                            /\ Cleans(does'[s]) => Cleans(does[s]) /\ loaded'[s].events = loaded[s].events
      BY <1>3, <1>4 DEF Cleans
    <2>3. QED
      BY <1>2, <2>1, <2>2, LogStays DEF ServerIInv
  <1>7. ReposInv'
    <2>1. \A s \in Askers : Registers(does'[s]) => loaded'[s].id \in RepoIds
      BY <1>3, <1>4 DEF ServerIInv, ReposInv
    <2>2. ASSUME lostRepos' = {}
          PROVE  lostRepos = {} /\ \A s \in Askers : Registers(does'[s]) => s = r
      BY <1>2, <1>3, <2>2 DEF Now, Registers
    <2>3. QED
      BY <1>2, <1>4, <2>1, <2>2 DEF ServerIInv, ReposInv, NoRepo
  <1>8. QED
    BY <1>5, <1>6, <1>7 DEF ServerIInv

LEMMA EmptyReposStep == ASSUME ServerIInv, NEW r \in Askers, EmptyRepos(r) \/ SaveIsCut(r) PROVE ServerIInv'
  <1>1. /\ UNCHANGED <<day, loaded, made, repos, logVars>> /\ readable' \in BOOLEAN
        /\ \/ /\ Proceeds(r, "registering", "saving") /\ lostRepos' = lostRepos
           \/ /\ Proceeds(r, "saving", "done") /\ lostRepos' = lostRepos \cup {r}
    BY DEF EmptyRepos, SaveIsCut, ServerIInv, ServerTypes
  <1>2. /\ Registers(does[r]) /\ \A s \in Askers : s # r => does'[s] = does[s]
        /\ does' \in [Askers -> Works] /\ does'[r] \in {"saving", "done"} /\ does[r] \in {"registering", "saving"}
        /\ does'[r] = "saving" \/ lostRepos' # {}
    <2>1. CASE Proceeds(r, "registering", "saving") /\ lostRepos' = lostRepos
      BY <2>1, WorkChanges DEF ServerIInv, Works, Registers
    <2>2. CASE Proceeds(r, "saving", "done") /\ lostRepos' = lostRepos \cup {r}
      BY <2>2, WorkChanges DEF ServerIInv, Works, Registers
    <2>3. QED
      BY <1>1, <2>1, <2>2
  <1>3. ServerTypes' /\ day' \in Nat /\ day <= day'
    BY <1>1, <1>2 DEF ServerIInv, ServerTypes, logVars
  <1>4. LogInv'
    <2>1. \A s \in Askers : /\ does[s] # "nothing" => does'[s] # "nothing"
                            /\ does'[s] = "rewriting" <=> does[s] = "rewriting"
                            /\ Cleans(does'[s]) => Cleans(does[s])
      BY <1>2 DEF Cleans
    <2>2. QED
      BY <1>1, <1>3, <2>1, LogStays DEF ServerIInv
  <1>5. ReposInv'
    <2>1. \A s \in Askers : Registers(does'[s]) => Registers(does[s])
      BY <1>2
    <2>2. \A s \in Askers : Registers(does'[s]) => loaded[s].id \in RepoIds
      BY <2>1 DEF ServerIInv, ReposInv
    <2>3. ASSUME lostRepos' = {} PROVE lostRepos = {} /\ r \in Now({"saving"})'
      BY <1>1, <1>2, <2>3 DEF Now
    <2>4. QED
      BY <1>1, <2>1, <2>2, <2>3 DEF ServerIInv, ReposInv, NoRepo
  <1>6. QED
    BY <1>3, <1>4, <1>5 DEF ServerIInv

LEMMA SaveReposStep == ASSUME ServerIInv, NEW r \in Askers, SaveRepos(r) PROVE ServerIInv'
  <1> DEFINE id == loaded[r].id
             old == loaded[r].repos[id]
             entry == [by |-> r, since |-> IF old = NoRepo THEN day ELSE old.since]
             mark == [id |-> id, by |-> r, first |-> FirstDay(id)]
  <1>1. /\ repos' = [loaded[r].repos EXCEPT ![id] = entry]
        /\ made' = {m \in made : m.id # id} \cup {mark}
        /\ readable' \in IF r \in lostRepos THEN BOOLEAN ELSE {TRUE}
        /\ UNCHANGED <<day, loaded, lostRepos, logVars>>
    BY DEF SaveRepos
  <1>3. /\ does[r] = "saving" /\ Registers(does[r]) /\ does'[r] = "done"
        /\ \A s \in Askers : s # r => does'[s] = does[s]
        /\ does' \in [Askers -> Works]
    BY WorkChanges DEF SaveRepos, ServerIInv, Works, Registers
  <1>2. id \in RepoIds /\ day \in Nat /\ loaded[r].repos \in [RepoIds -> RepoEntry] /\ old \in RepoEntry
    BY <1>3 DEF ServerIInv, ServerTypes, ReposInv
  <1>4. \A m \in made : m.id \in RepoIds /\ m.by \in Askers /\ m.first \in Nat
    BY DEF ServerIInv, ServerTypes
  <1>5. /\ FirstDay(id) \in Nat
        /\ \A m \in made : m.id = id => FirstDay(id) = m.first
        /\ (~ \E m \in made : m.id = id) => FirstDay(id) = day
    <2> HIDE DEF id
    <2>1. \A l, m \in made : l.id = m.id => l = m
      BY DEF ServerIInv, ReposInv
    <2>2. ASSUME NEW m \in made, m.id = id PROVE FirstDay(id) = m.first
      <3>1. (CHOOSE l \in made : l.id = id) = m
        BY <2>1, <2>2
      <3>2. QED
        BY <2>2, <3>1 DEF FirstDay
    <2>3. (~ \E m \in made : m.id = id) => FirstDay(id) = day
      BY DEF FirstDay
    <2>4. QED
      BY <1>2, <1>4, <2>2, <2>3
  <1>6. mark \in [id : RepoIds, by : Askers, first : Nat] /\ mark.id = id /\ mark.by = r /\ mark.first = FirstDay(id)
    BY <1>2, <1>5
  <1>7. entry \in RepoEntry /\ entry # NoRepo /\ entry.by = r
    BY <1>2, ServerFilesAssumption DEF RepoEntry, NoRepo
  <1>8. ServerTypes'
    <2> HIDE DEF mark, entry, id
    <2>1. repos' \in [RepoIds -> RepoEntry]
      BY <1>1, <1>2, <1>7
    <2>2. made' \in SUBSET [id : RepoIds, by : Askers, first : Nat]
      BY <1>1, <1>6 DEF ServerIInv, ServerTypes
    <2>3. QED
      BY <1>1, <1>3, <2>1, <2>2 DEF ServerIInv, ServerTypes, logVars
  <1>9. LogInv'
    <2>1. day' \in Nat /\ day <= day'
      BY <1>1, <1>2
    <2>2. \A s \in Askers : /\ does[s] # "nothing" => does'[s] # "nothing"
                            /\ does'[s] = "rewriting" <=> does[s] = "rewriting"
                            /\ Cleans(does'[s]) => Cleans(does[s])
      BY <1>3 DEF Cleans
    <2>3. QED
      BY <1>1, <2>1, <2>2, LogStays DEF ServerIInv
  <1>10. ReposInv'
    <2>1. \A l, m \in made' : l.id = m.id => l = m
      <3> HIDE DEF mark, id
      <3>1. QED
        BY <1>1, <1>6 DEF ServerIInv, ReposInv
    <2>2. \A s \in Askers : Registers(does'[s]) => s # r /\ Registers(does[s])
      BY <1>3 DEF Registers
    <2>3. \A s \in Askers : Registers(does'[s]) => loaded'[s].id \in RepoIds
      BY <1>1, <2>2 DEF ServerIInv, ReposInv
    <2>4. ASSUME lostRepos' = {}
          PROVE  /\ readable'
                 /\ \A s \in Askers : ~Registers(does'[s])
                 /\ \A i \in RepoIds : repos'[i] = NoRepo => ~ \E m \in made' : m.id = i
                 /\ \A i \in RepoIds : repos'[i] # NoRepo => \E m \in made' : m.id = i
                 /\ \A m \in made' : repos'[m.id] = [by |-> m.by, since |-> m.first]
      <3>1. lostRepos = {}
        BY <1>1, <2>4
      <3>2. loaded[r].repos = repos /\ \A s \in Askers : Registers(does[s]) => s = r
        BY <1>3, <3>1 DEF ServerIInv, ReposInv
      <3>3. old = repos[id]
        BY <3>2
      <3>4. entry = [by |-> r, since |-> FirstDay(id)]
        <4>1. CASE old = NoRepo
          <5>1. ~ \E m \in made : m.id = id
            BY <1>2, <3>1, <3>3, <4>1 DEF ServerIInv, ReposInv
          <5>2. QED
            BY <1>5, <4>1, <5>1
        <4>2. CASE old # NoRepo
          <5>1. PICK m \in made : m.id = id
            BY <1>2, <3>1, <3>3, <4>2 DEF ServerIInv, ReposInv
          <5>2. repos[id] = [by |-> m.by, since |-> m.first]
            BY <3>1, <5>1 DEF ServerIInv, ReposInv
          <5>3. old.since = m.first
            BY <3>3, <5>2
          <5>4. QED
            BY <1>5, <4>2, <5>1, <5>3
        <4>3. QED
          BY <4>1, <4>2
      <3> HIDE DEF mark, entry, id, old
      <3>5. /\ repos \in [RepoIds -> RepoEntry] /\ repos'[id] = entry
            /\ \A i \in RepoIds : i # id => repos'[i] = repos[i]
        BY <1>1, <1>2, <3>2 DEF ServerIInv, ServerTypes
      <3>6. /\ \A i \in RepoIds : repos[i] = NoRepo => ~ \E m \in made : m.id = i
            /\ \A i \in RepoIds : repos[i] # NoRepo => \E m \in made : m.id = i
            /\ \A m \in made : repos[m.id] = [by |-> m.by, since |-> m.first]
        BY <3>1 DEF ServerIInv, ReposInv
      <3>7. /\ \A m \in made : m.id # id => m \in made'
            /\ mark \in made' /\ \A m \in made' : m = mark \/ (m \in made /\ m.id # id)
        BY <1>1
      <3>8. readable' /\ \A s \in Askers : ~Registers(does'[s])
        BY <1>1, <2>2, <3>1, <3>2
      <3>9. \A i \in RepoIds : repos'[i] = NoRepo => ~ \E m \in made' : m.id = i
        BY <1>6, <1>7, <3>5, <3>6, <3>7
      <3>10. ASSUME NEW i \in RepoIds, repos'[i] # NoRepo PROVE \E m \in made' : m.id = i
        <4>1. CASE i = id
          BY <1>6, <3>7, <4>1
        <4>2. CASE i # id
          BY <3>5, <3>6, <3>7, <3>10, <4>2
        <4>3. QED
          BY <4>1, <4>2
      <3>11. \A m \in made' : repos'[m.id] = [by |-> m.by, since |-> m.first]
        BY <1>4, <1>6, <3>4, <3>5, <3>6, <3>7
      <3>12. QED
        BY <3>8, <3>9, <3>10, <3>11
    <2>5. QED
      BY <2>1, <2>3, <2>4 DEF ReposInv, NoRepo
  <1>11. QED
    BY <1>8, <1>9, <1>10 DEF ServerIInv

LEMMA ServerStep == ServerIInv /\ [ServerNext]_serverVars => ServerIInv'
  <1> SUFFICES ASSUME ServerIInv, [ServerNext]_serverVars PROVE ServerIInv'
    OBVIOUS
  <1>1. CASE DayPasses
    BY <1>1, DayStep
  <1>2. ASSUME NEW r \in Askers, AppendEvent(r) \/ AppendIsCut(r) \/ ReadLog(r) \/ EmptyLog(r)
        PROVE  ServerIInv'
    BY <1>2, AppendEventStep, AppendIsCutStep, ReadLogStep, EmptyLogStep
  <1>3. ASSUME NEW r \in Askers, WriteLog(r) \/ WriteIsCut(r) \/ LoadRepos(r) \/ RegistrationFails(r)
        PROVE  ServerIInv'
    BY <1>3, WriteLogStep, LoadReposStep, StopsStep
  <1>4. ASSUME NEW r \in Askers, EmptyRepos(r) \/ SaveRepos(r) \/ SaveIsCut(r) \/ Stops(r)
        PROVE  ServerIInv'
    BY <1>4, EmptyReposStep, SaveReposStep, StopsStep
  <1>5. CASE UNCHANGED serverVars
    <2> USE DEF serverVars, logVars, repoVars
    <2>1. ServerTypes' /\ day' \in Nat /\ day <= day'
      BY <1>5 DEF ServerIInv, ServerTypes
    <2>2. LogInv'
      BY <1>5, <2>1, LogStays DEF ServerIInv
    <2>3. ReposInv'
      BY <1>5, ReposStay DEF ServerIInv
    <2>4. QED
      BY <2>1, <2>2, <2>3 DEF ServerIInv
  <1>6. QED
    BY <1>1, <1>2, <1>3, <1>4, <1>5 DEF ServerNext

(* Once a cleanup is over, an event that is to be kept has its line in the *)
(* log, however little of the log the cleanup read, but for one appended   *)
(* while a cleanup was under way or cut with its rewrite; the log answers  *)
(* nothing only after a write to it was cut or fell into a rewrite; and a  *)
(* repository stays registered in a registry that can be read, unless      *)
(* registrations overlapped or a save was cut: FileAuditLog and            *)
(* RepoRegistryStore, for any number of requests, events and days.         *)
THEOREM ServerSafety == ServerSpec => []ServerFilesAreKept
  <1>1. ServerIInv => ServerFilesAreKept
    <2> SUFFICES ASSUME ServerIInv PROVE ServerFilesAreKept
      OBVIOUS
    <2>1. EventsAreKept
      <3>1. log \in Chronicle /\ Len(log) \in Nat /\ DOMAIN log = 1 .. Len(log)
        BY DEF ServerIInv, ServerTypes, Chronicle
      <3>2. Range(log) = {log[p] : p \in 1 .. Len(log)}
        BY <3>1 DEF Range
      <3>3. Now({"rewriting"}) = {} => \A e \in logged : IsYoung(e) => e \in Range(log) \cup lostEvents
        BY <3>2 DEF ServerIInv, LogInv, Missing, Faithful, IsYoung
      <3>4. IsInjective(log)
        BY <3>1 DEF IsInjective, ServerIInv, LogInv, Faithful, Distinct
      <3>5. garbled => spoilt # {}
        BY DEF ServerIInv, LogInv
      <3>6. QED
        BY <3>3, <3>4, <3>5 DEF EventsAreKept
    <2>2. ReposAreKept
      BY DEF ServerIInv, ReposInv, ReposAreKept
    <2>3. QED
      BY <2>1, <2>2 DEF ServerFilesAreKept
  <1>2. QED
    BY <1>1, ServerInitInv, ServerStep, PTL DEF ServerSpec
=============================================================================
