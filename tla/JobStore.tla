------------------------------ MODULE JobStore ------------------------------
(* One job record in the three stores of core/job-repositories.ts and      *)
(* core/postgres-job-repository.ts.  The database stores keep a row and a  *)
(* snapshot file, written one after the other; a read takes the row, and   *)
(* the snapshot when there is none.  A server that starts imports the      *)
(* snapshots while it already answers requests.                            *)
(*                                                                         *)
(* A record is the number of the write that made it.  Most writes hold the *)
(* job lock (JobLock); some do not, nor does a delete or the import, so    *)
(* that each of them may fall between the two halves of another.           *)
EXTENDS Integers

CONSTANT MaxWrites    \* bound: writes of the record

VARIABLES
    kind,     \* "file", "sqlite" or "postgres"
    row,      \* the row of the table; 0 when there is none
    snapshot, \* the snapshot file; 0 when there is none
    writes,   \* the number of the last write begun
    pending,  \* the writes whose snapshot is still to be written
    removal,  \* "unlink" when a delete has still to unlink the snapshot
    import,   \* the import of the server that started last
    upset     \* history: crashes, and writes or deletes that overlapped an import
              \* or writes that overlapped each other

storeVars == <<kind, row, snapshot, writes, pending, removal, import, upset>>
doing == <<pending, removal>>

NoImport == [at |-> "done", read |-> 0]

(* A record of the time before the database may be there as a file.        *)
StoreInit ==
    /\ kind \in {"file", "sqlite", "postgres"}
    /\ row = 0
    /\ \E legacy \in {0, 1} : snapshot = legacy /\ writes = legacy
    /\ pending = {} /\ removal = "none"
    /\ import = [NoImport EXCEPT !.at = "look"]
    /\ upset = [crash |-> FALSE, overlap |-> FALSE]

(* get.                                                                    *)
Record == IF row # 0 THEN row ELSE snapshot

Disturb(how) == upset' = [upset EXCEPT !.overlap = @ \/ import.at # "done" \/ how]

(* write: the row first, the snapshot after it.                            *)
WriteRecord ==
    /\ writes < MaxWrites
    /\ writes' = writes + 1
    /\ IF kind = "file"
       THEN snapshot' = writes + 1 /\ UNCHANGED <<row, pending>>
       ELSE row' = writes + 1 /\ pending' = pending \cup {writes + 1} /\ UNCHANGED snapshot
    /\ Disturb(pending # {})
    /\ UNCHANGED <<kind, removal, import>>

(* The snapshot is of the record that was written, whatever the row is now.*)
WriteSnapshot ==
    \E n \in pending :
        /\ snapshot' = n
        /\ pending' = pending \ {n}
        /\ UNCHANGED <<kind, row, writes, removal, import, upset>>

(* delete: the row first, the snapshot after it, without the lock.         *)
DeleteRecord ==
    /\ removal = "none" /\ Record # 0
    /\ IF kind = "file"
       THEN snapshot' = 0 /\ UNCHANGED <<row, removal>>
       ELSE row' = 0 /\ removal' = "unlink" /\ UNCHANGED snapshot
    /\ Disturb(FALSE)
    /\ UNCHANGED <<kind, writes, pending, import>>

UnlinkSnapshot ==
    /\ removal = "unlink"
    /\ snapshot' = 0
    /\ removal' = "none"
    /\ UNCHANGED <<kind, row, writes, pending, import, upset>>

(* Mutant: the file store imports as well.                                 *)
ImportAlways ==
    /\ import.at = "look"
    /\ import' = IF kind = "sqlite" /\ row # 0 THEN NoImport
                 ELSE [at |-> "read", read |-> 0]
    /\ UNCHANGED <<kind, row, snapshot, writes, doing, upset>>

(* migrateLegacyJobsFromDisk: nothing for the file store; SQLite leaves a  *)
(* record alone that has a row, Postgres does not look.                    *)
ImportLooks ==
    /\ import.at = "look"
    /\ import' = IF kind = "file" \/ (kind = "sqlite" /\ row # 0) THEN NoImport
                 ELSE [at |-> "read", read |-> 0]
    /\ UNCHANGED <<kind, row, snapshot, writes, doing, upset>>

ImportReads ==
    /\ import.at = "read"
    /\ import' = IF snapshot = 0 THEN NoImport ELSE [at |-> "write", read |-> snapshot]
    /\ UNCHANGED <<kind, row, snapshot, writes, doing, upset>>

ImportWrites ==
    /\ import.at = "write"
    /\ row' = import.read
    /\ import' = IF kind = "postgres" THEN [import EXCEPT !.at = "snapshot"] ELSE NoImport
    /\ UNCHANGED <<kind, snapshot, writes, doing, upset>>

ImportSnapshot ==
    /\ import.at = "snapshot"
    /\ snapshot' = import.read
    /\ import' = NoImport
    /\ UNCHANGED <<kind, row, writes, doing, upset>>

(* The server dies and starts again.                                       *)
Restart ==
    /\ pending' = {} /\ removal' = "none"
    /\ import' = [NoImport EXCEPT !.at = "look"]
    /\ upset' = [upset EXCEPT !.crash = @ \/ pending # {} \/ removal # "none" \/ import.at # "done"]
    /\ UNCHANGED <<kind, row, snapshot, writes>>

StoreNext ==
    \/ WriteRecord \/ WriteSnapshot
    \/ DeleteRecord \/ UnlinkSnapshot
    \/ ImportLooks \/ ImportReads \/ ImportWrites \/ ImportSnapshot
    \/ Restart

StoreSpec == StoreInit /\ [][StoreNext]_storeVars

----------------------------------------------------------------------------
(* What a read can rely on.  The file store needs nothing; SQLite needs    *)
(* that nothing overlaps the import and no write another, and Postgres,    *)
(* whose import rewrites every row, no crash half way through a write.     *)
Reliable ==
    \/ kind = "file"
    \/ ~upset.overlap /\ (kind = "sqlite" \/ ~upset.crash)

(* A record never goes back to an earlier write: what a read returned, a   *)
(* later one returns or something newer, across crashes, restarts and what *)
(* comes after a delete, in a store that can be relied on.  Only a delete's*)
(* first half may show an older one, the snapshot it is about to unlink.   *)
NeverGoesBack ==
    (Reliable' /\ Record' # 0) =>
        Record' >= Record \/ (removal = "none" /\ removal' = "unlink")

(* A record that was deleted, its snapshot too, is not there again before  *)
(* it is written anew, as long as no server died half way, but for the     *)
(* write the delete fell into, whose snapshot brings it back whole.        *)
DeletedIsGone ==
    (Reliable' /\ ~upset'.crash /\ Record = 0 /\ Record' # 0) =>
        writes' > writes \/ (Record' = writes /\ writes \in pending)

(* What a step of the stores of a record may do to who reads it.           *)
RecordIsMonotone == NeverGoesBack /\ DeletedIsGone
=============================================================================
