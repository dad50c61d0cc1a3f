------------------------------ MODULE JobLock ------------------------------
(* The lock that guards one job record, which the models of the queue and  *)
(* of the leases take for granted: a file beside the record, made with     *)
(* "wx" (core/job-repositories.ts), or a row of a table                    *)
(* (core/postgres-job-repository.ts).                                      *)
(*                                                                         *)
(* A process that dies leaves its lock behind, so a lock older than thirty *)
(* seconds may be taken.  The file is unlinked by its path, whoever made   *)
(* it; the row is deleted by its expiry, by its owner, and by who deletes  *)
(* the record, as a delete takes no lock.                                  *)
EXTENDS Integers

CONSTANTS
    Procs,    \* the processes that contend for the lock
    NoOwner,  \* the owner of a lock that is not there
    LockTtl   \* the age at which a lock counts as abandoned

ASSUME LockAssumption == LockTtl \in Nat /\ NoOwner \notin Procs

VARIABLES
    store,    \* "file" or "postgres"
    lock,     \* the lock: who made it, and its age; or none
    proc,     \* per process: its place, its try, the age of its hold
    stolen,   \* history: a file was unlinked by another than its holder
    cut       \* history: the holders whose row a delete of the record removed

lockVars == <<store, lock, proc, stolen, cut>>

Free == [owner |-> NoOwner, age |-> 0]
Away == [at |-> "away", try |-> 1, age |-> 0]
Ages == 0 .. LockTtl + 1

LockInit ==
    /\ store \in {"file", "postgres"}
    /\ lock = Free
    /\ proc = [p \in Procs |-> Away]
    /\ stolen = FALSE
    /\ cut = {}

Held == lock.owner # NoOwner
Holds(p) == proc[p].at = "hold"
Goes(p, at) == proc' = [proc EXCEPT ![p].at = at]
Leaves(p) == proc' = [proc EXCEPT ![p] = Away]

(* acquireLock: the file is opened at once, the expired row deleted first. *)
Acquire(p) ==
    /\ proc[p].at = "away"
    /\ Goes(p, IF store = "file" THEN "make" ELSE "expire")
    /\ UNCHANGED <<store, lock, stolen, cut>>

Take(p) ==
    /\ lock' = [owner |-> p, age |-> 0]
    /\ proc' = [proc EXCEPT ![p].at = "hold", ![p].age = 0]

(* open with "wx", INSERT ON CONFLICT DO NOTHING.                          *)
Make(p) ==
    /\ proc[p].at = "make"
    /\ IF ~Held THEN Take(p)
       ELSE /\ UNCHANGED lock
            /\ IF store = "file" THEN Goes(p, "stat") ELSE Leaves(p)
    /\ UNCHANGED <<store, stolen, cut>>

(* A lock that is gone by now is not tried again.                          *)
Stat(p) ==
    /\ proc[p].at = "stat"
    /\ IF Held /\ lock.age > LockTtl THEN Goes(p, "unlink") ELSE Leaves(p)
    /\ UNCHANGED <<store, lock, stolen, cut>>

(* The path is unlinked, whatever file is there by now; the second try is  *)
(* the last.                                                               *)
UnlinkAbandoned(p) ==
    /\ proc[p].at = "unlink"
    /\ lock' = Free
    /\ stolen' = TRUE
    /\ IF proc[p].try = 1
       THEN proc' = [proc EXCEPT ![p].at = "make", ![p].try = 2]
       ELSE Leaves(p)
    /\ UNCHANGED <<store, cut>>

(* Mutant: the row is deleted whether it has expired or not.               *)
DeleteAny(p) ==
    /\ proc[p].at = "expire"
    /\ lock' = Free
    /\ Goes(p, "make")
    /\ UNCHANGED <<store, stolen, cut>>

DeleteExpired(p) ==
    /\ proc[p].at = "expire"
    /\ lock' = IF lock.age > LockTtl THEN Free ELSE lock
    /\ Goes(p, "make")
    /\ UNCHANGED <<store, stolen, cut>>

(* The holder unlinks the path; the row must still be its own.             *)
ReleaseLock(p) ==
    /\ proc[p].at = "hold"
    /\ lock' = IF store = "file" \/ lock.owner = p THEN Free ELSE lock
    /\ Leaves(p)
    /\ cut' = cut \ {p}
    /\ UNCHANGED <<store, stolen>>

HolderDies(p) ==
    /\ proc[p].at # "away"
    /\ Leaves(p)
    /\ cut' = cut \ {p}
    /\ UNCHANGED <<store, lock, stolen>>

(* delete: by a request or by the retention cleanup, neither of which      *)
(* holds the lock.  The row goes with the record, the lock file stays.     *)
DropLock ==
    /\ store = "postgres" /\ Held
    /\ lock' = Free
    /\ cut' = cut \cup {p \in Procs : Holds(p) /\ lock.owner = p}
    /\ UNCHANGED <<store, proc, stolen>>

Older(a) == IF a > LockTtl THEN a ELSE a + 1

TimePasses ==
    /\ lock' = IF Held THEN [lock EXCEPT !.age = Older(@)] ELSE lock
    /\ proc' = [p \in Procs |-> IF proc[p].at = "hold"
                                THEN [proc[p] EXCEPT !.age = Older(@)] ELSE proc[p]]
    /\ UNCHANGED <<store, stolen, cut>>

LockNext ==
    \/ \E p \in Procs :
         \/ Acquire(p) \/ Make(p) \/ Stat(p) \/ UnlinkAbandoned(p)
         \/ DeleteExpired(p) \/ ReleaseLock(p) \/ HolderDies(p)
    \/ DropLock
    \/ TimePasses

LockSpec == LockInit /\ [][LockNext]_lockVars

----------------------------------------------------------------------------
(* The lock and the processes keep their shape.                            *)
LockTypeOK ==
    /\ store \in {"file", "postgres"}
    /\ lock \in [owner : Procs \cup {NoOwner}, age : Ages]
    /\ proc \in [Procs -> [at : {"away", "make", "stat", "unlink", "expire", "hold"},
                           try : {1, 2}, age : Ages]]
    /\ stolen \in BOOLEAN
    /\ cut \subseteq Procs

(* Two processes hold the row at a time only when one of them has held it  *)
(* longer than it may, or a delete of the record has removed its row under *)
(* it, whoever died and however the tries interleave (acquireLock, release *)
(* and delete of PostgresJobRepository).                                   *)
InTime(p) == Holds(p) /\ proc[p].age <= LockTtl /\ p \notin cut
RowExcludes ==
    store = "postgres" => \A p, q \in Procs : InTime(p) /\ InTime(q) => p = q

(* Two processes hold the file at a time only after some process took a    *)
(* lock for abandoned (acquireFileJobLock): between two such thefts, or    *)
(* after a slow holder's release, that is no longer so.                    *)
FileExcludes ==
    (store = "file" /\ ~stolen) =>
        \A p, q \in Procs : Holds(p) /\ Holds(q) => p = q

(* What the lock of a job record promises, in both stores.                 *)
LockIsSafe == LockTypeOK /\ RowExcludes /\ FileExcludes
=============================================================================
