----------------------------- MODULE ServerFiles -----------------------------
(* Two files of the server that its requests share: the audit log, to      *)
(* which each request appends and which a cleanup rewrites without the old *)
(* events (core/audit-log.ts), and the registry of repositories, which a   *)
(* registration loads and saves whole (repos/repo-registry.ts).  Both are  *)
(* rewritten in place: the file is emptied first and filled afterwards,    *)
(* and either write may be the last thing a server does.                   *)
EXTENDS Integers, Sequences, FiniteSets, SequencesExt

CONSTANTS
    Askers,      \* requests that append an event, register a repository, or clean up
    RepoIds,       \* the ids that are registered
    KeptDays,      \* the days of the retention
    ReadLimit,     \* how many events a cleanup reads: 10000
    LastDay        \* bounds the clock

ASSUME ServerFilesAssumption ==
    KeptDays \in Nat /\ ReadLimit \in Nat \ {0} /\ LastDay \in Nat /\ "none" \notin Askers

VARIABLES
    day, logged, made, does, loaded,
    log,            \* the events of the audit log's lines
    garbled,           \* it has a line that is no event
    repos,          \* what the registry says
    readable,       \* it is whole
    lostEvents,     \* appended while a cleanup was under way, or cut with what it wrote
    spoilt,         \* requests whose write to the log was cut, or fell into a rewrite
    lostRepos       \* registered by requests that overlapped, or whose save was cut

serverVars == <<day, logged, made, does, loaded, log, garbled, repos, readable,
                lostEvents, spoilt, lostRepos>>
logVars == <<logged, log, garbled, lostEvents, spoilt>>
repoVars == <<made, repos, readable, lostRepos>>

NoRepo == [by |-> "none", since |-> 0]

ServerInit ==
    /\ day = 0 /\ log = <<>> /\ logged = {} /\ made = {} /\ garbled = FALSE /\ readable = TRUE
    /\ repos = [id \in RepoIds |-> NoRepo]
    /\ does = [r \in Askers |-> "nothing"]
    /\ loaded = [r \in Askers |-> [events |-> <<>>, repos |-> [id \in RepoIds |-> NoRepo], id |-> "none"]]
    /\ lostEvents = {} /\ spoilt = {} /\ lostRepos = {}

Now(what) == {r \in Askers : does[r] \in what}
Proceeds(r, from, to) == does[r] = from /\ does' = [does EXCEPT ![r] = to]

DayPasses ==
    /\ day < LastDay /\ day' = day + 1
    /\ UNCHANGED <<does, loaded, logVars, repoVars>>

(* FileAuditLog.append.  What a rewrite is about to put in the log does    *)
(* not have the event; and a line that was cut takes the next one with it. *)
AppendEvent(r) ==
    LET event == [by |-> r, day |-> day]
    IN /\ Proceeds(r, "nothing", "done")
       /\ logged' = logged \cup {event}
       /\ \/ /\ log' = Append(log, event)
             /\ lostEvents' = IF Now({"cleaning", "rewriting"}) # {} THEN lostEvents \cup {event} ELSE lostEvents
          \/ garbled /\ log' = log /\ lostEvents' = lostEvents \cup {event}
       /\ spoilt' = IF Now({"rewriting"}) # {} THEN spoilt \cup {r} ELSE spoilt
       /\ UNCHANGED <<day, loaded, garbled, repoVars>>

(* A part of the line was written.                                         *)
AppendIsCut(r) ==
    /\ Proceeds(r, "nothing", "done")
    /\ garbled' = TRUE /\ spoilt' = spoilt \cup {r}
    /\ UNCHANGED <<day, loaded, logged, log, lostEvents, repoVars>>

(* FileAuditLog.runRetentionCleanup: of the newest events (list), those    *)
(* that are young; nothing is written when they all are.  No event is read *)
(* of a log with a line that is none.                                      *)
IsYoung(event) == day - event.day <= KeptDays
Young(events) ==
    LET young[i \in 0 .. Len(events)] ==
          IF i = 0 THEN <<>>
          ELSE IF IsYoung(events[i]) THEN Append(young[i - 1], events[i]) ELSE young[i - 1]
    IN young[Len(events)]
ReadEvents ==
    IF garbled THEN <<>>
    ELSE SubSeq(log, IF Len(log) > ReadLimit THEN Len(log) - ReadLimit + 1 ELSE 1, Len(log))

(* A server cleans up when it starts and once a day.                       *)
ReadLog(r) ==
    /\ Now({"cleaning", "rewriting"}) = {}
    /\ loaded' = [loaded EXCEPT ![r].events = Young(ReadEvents)]
    /\ Proceeds(r, "nothing", IF Young(ReadEvents) = ReadEvents THEN "done" ELSE "cleaning")
    /\ UNCHANGED <<day, logVars, repoVars>>

EmptyLog(r) ==
    /\ Proceeds(r, "cleaning", "rewriting")
    /\ log' = <<>> /\ garbled' = FALSE
    /\ UNCHANGED <<day, loaded, logged, lostEvents, spoilt, repoVars>>

(* The first events of the rewrite, over the first lines that were         *)
(* appended since the log was emptied.                                     *)
LogAfter(r, written, over) ==
    SubSeq(loaded[r].events, 1, written) \o SubSeq(log, over + 1, Len(log))

WriteLog(r) ==
    LET events == loaded[r].events
    IN /\ Proceeds(r, "rewriting", "done")
       /\ \E over \in 0 .. Len(log) :
            /\ over = 0 <=> events = <<>> \/ log = <<>>
            /\ log' = LogAfter(r, Len(events), over)
       /\ garbled' \in IF events # <<>> /\ (log # <<>> \/ garbled) THEN BOOLEAN ELSE {garbled}
       /\ UNCHANGED <<day, loaded, logged, lostEvents, spoilt, repoVars>>

(* The disk is full, or the server dies.                                   *)
WriteIsCut(r) ==
    /\ Proceeds(r, "rewriting", "done")
    /\ \E written \in 0 .. Len(loaded[r].events), over \in 0 .. Len(log) : log' = LogAfter(r, written, over)
    /\ lostEvents' = lostEvents \cup (Range(loaded[r].events) \ Range(log'))
    /\ garbled' \in BOOLEAN /\ spoilt' = spoilt \cup {r}
    /\ UNCHANGED <<day, loaded, logged, repoVars>>

(* RepoRegistryStore.register: loads the file, and saves it with the entry.*)
LoadRepos(r) ==
    LET others == Now({"registering", "saving"})
    IN /\ readable
       /\ \E id \in RepoIds : loaded' = [loaded EXCEPT ![r] = [@ EXCEPT !.repos = repos, !.id = id]]
       /\ Proceeds(r, "nothing", "registering")
       /\ lostRepos' = IF others # {} THEN lostRepos \cup others \cup {r} ELSE lostRepos
       /\ UNCHANGED <<day, made, repos, readable, logVars>>

(* load throws on a file that is there and is not whole.                   *)
RegistrationFails(r) ==
    /\ ~readable
    /\ Proceeds(r, "nothing", "done")
    /\ UNCHANGED <<day, loaded, logVars, repoVars>>

EmptyRepos(r) ==
    /\ Proceeds(r, "registering", "saving")
    /\ readable' = FALSE
    /\ UNCHANGED <<day, loaded, made, repos, lostRepos, logVars>>

FirstDay(id) == IF \E m \in made : m.id = id THEN (CHOOSE m \in made : m.id = id).first ELSE day

(* Two saves may leave what neither wrote.                                 *)
SaveRepos(r) ==
    LET id == loaded[r].id
        old == loaded[r].repos[id]
    IN /\ Proceeds(r, "saving", "done")
       /\ repos' = [loaded[r].repos EXCEPT ![id] = [by |-> r, since |-> IF old = NoRepo THEN day ELSE old.since]]
       /\ readable' \in IF r \in lostRepos THEN BOOLEAN ELSE {TRUE}
       /\ made' = {m \in made : m.id # id} \cup {[id |-> id, by |-> r, first |-> FirstDay(id)]}
       /\ UNCHANGED <<day, loaded, lostRepos, logVars>>

SaveIsCut(r) ==
    /\ Proceeds(r, "saving", "done")
    /\ lostRepos' = lostRepos \cup {r}
    /\ UNCHANGED <<day, loaded, made, repos, readable, logVars>>

(* The server dies between a read and the write after it.                  *)
Stops(r) ==
    /\ Proceeds(r, "cleaning", "done") \/ Proceeds(r, "registering", "done")
    /\ UNCHANGED <<day, loaded, logVars, repoVars>>

ServerNext ==
    \/ DayPasses
    \/ \E r \in Askers :
         \/ AppendEvent(r) \/ AppendIsCut(r) \/ ReadLog(r) \/ EmptyLog(r) \/ WriteLog(r) \/ WriteIsCut(r)
         \/ LoadRepos(r) \/ RegistrationFails(r) \/ EmptyRepos(r) \/ SaveRepos(r) \/ SaveIsCut(r)
         \/ Stops(r)

ServerSpec == ServerInit /\ [][ServerNext]_serverVars

(* Once a cleanup is over, an event that is to be kept has its line in the *)
(* log, whatever cleaned up and however little of the log it read, but for *)
(* one appended while a cleanup was under way or cut with its rewrite; no  *)
(* event is there twice; and the log has a line that is no event, with     *)
(* which list answers nothing at all, only when a write to it was cut or   *)
(* an append fell into a rewrite.                                          *)
EventsAreKept ==
    /\ Now({"rewriting"}) = {} => \A e \in logged : IsYoung(e) => e \in Range(log) \cup lostEvents
    /\ IsInjective(log)
    /\ garbled => spoilt # {}

(* The registry can be read but while it is being saved, and a repository  *)
(* stays registered, by the last that registered it and since it first     *)
(* was, unless two registrations overlapped or a save was cut.             *)
ReposAreKept ==
    lostRepos = {} =>
        /\ readable \/ Now({"saving"}) # {}
        /\ \A m \in made : repos[m.id] = [by |-> m.by, since |-> m.first]

(* What a request can rely on of the server's files.                       *)
ServerFilesAreKept == EventsAreKept /\ ReposAreKept
=============================================================================
