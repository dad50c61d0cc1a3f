----------------------------- MODULE MemoryFile -----------------------------
(* The memories of a repository (memory/local-file.ts): one line for each  *)
(* run, appended to a file that is then read back and cut to its newest    *)
(* entries.  Runs of several processes end at any time; none of the three  *)
(* steps excludes those of another run, and a process may die in the       *)
(* middle of its line, which every later append then continues.            *)
EXTENDS Integers, Sequences, FiniteSets, SequencesExt

CONSTANTS
    MemoryRuns,    \* the runs that end, each with one memory
    MaxEntries     \* max_entries

ASSUME MemoryAssumption == MaxEntries \in Nat \ {0} /\ "torn" \notin MemoryRuns

VARIABLES
    lines,      \* the file: a sequence of runs, or "torn" for a line that is no JSON
    torn,       \* the last line has no end
    ending,      \* run -> where storeRunSummary stands
    kept,       \* run -> what it read back
    appended,   \* the memories in the order they were appended
    crossed     \* appends that came between a run's read and its write

memoryVars == <<lines, torn, ending, kept, appended, crossed>>

MemoryInit ==
    /\ lines = <<>> /\ torn = FALSE /\ appended = <<>> /\ crossed = {}
    /\ ending = [r \in MemoryRuns |-> "running"]
    /\ kept = [r \in MemoryRuns |-> <<>>]

(* readEntries: one line that cannot be parsed and there are none.         *)
ReadEntries == IF torn \/ "torn" \in Range(lines) THEN <<>> ELSE lines

(* Mutant: the oldest entries are kept.                                    *)
NewestOldest(entries) == SubSeq(entries, 1, MaxEntries)

(* trimIfNeeded: the newest entries.                                       *)
Newest(entries) == SubSeq(entries, Len(entries) - MaxEntries + 1, Len(entries))

Trimming == {r \in MemoryRuns : ending[r] = "trimming"}

AppendMemory(r) ==
    /\ ending[r] = "running"
    /\ lines' = Append(lines, IF torn THEN "torn" ELSE r)
    /\ torn' = FALSE
    /\ appended' = Append(appended, r)
    /\ crossed' = IF Trimming # {} THEN crossed \cup {r} ELSE crossed
    /\ ending' = [ending EXCEPT ![r] = "appended"]
    /\ UNCHANGED kept

(* The process dies while it appends: no end of line, no further step.     *)
AppendTorn(r) ==
    /\ ending[r] = "running"
    /\ torn' = TRUE
    /\ ending' = [ending EXCEPT ![r] = "dead"]
    /\ UNCHANGED <<lines, kept, appended, crossed>>

(* Mutant: a run trims when its file is full, not when it is over.         *)
ReadMemoriesEarly(r) ==
    /\ ending[r] = "appended"
    /\ kept' = [kept EXCEPT ![r] = ReadEntries]
    /\ ending' = [ending EXCEPT ![r] = IF Len(ReadEntries) < MaxEntries + 2 THEN "done" ELSE "trimming"]
    /\ UNCHANGED <<lines, torn, appended, crossed>>

ReadMemories(r) ==
    /\ ending[r] = "appended"
    /\ kept' = [kept EXCEPT ![r] = ReadEntries]
    /\ ending' = [ending EXCEPT ![r] = IF Len(ReadEntries) <= MaxEntries THEN "done" ELSE "trimming"]
    /\ UNCHANGED <<lines, torn, appended, crossed>>

WriteMemories(r) ==
    /\ ending[r] = "trimming"
    /\ lines' = Newest(kept[r])
    /\ torn' = FALSE
    /\ ending' = [ending EXCEPT ![r] = "done"]
    /\ UNCHANGED <<kept, appended, crossed>>

MemoryNext ==
    \E r \in MemoryRuns :
        AppendMemory(r) \/ AppendTorn(r) \/ ReadMemories(r) \/ WriteMemories(r)

MemorySpec == MemoryInit /\ [][MemoryNext]_memoryVars

Died == \E r \in MemoryRuns : ending[r] = "dead"

(* A memory among the newest MaxEntries is in the file, whichever runs     *)
(* trim it at once (storeRunSummary, trimIfNeeded), unless it was appended *)
(* between the read and the write of another one, or a process died in     *)
(* its line.  Those two lose memories that were reported as stored.        *)
NewestAreKept ==
    ~Died =>
        \A i \in DOMAIN appended :
            i > Len(appended) - MaxEntries => appended[i] \in Range(lines) \cup crossed

(* When no run is in the middle of it, the file is within its bound,       *)
(* whatever they wrote over each other, unless a torn line hides it from   *)
(* all of them: then it grows for ever.                                    *)
FileIsBounded ==
    (~Died /\ \A r \in MemoryRuns : ending[r] \in {"running", "done"}) => Len(lines) <= MaxEntries

(* What a run that stored its memory can rely on.                          *)
MemoryIsKept == NewestAreKept /\ FileIsBounded
=============================================================================
