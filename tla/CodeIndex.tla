----------------------------- MODULE CodeIndex ------------------------------
(* The index of the repository's text (core/vector-index.ts): a snapshot   *)
(* on disk that is reused file by file while the files and the settings    *)
(* are as they were, and the chunks a text is cut into.  Every run that    *)
(* selects context brings the index up to date first, while the user and   *)
(* other runs go on editing.                                               *)
EXTENDS Integers, Sequences, FiniteSets, FiniteSetsExt

CONSTANTS
    Sources,     \* the files
    MaxClock,    \* bound: how often the files' clock advances
    Settings     \* the values of chunk_size and its companions

ASSUME IndexAssumption == MaxClock \in Nat

VARIABLES
    disk,       \* file -> [text, mtime]; the size is told by the text
    now,        \* the clock of the file system
    index,   \* index.json, the snapshot: [whole, setting, files -> entry or NoEntry]
    pass,       \* the pass under way (since: the clock when it began)
    setting     \* the settings of the next pass

indexVars == <<disk, now, index, pass, setting>>

NoEntry == [text |-> -1, mtime |-> -1, size |-> -1, setting |-> "none"]
NoSnapshot == [whole |-> FALSE, setting |-> "none", files |-> [f \in Sources |-> NoEntry]]
NoPass == [at |-> "idle", since |-> 0, setting |-> "none", old |-> NoSnapshot, todo |-> {},
           file |-> "none", seen |-> NoEntry, files |-> [f \in Sources |-> NoEntry]]

(* Texts are 0, 1 and 2, the last one longer than the others.              *)
Texts == 0 .. 2
Size(text) == IF text = 2 THEN 2 ELSE 1

IndexInit ==
    /\ disk = [f \in Sources |-> [text |-> 0, mtime |-> 0]]
    /\ now = 0
    /\ index = NoSnapshot
    /\ pass = NoPass
    /\ setting \in Settings

(* A file is saved: the clock has gone on since it was last.               *)
EditFile(f, text) ==
    /\ now < MaxClock
    /\ now' = now + 1
    /\ disk' = [disk EXCEPT ![f] = [text |-> text, mtime |-> now + 1]]
    /\ UNCHANGED <<index, pass, setting>>

ChangeSettings ==
    /\ \E s \in Settings : setting' = s
    /\ UNCHANGED <<disk, now, index, pass>>

(* indexWorkspace: the snapshot is read; one that is torn is none.         *)
BeginPass ==
    /\ pass.at = "idle"
    /\ pass' = [NoPass EXCEPT !.at = "files", !.since = now, !.setting = setting, !.todo = Sources,
                              !.old = IF index.whole THEN index ELSE NoSnapshot]
    /\ UNCHANGED <<disk, now, index, setting>>

(* Mutant: a file that has its old size is not read again.                 *)
ReusableBySize(f) ==
    /\ pass.old.files[f] # NoEntry
    /\ pass.old.files[f].size = Size(disk[f].text)
    /\ pass.old.setting = pass.setting

(* Mutant: the settings of the snapshot are not compared.                  *)
ReusableAnyhow(f) ==
    /\ pass.old.files[f] # NoEntry
    /\ pass.old.files[f].mtime = disk[f].mtime
    /\ pass.old.files[f].size = Size(disk[f].text)

(* The time and the size of the entry, and snapshotMatchesConfig.          *)
Reusable(f) ==
    /\ pass.old.files[f] # NoEntry
    /\ pass.old.files[f].mtime = disk[f].mtime
    /\ pass.old.files[f].size = Size(disk[f].text)
    /\ pass.old.setting = pass.setting

(* A file is looked at: its entry is kept, or it is to be read.            *)
StatFile(f) ==
    /\ pass.at = "files" /\ pass.file = "none" /\ f \in pass.todo
    /\ pass' = IF Reusable(f)
               THEN [pass EXCEPT !.todo = @ \ {f}, !.files[f] = pass.old.files[f]]
               ELSE [pass EXCEPT !.file = f,
                        !.seen = [text |-> -1, mtime |-> disk[f].mtime,
                                  size |-> Size(disk[f].text), setting |-> pass.setting]]
    /\ UNCHANGED <<disk, now, index, setting>>

(* Its text is read, and cut into chunks by the settings of the pass.      *)
ReadSource ==
    /\ pass.at = "files" /\ pass.file # "none"
    /\ pass' = [pass EXCEPT !.todo = @ \ {pass.file}, !.file = "none",
                   !.files[pass.file] = [pass.seen EXCEPT !.text = disk[pass.file].text]]
    /\ UNCHANGED <<disk, now, index, setting>>

(* Mutant: the entries are stamped when they are written.                  *)
BeginWriteStamped ==
    /\ pass.at = "files" /\ pass.todo = {}
    /\ index' = [whole |-> FALSE, setting |-> pass.setting,
                    files |-> [f \in Sources |-> [pass.files[f] EXCEPT !.mtime = disk[f].mtime]]]
    /\ pass' = [pass EXCEPT !.at = "writing"]
    /\ UNCHANGED <<disk, now, setting>>

(* The snapshot is written over the old one, which is torn until it is.    *)
BeginWrite ==
    /\ pass.at = "files" /\ pass.todo = {}
    /\ index' = [whole |-> FALSE, setting |-> pass.setting, files |-> pass.files]
    /\ pass' = [pass EXCEPT !.at = "writing"]
    /\ UNCHANGED <<disk, now, setting>>

EndWrite ==
    /\ pass.at = "writing"
    /\ index' = [index EXCEPT !.whole = TRUE]
    /\ pass' = NoPass
    /\ UNCHANGED <<disk, now, setting>>

(* The process dies; another one begins the next pass.                     *)
PassDies ==
    /\ pass.at # "idle"
    /\ pass' = NoPass
    /\ UNCHANGED <<disk, now, index, setting>>

IndexNext ==
    \/ \E f \in Sources, text \in Texts : EditFile(f, text)
    \/ ChangeSettings
    \/ BeginPass
    \/ \E f \in Sources : StatFile(f)
    \/ ReadSource
    \/ BeginWrite
    \/ EndWrite
    \/ PassDies

IndexSpec == IndexInit /\ [][IndexNext]_indexVars

(* What the index says of a file is what the file says, unless the file    *)
(* has been saved since, which the next pass will see by its time: an edit *)
(* between stat and read, while the snapshot is written or while the       *)
(* process was down never leaves an old text under the new time            *)
(* (indexWorkspace).                                                       *)
IndexHeals ==
    index.whole =>
        \A f \in Sources :
            index.files[f].mtime = disk[f].mtime => index.files[f].text = disk[f].text

(* And a pass that ends has the text of every file that was not saved      *)
(* while it ran, whatever it took over from the snapshot before.           *)
PassIsExact ==
    (~index.whole /\ index'.whole) =>
        \A f \in Sources :
            disk[f].mtime <= pass.since => index'.files[f].text = disk[f].text

(* The entries of an index are all cut by the settings it names            *)
(* (snapshotMatchesConfig), however often they were changed between        *)
(* passes and in the middle of one.                                        *)
ChunksMatchSettings ==
    index.whole =>
        \A f \in Sources : index.files[f] # NoEntry => index.files[f].setting = index.setting

(* What a search of the index can rely on.                                 *)
IndexIsTrue == IndexHeals /\ ChunksMatchSettings

----------------------------------------------------------------------------
(* The chunks of a text that has no symbols.                               *)

ChunkSize(size) == Max({size, 200})
Overlap(size, overlap) == Min({Max({overlap, 0}), ChunkSize(size) \div 2})

(* Mutant: the overlap is not limited by the size of a chunk.              *)
StartsUnlimited(length, size, overlap) ==
    LET start[n \in Nat] ==
          IF n = 0 THEN 0 ELSE Max({start[n - 1] + ChunkSize(size) - overlap, start[n - 1] + 1})
        last == CHOOSE n \in 0 .. length :
                    /\ start[n] + ChunkSize(size) >= length
                    /\ \A k \in 0 .. n - 1 : start[k] + ChunkSize(size) < length
    IN  [i \in 1 .. last + 1 |-> start[i - 1]]

(* chunkTextFixed: where the chunks start, until one reaches the end.      *)
Starts(length, size, overlap) ==
    LET start[n \in Nat] ==
          IF n = 0 THEN 0
          ELSE Max({start[n - 1] + ChunkSize(size) - Overlap(size, overlap), start[n - 1] + 1})
        last == CHOOSE n \in 0 .. length :
                    /\ start[n] + ChunkSize(size) >= length
                    /\ \A k \in 0 .. n - 1 : start[k] + ChunkSize(size) < length
    IN  [i \in 1 .. last + 1 |-> start[i - 1]]

(* Mutant: a line starts at the character that ends the one before.        *)
OffsetToLineEarly(offset, lines) ==
    Cardinality({i \in DOMAIN lines : lines[i] <= offset + 1})

(* offsetToLine: the binary search over the offsets at which lines start.  *)
OffsetToLine(offset, lines) ==
    LET found[span \in Nat \X Int] ==
          LET low == span[1]
              high == span[2]
              middle == (low + high) \div 2
          IN  IF low > high THEN Len(lines)
              ELSE IF /\ offset >= lines[middle + 1]
                      /\ middle + 1 < Len(lines) => offset < lines[middle + 2] THEN middle + 1
              ELSE found[IF offset < lines[middle + 1] THEN <<low, middle - 1>> ELSE <<middle + 1, high>>]
    IN  found[<<0, Len(lines) - 1>>]

(* The chunks cover the text without a gap, each begins after the one      *)
(* before and overlaps it by half a chunk at most, so that a text has no   *)
(* more than twice the chunks it needs (chunkTextFixed).                   *)
ChunksCoverText(length, size, overlap) ==
    LET starts == Starts(length, size, overlap)
        chunk == ChunkSize(size)
    IN  /\ starts[1] = 0 /\ starts[Len(starts)] + chunk >= length
        /\ \A i \in 1 .. Len(starts) - 1 :
              /\ starts[i] < starts[i + 1] /\ starts[i + 1] <= starts[i] + chunk
              /\ 2 * (starts[i + 1] - starts[i]) >= chunk

(* A match is reported at the lines it is in: the binary search finds the  *)
(* last line that starts at or before the offset (offsetToLine).           *)
LineIsFound(offset, lines) ==
    OffsetToLine(offset, lines) = Cardinality({i \in DOMAIN lines : lines[i] <= offset})
=============================================================================
