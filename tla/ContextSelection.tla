-------------------------- MODULE ContextSelection --------------------------
(* The files a provider is shown (core/context-intelligence.ts) and the    *)
(* batches a refactoring is cut into (core/refactor-analysis.ts,           *)
(* core/blast-radius.ts), from the graph of imports                        *)
(* (core/dependency-graph.ts).  Files are numbers, in the order of their   *)
(* paths.                                                                  *)
EXTENDS Integers, Sequences, FiniteSets, FiniteSetsExt, SequencesExt

----------------------------------------------------------------------------
(* The graph: g has the imports as pairs of files and the top directory of *)
(* every file.                                                             *)

(* buildGraph: the imports that are met from the entry files on.  What     *)
(* imports an entry is known only when it is met itself.                   *)
Met(g, entries) ==
    LET met[n \in 0 .. Cardinality(g.imports)] ==
          IF n = 0 THEN entries
          ELSE LET known == met[n - 1]
               IN  known \cup {e[2] : e \in {d \in g.imports : d[1] \in known}}
    IN  met[Cardinality(g.imports)]
Built(g, entries) == [g EXCEPT !.imports = {e \in @ : e[1] \in Met(g, entries)}]

(* Mutant: only what a file imports is connected to it.                    *)
ConnectionsOut(g, f) == {e[2] : e \in {d \in g.imports : d[1] = f}}

(* getConnections.                                                         *)
Connections(g, f) ==
    {e[2] : e \in {d \in g.imports : d[1] = f}} \cup {e[1] : e \in {d \in g.imports : d[2] = f}}

(* getRelatedFiles: breadth first, to a depth.                             *)
Related(g, files, depth) ==
    LET related[n \in 0 .. depth] ==
          IF n = 0 THEN files
          ELSE LET known == related[n - 1]
               IN  known \cup UNION {Connections(g, f) : f \in known}
    IN  related[depth]

(* buildBlastRadiusContext: two steps away, tests apart.                   *)
Affected(g, changed, tests) == Related(g, changed, 2) \ (changed \cup tests)

(* buildDependencyClusters: what can be reached from a file through files  *)
(* of the set.  Connections go both ways, so that a file that has no       *)
(* cluster yet meets none that has one.                                    *)
Cluster(g, files, f) ==
    LET reached[n \in 0 .. Cardinality(files)] ==
          IF n = 0 THEN {f}
          ELSE LET known == reached[n - 1]
               IN  known \cup (files \cap UNION {Connections(g, x) : x \in known})
    IN  reached[Cardinality(files)]
Clusters(g, files) == {Cluster(g, files, f) : f \in files}

(* How many files of the set come before one.                              *)
Place(files, f) == Cardinality({e \in files : e < f})

(* Mutant: a file is left out between two batches.                         *)
ChunksApart(files) ==
    {{f \in files : Place(files, f) \div 6 = k /\ Place(files, f) % 6 < 5} : k \in 0 .. (Cardinality(files) - 1) \div 6}

(* Batches of at most five files.                                          *)
Chunks(files) ==
    {{f \in files : Place(files, f) \div 5 = k} : k \in 0 .. (Cardinality(files) - 1) \div 5}

(* proposeRefactorBatches: a cluster of up to three files is one batch, a  *)
(* larger one is cut by directory first.                                   *)
Batches(g, clusters) ==
    UNION {IF Cardinality(c) <= 3 THEN {c}
           ELSE UNION {Chunks({f \in c : g.dir[f] = d}) : d \in {g.dir[f] : f \in c}} : c \in clusters}

(* performRefactorAnalysis.                                                *)
AffectedFiles(g, changed) == Related(g, changed, 1)
Proposed(g, changed) == Batches(g, Clusters(g, AffectedFiles(g, changed)))

(* Every affected file is in exactly one batch, no batch is larger than    *)
(* five files, a batch of more than three stays in one directory, and two  *)
(* files that import one another are apart only when their cluster had to  *)
(* be cut (performRefactorAnalysis): what is refactored batch by batch is  *)
(* everything, once.                                                       *)
BatchesAreWhole(g, changed) ==
    LET files == AffectedFiles(g, changed)
        clusters == Clusters(g, files)
    IN  /\ \A f \in files : Cardinality({b \in Proposed(g, changed) : f \in b}) = 1
        /\ \A b \in Proposed(g, changed) :
              /\ b \subseteq files /\ Cardinality(b) \in 1 .. 5
              /\ Cardinality(b) > 3 => Cardinality({g.dir[f] : f \in b}) = 1
        /\ \A e \in g.imports : e[1] \in files /\ e[2] \in files =>
              \E c \in clusters : {e[1], e[2]} \subseteq c

----------------------------------------------------------------------------
(* The selection.  c has the files by source (planner, writes, hints,      *)
(* dependencies), the score of the semantic matches (0: none), the sizes,  *)
(* and the rules' bounds.                                                  *)

Pinned(c) == c.planner \cup c.writes
CandidatesOf(c) ==
    Pinned(c) \cup c.hints \cup c.dependencies \cup {f \in DOMAIN c.semantic : c.semantic[f] > 0}

(* rankContextCandidates: the best score of its sources, and by path.      *)
Score(c, f) ==
    Max({c.semantic[f]} \cup (IF f \in c.planner THEN {100} ELSE {})
        \cup (IF f \in c.writes THEN {95} ELSE {}) \cup (IF f \in c.hints THEN {85} ELSE {})
        \cup (IF f \in c.dependencies THEN {70} ELSE {}))
Ordered(files, Before(_, _)) ==
    [i \in 1 .. Cardinality(files) |->
        CHOOSE f \in files : Cardinality({e \in files : Before(e, f)}) = i - 1]
Better(c, f, e) == Score(c, f) > Score(c, e) \/ (Score(c, f) = Score(c, e) /\ f < e)
Ranked(c) == Ordered(CandidatesOf(c), LAMBDA f, e : Better(c, f, e))

(* Score by the square root of the size, compared without the root.        *)
Denser(c, f, e) ==
    LET l == Score(c, f) * Score(c, f) * c.size[e]
        r == Score(c, e) * Score(c, e) * c.size[f]
    IN  l > r \/ (l = r /\ Better(c, f, e))

(* Mutant: the files that are written do not count.                        *)
FileLimitOfReads(c) ==
    Max({c.maxFiles, Cardinality(c.planner), 1}) + Max({2, Min({6, c.results})})
        + Min({4, Max({1, Cardinality(c.planner)})})

(* computeExpandedContextLimit.                                            *)
FileLimit(c) ==
    Max({c.maxFiles, Cardinality(c.planner) + Cardinality(c.writes), 1})
        + Max({2, Min({6, c.results})}) + Min({4, Max({1, Cardinality(c.planner)})})

Bytes(c, files) == MapThenSumSet(LAMBDA f : c.size[f], files)

(* Mutant: the first file that is too large ends the selection.            *)
TrimAtFirst(c, limit) ==
    LET pinned == SelectSeq(Ranked(c), LAMBDA f : f \in Pinned(c))
        kept == {pinned[i] : i \in 1 .. Min({limit, Len(pinned)})}
        optional == Ordered(CandidatesOf(c) \ Pinned(c), LAMBDA f, e : Denser(c, f, e))
        cut == {i \in DOMAIN optional : Bytes(c, kept \cup {optional[k] : k \in 1 .. i}) > c.maxBytes}
    IN  kept \cup {optional[i] : i \in 1 .. Min({limit - Cardinality(kept), Min(cut \cup {Len(optional) + 1}) - 1})}

(* trimRankedCandidatesByBudget: the pinned files in their order, then the *)
(* others by density, each that still fits; a first file always does.      *)
Trim(c, limit) ==
    LET pinned == SelectSeq(Ranked(c), LAMBDA f : f \in Pinned(c))
        kept == {pinned[i] : i \in 1 .. Min({limit, Len(pinned)})}
        optional == Ordered(CandidatesOf(c) \ Pinned(c), LAMBDA f, e : Denser(c, f, e))
        Take(chosen, f) == IF \/ Cardinality(chosen) >= limit
                              \/ chosen # {} /\ Bytes(c, chosen) + c.size[f] > c.maxBytes
                           THEN chosen ELSE chosen \cup {f}
    IN  FoldLeft(Take, kept, optional)

Selected(c) == Trim(c, FileLimit(c))

(* What the planner asked for and what is about to be written is shown,    *)
(* whatever its size and however many other files are found                *)
(* (computeExpandedContextLimit, trimRankedCandidatesByBudget): the limit  *)
(* of files is computed from one list and applied to another.              *)
PinnedAreShown(c) == Pinned(c) \subseteq Selected(c)

(* The optional files stay within the bytes, and within them as many are   *)
(* taken as fit: no file is left out that there is still room for.         *)
BudgetIsUsed(c) ==
    LET chosen == Selected(c)
        optional == chosen \ Pinned(c)
    IN  /\ Cardinality(chosen) <= FileLimit(c)
        /\ Cardinality(chosen) > 1 /\ optional # {} => Bytes(c, chosen) <= c.maxBytes
        /\ \A f \in CandidatesOf(c) \ chosen :
              \/ Cardinality(chosen) = FileLimit(c)
              \/ Bytes(c, chosen) + c.size[f] > c.maxBytes
=============================================================================
