---------------------------- MODULE RunPartProofs ----------------------------
(* What a run of the orchestrator uses: the commands that it starts, the   *)
(* providers that it asks, the index that it searches and the memory that  *)
(* it adds to; and, since they rest on the same lemma on recursion as the  *)
(* index does, the server's limit on requests and the turns of work items. *)
EXTENDS CommandRun, ProviderFailover, CodeIndex, MemoryFile,
        WorkerExecutionProofs, FiniteSetTheorems, SequenceTheorems, TLAPS

----------------------------------------------------------------------------
(* Functions that are defined by recursion                                  *)

(* A recursion: what f is at d is given, or comes from what it is at the   *)
(* next place, which is smaller.                                           *)
Recurs(f, D, First, value, next, step) ==
    \A d \in D : f[d] = IF d \in First THEN value[d] ELSE step[<<d, f[next[d]]>>]
Advances(f, begin, step) == f[0] = begin /\ \A n \in Nat \ {0} : f[n] = step[f[n - 1]]
Descends(D, First, next, size) == \A d \in D : d \notin First => size[next[d]] < size[d]

(* A function that is defined by recursion exists: what it is at d is      *)
(* given, or comes from what it is at a smaller place.                     *)
LEMMA RecursionExists ==
  ASSUME NEW D, NEW V, NEW First \in SUBSET D, NEW value \in [D -> V], NEW next \in [D -> D],
         NEW step \in [D \X V -> V], NEW size \in [D -> Nat],
         Descends(D, First, next, size)
  PROVE  \E f \in [D -> V] : Recurs(f, D, First, value, next, step)
  <1> USE DEF Descends
  <1> DEFINE Below(n) == {d \in D : size[d] < n}
             Solves(g, n) ==
               /\ g \in [Below(n) -> V]
               /\ \A d \in Below(n) : g[d] = IF d \in First THEN value[d] ELSE step[<<d, g[next[d]]>>]
  <1>1. ASSUME NEW n \in Nat, NEW m \in Nat, NEW g, NEW h, Solves(g, n), Solves(h, m),
               NEW d \in D, size[d] < n, size[d] < m
        PROVE  g[d] = h[d]
    <2> DEFINE S == {size[e] : e \in {c \in D : size[c] < n /\ size[c] < m /\ g[c] # h[c]}}
    <2>1. S \in SUBSET Nat
      OBVIOUS
    <2>2. S = {}
      <3> SUFFICES ASSUME S # {} PROVE FALSE
        OBVIOUS
      <3>1. PICK p \in S : \A q \in S : p <= q
        BY <2>1, LeastNumber
      <3>2. PICK e \in D : size[e] = p /\ size[e] < n /\ size[e] < m /\ g[e] # h[e]
        BY <3>1
      <3>3. g[e] = IF e \in First THEN value[e] ELSE step[<<e, g[next[e]]>>]
        BY <1>1, <3>2
      <3>4. h[e] = IF e \in First THEN value[e] ELSE step[<<e, h[next[e]]>>]
        BY <1>1, <3>2
      <3>5. e \notin First
        BY <3>2, <3>3, <3>4
      <3>6. /\ next[e] \in D /\ size[e] \in Nat /\ size[next[e]] \in Nat
            /\ size[next[e]] < size[e]
        BY <3>5
      <3>7. size[next[e]] < n /\ size[next[e]] < m /\ size[next[e]] < p
        BY <3>2, <3>6
      <3>8. g[next[e]] # h[next[e]]
        BY <3>2, <3>3, <3>4, <3>5
      <3>9. size[next[e]] \in S
        BY <3>6, <3>7, <3>8
      <3>10. p \in Nat /\ p <= size[next[e]]
        BY <2>1, <3>1, <3>9
      <3>11. QED
        BY <3>6, <3>7, <3>10
    <2>3. d \in {c \in D : size[c] < n /\ size[c] < m /\ g[c] # h[c]} => size[d] \in S
      OBVIOUS
    <2> HIDE DEF S
    <2>4. QED
      BY <1>1, <2>2, <2>3
  <1>2. ASSUME NEW n \in Nat PROVE \E g : Solves(g, n)
    <2> DEFINE Bad == {k \in Nat : ~\E g : Solves(g, k)}
    <2> SUFFICES ASSUME Bad # {} PROVE FALSE
      OBVIOUS
    <2>1. PICK k \in Bad : \A q \in Bad : k <= q
      <3> HIDE DEF Solves
      <3>1. Bad \in SUBSET Nat
        OBVIOUS
      <3> HIDE DEF Bad
      <3>2. QED
        BY <3>1, LeastNumber
    <2>2. k # 0
      <3> SUFFICES ASSUME k = 0 PROVE FALSE
        OBVIOUS
      <3>1. Below(0) = {}
        OBVIOUS
      <3>2. Solves([d \in {} |-> d], 0)
        BY <3>1
      <3> HIDE DEF Solves
      <3>3. QED
        BY <2>1, <3>2
    <2>3. k - 1 \in Nat /\ k - 1 \notin Bad
      <3> HIDE DEF Solves
      <3>1. k \in Nat
        BY <2>1
      <3> HIDE DEF Bad
      <3>2. QED
        BY <2>1, <2>2, <3>1
    <2>4. PICK g : Solves(g, k - 1)
      <3> HIDE DEF Solves
      <3>1. QED
        BY <2>3
    <2> DEFINE h == [d \in Below(k) |-> IF d \in First THEN value[d] ELSE step[<<d, g[next[d]]>>]]
    <2>5. ASSUME NEW d \in Below(k), d \notin First PROVE next[d] \in Below(k - 1) /\ next[d] \in Below(k)
      <3>1. k \in Nat /\ size[d] \in Nat /\ size[next[d]] \in Nat /\ next[d] \in D /\ size[next[d]] < size[d] /\ size[d] < k
        BY <2>1, <2>5
      <3>2. QED
        BY <3>1
    <2>6. h \in [Below(k) -> V]
      <3> SUFFICES ASSUME NEW d \in Below(k)
                   PROVE  (IF d \in First THEN value[d] ELSE step[<<d, g[next[d]]>>]) \in V
        OBVIOUS
      <3>1. CASE d \in First
        BY <3>1
      <3>2. CASE d \notin First
        <4>1. g[next[d]] \in V
          BY <2>4, <2>5, <3>2
        <4>2. QED
          BY <4>1, <3>2
      <3>3. QED
        BY <3>1, <3>2
    <2>7. ASSUME NEW d \in Below(k)
          PROVE  h[d] = IF d \in First THEN value[d] ELSE step[<<d, h[next[d]]>>]
      <3>1. CASE d \in First
        BY <3>1
      <3>2. CASE d \notin First
        <4>1. h[next[d]] = g[next[d]]
          BY <2>4, <2>5, <3>2
        <4>2. QED
          BY <4>1, <3>2
      <3>3. QED
        BY <3>1, <3>2
    <2>8. Solves(h, k)
      <3> HIDE DEF h
      <3>1. QED
        BY <2>6, <2>7
    <2> HIDE DEF Solves
    <2>9. QED
      BY <2>1, <2>8
  <1> DEFINE G(n) == CHOOSE g : Solves(g, n)
             f == [d \in D |-> G(size[d] + 1)[d]]
  <1>3. ASSUME NEW d \in D PROVE Solves(G(size[d] + 1), size[d] + 1)
    <2>1. size[d] + 1 \in Nat
      OBVIOUS
    <2> HIDE DEF Solves
    <2>2. QED
      BY <1>2, <2>1
  <1> HIDE DEF G
  <1>4. ASSUME NEW d \in D
        PROVE  f[d] \in V /\ f[d] = IF d \in First THEN value[d] ELSE step[<<d, f[next[d]]>>]
    <2>1. d \in Below(size[d] + 1) /\ size[d] + 1 \in Nat
      OBVIOUS
    <2>2. /\ f[d] \in V
          /\ f[d] = IF d \in First THEN value[d] ELSE step[<<d, G(size[d] + 1)[next[d]]>>]
      BY <1>3, <2>1
    <2>3. CASE d \in First
      BY <2>2, <2>3
    <2>4. CASE d \notin First
      <3>1. next[d] \in D /\ size[next[d]] \in Nat /\ size[next[d]] < size[d] /\ size[d] \in Nat
        BY <2>4
      <3>2. /\ size[next[d]] + 1 \in Nat /\ size[d] + 1 \in Nat
            /\ size[next[d]] < size[d] + 1 /\ size[next[d]] < size[next[d]] + 1
        BY <3>1
      <3>3. Solves(G(size[d] + 1), size[d] + 1) /\ Solves(G(size[next[d]] + 1), size[next[d]] + 1)
        BY <1>3, <3>1
      <3>4. G(size[d] + 1)[next[d]] = G(size[next[d]] + 1)[next[d]]
        <4> HIDE DEF Solves
        <4>1. QED
          BY <1>1, <3>1, <3>2, <3>3
      <3>5. QED
        BY <2>2, <2>4, <3>1, <3>4
    <2>5. QED
      BY <2>3, <2>4
  <1> HIDE DEF f
  <1>5. f \in [D -> V]
    <2>1. f = [d \in D |-> f[d]]
      BY DEF f
    <2>2. QED
      BY <1>4, <2>1
  <1>6. QED
    BY <1>4, <1>5 DEF Recurs

(* The same for the numbers, one after the other.                          *)
LEMMA SequenceExists ==
  ASSUME NEW V, NEW begin \in V, NEW step \in [V -> V]
  PROVE  \E f \in [Nat -> V] : Advances(f, begin, step)
  <1> DEFINE First == {0}
             value == [n \in Nat |-> begin]
             next == [n \in Nat |-> IF n = 0 THEN 0 ELSE n - 1]
             advance == [p \in Nat \X V |-> step[p[2]]]
             size == [n \in Nat |-> n]
  <1>1. next \in [Nat -> Nat]
    OBVIOUS
  <1>2. value \in [Nat -> V] /\ size \in [Nat -> Nat] /\ advance \in [Nat \X V -> V]
    OBVIOUS
  <1>3. Descends(Nat, First, next, size)
    BY DEF Descends
  <1>4. \E f \in [Nat -> V] : Recurs(f, Nat, First, value, next, advance)
    <2>1. First \in SUBSET Nat
      OBVIOUS
    <2> HIDE DEF First, value, next, advance, size
    <2>2. QED
      BY <1>1, <1>2, <1>3, <2>1, RecursionExists, Zenon
  <1>5. PICK f \in [Nat -> V] : \A n \in Nat : f[n] = IF n \in First THEN value[n] ELSE advance[<<n, f[next[n]]>>]
    BY <1>4 DEF Recurs
  <1>6. f[0] = begin
    BY <1>5
  <1>7. ASSUME NEW n \in Nat \ {0} PROVE f[n] = step[f[n - 1]]
    <2>1. next[n] = n - 1 /\ n - 1 \in Nat
      OBVIOUS
    <2>2. f[n - 1] \in V
      BY <2>1
    <2>3. advance[<<n, f[n - 1]>>] = step[f[n - 1]]
      BY <2>2
    <2> HIDE DEF next, advance
    <2>4. QED
      BY <1>5, <2>1, <2>3
  <1>8. QED
    BY <1>6, <1>7 DEF Advances

----------------------------------------------------------------------------
(* A command with its retries (CommandRun)                                 *)

(* Only the attempt that the call stands at has processes or a kill timer, *)
(* and that one has none before it starts and while the call waits.        *)
OthersAreOver == \A a \in Attempts : a # call.attempt => group[a] = {} /\ a \notin doomed
BetweenAttempts ==
    call.at \in {"ready", "waiting"} => group[call.attempt] = {} /\ call.attempt \notin doomed
(* There is an attempt to wait for.                                        *)
WaitsForOne == call.at = "waiting" => call.attempt < Retries
(* A command has an exit code once it has ended, and an attempt none       *)
(* before it starts.                                                       *)
ExitComesLast ==
    \A a \in Attempts :
        /\ "command" \in group[a] => exit[a] = "none"
        /\ (a > call.attempt \/ (a = call.attempt /\ call.at = "ready")) => exit[a] = "none"

CommandInv == CommandTypeOK /\ OthersAreOver /\ BetweenAttempts /\ WaitsForOne /\ ExitComesLast /\ CommandIsReaped

LEMMA AttemptsAreNat == Attempts \subseteq Nat /\ 0 \in Attempts
  BY CommandAssumption DEF Attempts

LEMMA CommandInitInv == CommandInit => CommandInv
  <1> SUFFICES ASSUME CommandInit PROVE CommandInv
    OBVIOUS
  <1>1. CommandTypeOK
    BY AttemptsAreNat DEF CommandInit, CommandTypeOK
  <1>2. OthersAreOver /\ BetweenAttempts /\ WaitsForOne /\ ExitComesLast /\ CommandIsReaped
    BY AttemptsAreNat
       DEF CommandInit, OthersAreOver, BetweenAttempts, WaitsForOne, ExitComesLast, CommandIsReaped
  <1>3. QED
    BY <1>1, <1>2 DEF CommandInv

(* What the catch of the retry loop makes of the call: it is over, or it   *)
(* waits for another attempt, but only for an overloaded provider.         *)
LEMMA CaughtCall ==
  ASSUME CommandTypeOK, NEW error, NEW abort \in BOOLEAN
  PROVE  /\ Caught(error, abort) \in [at : {"waiting"} \cup Endings, attempt : Attempts]
         /\ Caught(error, abort).attempt = call.attempt
         /\ Caught(error, abort).at = "waiting" => call.attempt < Retries /\ error = "overloaded" /\ ~abort
  <1>1. call.attempt \in 0 .. Retries
    BY DEF CommandTypeOK, Attempts
  <1>2. call = [at |-> call.at, attempt |-> call.attempt]
    BY DEF CommandTypeOK
  <1>3. call.attempt # Retries => call.attempt < Retries
    BY <1>1, CommandAssumption
  <1>4. QED
    BY <1>1, <1>2, <1>3 DEF CommandTypeOK, Caught, Retryable, Endings, Attempts

(* A call that is stopped is over, and its attempt has a kill timer.       *)
LEMMA StoppedCall ==
  ASSUME CommandInv, call.at = "running", NEW error \in {"timeout", "abort"}, NEW abort \in BOOLEAN,
         Stop(error, abort), UNCHANGED <<group, exit>>, aborted' \in BOOLEAN
  PROVE  CommandInv'
  <1> USE DEF CommandInv
  <1>1. call' \in [at : Endings, attempt : Attempts] /\ call'.attempt = call.attempt
    <2>1. call' = Caught(error, abort) /\ error # "overloaded"
      BY DEF Stop
    <2>2. call'.at # "waiting"
      BY <2>1, CaughtCall
    <2>3. QED
      BY <2>1, <2>2, CaughtCall
  <1>2. call.attempt \in Attempts /\ doomed' = doomed \cup {call.attempt}
    BY DEF Stop, CommandTypeOK
  <1>3. CommandTypeOK'
    BY <1>1, <1>2 DEF CommandTypeOK
  <1>4. OthersAreOver' /\ BetweenAttempts' /\ WaitsForOne' /\ ExitComesLast'
    BY <1>1, <1>2 DEF CommandTypeOK, OthersAreOver, BetweenAttempts, WaitsForOne, ExitComesLast, Endings
  <1>5. CommandIsReaped'
    BY <1>1, <1>2 DEF CommandTypeOK, CommandIsReaped, Endings
  <1>6. QED
    BY <1>3, <1>4, <1>5

LEMMA CommandStepInv == ASSUME CommandInv, [CommandNext]_commandVars PROVE CommandInv'
  <1> USE DEF CommandInv
  <1>t. call.attempt \in Attempts /\ call = [at |-> call.at, attempt |-> call.attempt] /\ Attempts \subseteq Nat
    BY AttemptsAreNat DEF CommandTypeOK
  <1>1. ASSUME Start PROVE CommandInv'
    <2>1. CASE aborted
      BY <1>1, <1>t, <2>1
         DEF Start, CommandTypeOK, OthersAreOver, BetweenAttempts, WaitsForOne, ExitComesLast, CommandIsReaped, Endings
    <2>2. CASE ~aborted
      <3>1. CommandTypeOK'
        BY <1>1, <1>t, <2>2 DEF Start, CommandTypeOK
      <3>2. call' = [at |-> "running", attempt |-> call.attempt] /\ doomed' = doomed /\ exit' = exit
        BY <1>1, <1>t, <2>2 DEF Start
      <3>3. \A a \in Attempts : a # call.attempt => group'[a] = group[a]
        BY <1>1, <2>2 DEF Start, CommandTypeOK
      <3>4. OthersAreOver' /\ BetweenAttempts' /\ WaitsForOne'
        BY <3>2, <3>3 DEF OthersAreOver, BetweenAttempts, WaitsForOne
      <3>5. ExitComesLast'
        BY <1>1, <1>t, <3>2, <3>3 DEF ExitComesLast, Start
      <3>6. CommandIsReaped'
        BY <3>2, <3>3 DEF CommandIsReaped, OthersAreOver
      <3>7. QED
        BY <3>1, <3>4, <3>5, <3>6
    <2>3. QED
      BY <2>1, <2>2
  <1>2. ASSUME StartFails PROVE CommandInv'
    <2>1. call' \in [at : Endings, attempt : Attempts] /\ call'.attempt = call.attempt
      BY <1>2, CaughtCall DEF StartFails, CommandTypeOK
    <2>2. group' = group /\ exit' = exit /\ doomed' = doomed /\ aborted' = aborted /\ call.at = "ready"
      BY <1>2 DEF StartFails
    <2>3. QED
      BY <2>1, <2>2, <1>t
         DEF CommandTypeOK, OthersAreOver, BetweenAttempts, WaitsForOne, ExitComesLast, CommandIsReaped, Endings
  <1>3. ASSUME NEW a \in Attempts, NEW p \in Processes, ProcessEnds(a, p) PROVE CommandInv'
    <2>1. a = call.attempt /\ call.at \notin {"ready", "waiting"}
      BY <1>3 DEF ProcessEnds, OthersAreOver, BetweenAttempts
    <2>2. group' = [group EXCEPT ![a] = group[a] \ {p}] /\ group[a] \subseteq Processes /\ aborted' = aborted
      BY <1>3 DEF ProcessEnds, CommandTypeOK
    <2>3. PICK code \in {"ok", "bad"} : exit' = IF p = "command" THEN [exit EXCEPT ![a] = code] ELSE exit
      BY <1>3 DEF ProcessEnds
    <2>4. doomed' = IF group'[a] = {} THEN doomed \ {a} ELSE doomed
      BY <1>3 DEF ProcessEnds
    <2>5. /\ call' \in [at : {"running", "waiting"} \cup Endings, attempt : Attempts]
          /\ call'.attempt = call.attempt
          /\ call'.at = "waiting" => call.attempt < Retries
          /\ call' # call => group'[a] = {}
      <3>1. CASE group'[a] = {} /\ call.at = "running" /\ exit'[a] = "ok"
        BY <1>3, <1>t, <2>1, <3>1 DEF ProcessEnds, Endings
      <3>2. CASE group'[a] = {} /\ call.at = "running" /\ exit'[a] # "ok"
        <4>1. PICK error \in {"overloaded", "other"} : call' = Caught(error, aborted)
          BY <1>3, <2>1, <3>2 DEF ProcessEnds
        <4>2. QED
          BY <3>2, <4>1, CaughtCall DEF CommandTypeOK
      <3>3. CASE group'[a] # {} \/ call.at # "running"
        BY <1>3, <1>t, <2>1, <3>3 DEF ProcessEnds, CommandTypeOK
      <3>4. QED
        BY <3>1, <3>2, <3>3
    <2>6. CommandTypeOK'
      BY <2>2, <2>3, <2>4, <2>5 DEF CommandTypeOK
    <2>7. \A b \in Attempts : group'[b] \subseteq group[b] /\ (b # a => group'[b] = group[b] /\ exit'[b] = exit[b])
      BY <2>2, <2>3 DEF CommandTypeOK
    <2>8. OthersAreOver' /\ WaitsForOne'
      BY <2>1, <2>4, <2>5, <2>7 DEF OthersAreOver, WaitsForOne
    <2>9. BetweenAttempts'
      BY <2>1, <2>4, <2>5 DEF BetweenAttempts, Endings
    <2>10. "command" \in group'[a] => exit'[a] = "none"
      BY <2>2, <2>3 DEF ExitComesLast, CommandTypeOK
    <2>11. call'.at # "ready"
      BY <2>5 DEF Endings
    <2>12. ExitComesLast'
      BY <1>t, <2>1, <2>5, <2>7, <2>10, <2>11 DEF ExitComesLast
    <2>13. CommandIsReaped'
      BY <2>1, <2>4, <2>5, <2>7 DEF CommandIsReaped
    <2>14. QED
      BY <2>6, <2>8, <2>9, <2>12, <2>13
  <1>4. ASSUME TimesOut PROVE CommandInv'
    BY <1>4, StoppedCall DEF TimesOut, CommandTypeOK
  <1>5. ASSUME Abort PROVE CommandInv'
    <2>1. CASE call.at = "running"
      BY <1>5, <2>1, StoppedCall DEF Abort
    <2>2. CASE call.at # "running"
      BY <1>5, <2>2
         DEF Abort, CommandTypeOK, OthersAreOver, BetweenAttempts, WaitsForOne, ExitComesLast, CommandIsReaped
    <2>3. QED
      BY <2>1, <2>2
  <1>6. ASSUME NEW a \in Attempts, GraceEnds(a) PROVE CommandInv'
    <2>1. a = call.attempt /\ call.at \notin {"ready", "waiting"} /\ call' = call /\ aborted' = aborted
      BY <1>6 DEF GraceEnds, OthersAreOver, BetweenAttempts
    <2>2. doomed' = doomed \ {a} /\ "command" \notin group'[a]
      BY <1>6 DEF GraceEnds, ExitComesLast, CommandTypeOK
    <2>3. \A b \in Attempts : group'[b] \subseteq group[b] /\ (b # a => group'[b] = group[b] /\ exit'[b] = exit[b])
      BY <1>6 DEF GraceEnds, CommandTypeOK
    <2>4. CommandTypeOK'
      BY <1>6 DEF GraceEnds, CommandTypeOK
    <2>5. OthersAreOver' /\ BetweenAttempts' /\ WaitsForOne'
      BY <2>1, <2>2, <2>3 DEF OthersAreOver, BetweenAttempts, WaitsForOne
    <2>6. ExitComesLast'
      BY <1>t, <2>1, <2>2, <2>3 DEF ExitComesLast
    <2>7. CommandIsReaped'
      BY <2>1, <2>2, <2>3 DEF CommandIsReaped
    <2>8. QED
      BY <2>4, <2>5, <2>6, <2>7
  <1>7. ASSUME Wake PROVE CommandInv'
    <2>1. call.attempt < Retries /\ call.attempt + 1 \in Attempts
      BY <1>7, <1>t, CommandAssumption DEF Wake, WaitsForOne, Attempts
    <2>2. \A a \in Attempts : group[a] = {} /\ a \notin doomed
      BY <1>7 DEF Wake, OthersAreOver, BetweenAttempts
    <2>3. call' = [at |-> "ready", attempt |-> call.attempt + 1] /\ UNCHANGED <<group, exit, doomed, aborted>>
      BY <1>7 DEF Wake
    <2>4. CommandTypeOK'
      BY <2>1, <2>3 DEF CommandTypeOK
    <2>5. OthersAreOver' /\ BetweenAttempts' /\ WaitsForOne' /\ CommandIsReaped'
      BY <2>1, <2>2, <2>3 DEF OthersAreOver, BetweenAttempts, WaitsForOne, CommandIsReaped
    <2>6. \A a \in Attempts : a >= call.attempt + 1 => a > call.attempt
      BY <1>t
    <2>7. ExitComesLast'
      BY <1>t, <2>2, <2>3, <2>6 DEF ExitComesLast
    <2>8. QED
      BY <2>4, <2>5, <2>7
  <1>8. CASE UNCHANGED commandVars
    BY <1>8 DEF commandVars, CommandTypeOK, OthersAreOver, BetweenAttempts, WaitsForOne, ExitComesLast, CommandIsReaped
  <1>9. QED
    BY <1>1, <1>2, <1>3, <1>4, <1>5, <1>6, <1>7, <1>8 DEF CommandNext

(* Two attempts of a command never run side by side, and a call that is    *)
(* over leaves no command behind that nothing will kill                    *)
(* (runCommandWithRetry, runCommand).                                      *)
THEOREM CommandSafety == CommandSpec => []CommandIsContained
  <1>1. CommandInit => CommandInv
    BY CommandInitInv
  <1>2. CommandInv /\ [CommandNext]_commandVars => CommandInv'
    BY CommandStepInv
  <1>3. CommandInv => CommandIsContained
    BY DEF CommandInv, CommandIsContained, OneAttemptRuns, OthersAreOver
  <1>4. QED
    BY <1>1, <1>2, <1>3, PTL DEF CommandSpec

(* After the abort no process is spawned (runCommandWithRetry).            *)
THEOREM AbortIsHeeded == CommandSpec => [][AbortSpawnsNothing]_commandVars
  <1>1. CommandInit => CommandInv
    BY CommandInitInv
  <1>2. CommandInv /\ [CommandNext]_commandVars => CommandInv'
    BY CommandStepInv
  <1>3. ASSUME CommandInv, CommandNext PROVE AbortSpawnsNothing
    <2> SUFFICES ASSUME aborted, NEW a \in Attempts PROVE group'[a] \subseteq group[a]
      BY DEF AbortSpawnsNothing
    <2>1. CASE Start
      BY <2>1 DEF Start
    <2>2. CASE StartFails \/ TimesOut \/ Abort \/ Wake
      BY <2>2 DEF StartFails, TimesOut, Abort, Wake
    <2>3. CASE \E b \in Attempts, p \in Processes : ProcessEnds(b, p)
      BY <1>3, <2>3 DEF ProcessEnds, CommandInv, CommandTypeOK
    <2>4. CASE \E b \in Attempts : GraceEnds(b)
      BY <1>3, <2>4 DEF GraceEnds, CommandInv, CommandTypeOK
    <2>5. QED
      BY <1>3, <2>1, <2>2, <2>3, <2>4 DEF CommandNext
  <1>4. CommandInv /\ [CommandNext]_commandVars => [AbortSpawnsNothing]_commandVars
    BY <1>3
  <1>5. QED
    BY <1>1, <1>2, <1>4, PTL DEF CommandSpec

----------------------------------------------------------------------------
(* The providers of a role (ProviderFailover)                              *)

CallType ==
    [at : {"none", "asking", "answered", "failed", "refused"},
     asked : [type : ProviderTypes \cup {SafeType}, turn : Nat],
     asks : Nat, refusedBy : SUBSET ProviderTypes, late : BOOLEAN]

FailoverTypeOK ==
    /\ named \in Seq(ProviderTypes) /\ Len(named) \in Turns
    /\ serving \in [type : ProviderTypes, turn : Nat]
    /\ failed \subseteq ProviderTypes /\ accumulated \in Nat
    /\ used \in [Turns -> Nat]
    /\ progress \in [Calls -> CallType]
    /\ overlapped \in BOOLEAN

(* Every turn has used up a provider; those to come have answered nothing. *)
TurnsAreCounted ==
    /\ failed \subseteq Range(named) /\ serving.type \in Range(named) \ failed
    /\ IsFiniteSet(failed) /\ Cardinality(failed) = serving.turn - 1 /\ serving.turn >= 1
    /\ \A t \in Turns : t > serving.turn => used[t] = 0
    /\ \A c \in Calls : progress[c].asks <= serving.turn

(* Who is asked was serving, and is if its turn is the last one.           *)
AskedAreServing ==
    \A c \in Calls : progress[c].at = "asking" =>
        /\ progress[c].asked.type \in Range(named)
        /\ progress[c].asked.turn \in 1 .. serving.turn
        /\ progress[c].asked.turn = serving.turn => progress[c].asked = serving

(* Calls that follow one another always ask the one that is serving.       *)
CallsFollow ==
    ~overlapped =>
        /\ \A c, d \in Calls : progress[c].at = "asking" /\ progress[d].at = "asking" => c = d
        /\ \A c \in Calls : progress[c].at = "asking" => progress[c].asked = serving
        /\ failed \subseteq RefusedBy
        /\ \A c \in Calls : progress[c].at = "refused" => RefusedBy = Range(named)
        /\ \A c \in Calls : progress[c].at = "answered" => ~progress[c].late

RefusalsAreNamed == \A c \in Calls : progress[c].refusedBy \subseteq Range(named)

Counted == {c \in AnsweredCalls : ~progress[c].late}
AnswersAreCounted == IsFiniteSet(Counted) /\ CountedCalls = Cardinality(Counted)

FailoverInv ==
    /\ FailoverTypeOK /\ TurnsAreCounted /\ AskedAreServing /\ CallsFollow /\ RefusalsAreNamed /\ AnswersAreCounted

LEMMA TurnsAreNumbers ==
  Turns \subseteq Nat \ {0} /\ 1 \in Turns /\ \A n \in Turns, t \in Nat \ {0} : t <= n => t \in Turns
  <1>1. Cardinality(ProviderTypes) \in Nat /\ Cardinality(ProviderTypes) # 0
    BY FailoverAssumption, FS_CardinalityType, FS_EmptySet
  <1>2. QED
    BY <1>1 DEF Turns

(* There are no more providers than rules that name one.                   *)
LEMMA NamesAreFew ==
  ASSUME named \in Seq(ProviderTypes)
  PROVE  IsFiniteSet(Range(named)) /\ Cardinality(Range(named)) <= Len(named) /\ Range(named) \subseteq ProviderTypes
  <1> DEFINE S == 1 .. Len(named)
             T == Range(named)
  <1>1. Len(named) \in Nat /\ named \in [S -> ProviderTypes]
    OBVIOUS
  <1>2. IsFiniteSet(S) /\ Cardinality(S) = Len(named)
    BY <1>1, FS_Interval
  <1>3. T \subseteq ProviderTypes /\ named \in [S -> T] /\ \A t \in T : \E i \in S : named[i] = t
    BY <1>1 DEF Range
  <1> HIDE DEF S, T
  <1>4. named \in Surjection(S, T)
    BY <1>3 DEF Surjection
  <1>5. IsFiniteSet(T) /\ Cardinality(T) <= Cardinality(S)
    BY <1>2, <1>4, FS_Surjection
  <1>6. QED
    BY <1>2, <1>3, <1>5 DEF T

(* The first of the rules' providers that was not tried.                   *)
LEMMA FallbackIsUntried ==
  ASSUME named \in Seq(ProviderTypes), Untried # {}
  PROVE  Fallback \in Untried
  <1>1. CASE SafeType \in Untried
    BY <1>1 DEF Fallback
  <1>2. CASE SafeType \notin Untried
    <2> DEFINE I == {i \in 1 .. Len(named) : named[i] \in Untried}
    <2>1. I # {} /\ I \in SUBSET Nat
      BY DEF Untried, Range
    <2>2. \E i \in I : \A k \in I : i <= k
      BY <2>1, LeastNumber
    <2>3. Min(I) \in I
      BY <2>2 DEF Min
    <2>4. SelectInSeq(named, LAMBDA t : t \in Untried) = Min(I)
      BY <2>1 DEF SelectInSeq
    <2>5. Fallback = named[Min(I)]
      BY <1>2, <2>4 DEF Fallback
    <2>6. QED
      BY <2>3, <2>5
  <1>3. QED
    BY <1>1, <1>2

LEMMA TurnsHaveNames ==
  ASSUME FailoverTypeOK, TurnsAreCounted
  PROVE  /\ serving.turn \in Turns /\ serving.turn <= Len(named)
         /\ Untried # {} => serving.turn + 1 \in Turns
  <1>1. IsFiniteSet(Range(named)) /\ Cardinality(Range(named)) <= Len(named)
    BY NamesAreFew DEF FailoverTypeOK
  <1> DEFINE tried == failed \cup {serving.type}
  <1>2. IsFiniteSet(tried) /\ Cardinality(tried) = serving.turn
    BY FS_AddElement DEF TurnsAreCounted, FailoverTypeOK
  <1>3. tried \in SUBSET Range(named)
    BY DEF TurnsAreCounted
  <1>4. Cardinality(tried) <= Cardinality(Range(named)) /\
        (Cardinality(Range(named)) = Cardinality(tried) => Range(named) = tried)
    BY <1>1, <1>3, FS_Subset
  <1>5. Cardinality(Range(named)) \in Nat /\ serving.turn \in Nat \ {0} /\ Len(named) \in Turns
    BY <1>1, FS_CardinalityType DEF FailoverTypeOK, TurnsAreCounted
  <1>6. serving.turn <= Len(named) /\ (Untried # {} => serving.turn + 1 <= Len(named))
    BY <1>1, <1>2, <1>4, <1>5, TurnsAreNumbers DEF Untried
  <1>7. QED
    BY <1>5, <1>6, TurnsAreNumbers

LEMMA FailoverInitInv == FailoverInit => FailoverInv
  <1> SUFFICES ASSUME FailoverInit PROVE FailoverInv
    OBVIOUS
  <1>1. PICK n \in Turns : named \in [1 .. n -> ProviderTypes]
    BY DEF FailoverInit
  <1>2. n \in Nat /\ named \in Seq(ProviderTypes) /\ Len(named) = n
    BY <1>1, TurnsAreNumbers
  <1>3. Range(named) \subseteq ProviderTypes
    BY <1>1 DEF Range
  <1>4. serving \in [type : ProviderTypes, turn : Nat] /\ serving.type \in Range(named) /\ serving.turn = 1
    BY <1>3 DEF FailoverInit
  <1>5. NewCall \in CallType /\ NewCall.at = "none" /\ NewCall.asks = 0 /\ NewCall.refusedBy = {}
    BY DEF NewCall, CallType
  <1>6. FailoverTypeOK
    BY <1>1, <1>2, <1>4, <1>5 DEF FailoverInit, FailoverTypeOK
  <1>7. TurnsAreCounted
    BY <1>4, <1>5, FS_EmptySet DEF FailoverInit, TurnsAreCounted
  <1>8. AskedAreServing /\ RefusalsAreNamed
    BY <1>5 DEF FailoverInit, AskedAreServing, RefusalsAreNamed
  <1>9. CallsFollow
    BY <1>5 DEF FailoverInit, CallsFollow
  <1>10. AnswersAreCounted
    <2>1. Counted = {}
      BY <1>5 DEF FailoverInit, Counted, AnsweredCalls
    <2>2. CountedCalls = 0
      BY <1>4, TurnsAreNumbers DEF FailoverInit, CountedCalls
    <2>3. QED
      BY <2>1, <2>2, FS_EmptySet DEF AnswersAreCounted
  <1>11. QED
    BY <1>6, <1>7, <1>8, <1>9, <1>10 DEF FailoverInv

(* One call's record is replaced; who was counted stays so, as long as     *)
(* none is counted newly.                                                  *)
LEMMA RefusersAre ==
  ASSUME NEW c \in Calls, progress \in [Calls -> CallType], NEW new \in CallType,
         progress' = [progress EXCEPT ![c] = new], progress[c].refusedBy \subseteq new.refusedBy
  PROVE  RefusedBy \subseteq RefusedBy' /\ new.refusedBy \subseteq RefusedBy' /\ RefusedBy' \subseteq RefusedBy \cup new.refusedBy
  BY DEF RefusedBy

LEMMA CallStep ==
  ASSUME FailoverInv, NEW c \in Calls, CallProvider(c)
  PROVE  FailoverInv'
  <1> DEFINE new == [progress[c] EXCEPT !.at = "asking", !.asked = serving, !.asks = 1]
  <1>t. FailoverTypeOK /\ progress \in [Calls -> CallType] /\ serving.turn >= 1 /\ serving.turn \in Nat
    BY DEF FailoverInv, FailoverTypeOK, TurnsAreCounted
  <1>1. /\ progress' = [progress EXCEPT ![c] = new] /\ progress[c].at = "none"
        /\ overlapped' = (overlapped \/ UnderWay # {})
        /\ UNCHANGED <<named, serving, failed, accumulated, used>>
    BY DEF CallProvider
  <1>2. /\ new \in CallType /\ new.at = "asking" /\ new.asked = serving /\ new.asks = 1
        /\ new.refusedBy = progress[c].refusedBy
    BY <1>t DEF FailoverTypeOK, CallType
  <1> HIDE DEF new
  <1>3. /\ progress' \in [Calls -> CallType] /\ progress'[c] = new
        /\ \A d \in Calls \ {c} : progress'[d] = progress[d]
    BY <1>1, <1>2, <1>t
  <1>4. FailoverTypeOK'
    BY <1>1, <1>3, <1>t, Zenon DEF FailoverTypeOK, Turns
  <1>5. TurnsAreCounted'
    BY <1>1, <1>2, <1>3, <1>t DEF FailoverInv, TurnsAreCounted, Turns
  <1>6. AskedAreServing' /\ RefusalsAreNamed'
    BY <1>1, <1>2, <1>3, <1>t DEF FailoverInv, AskedAreServing, RefusalsAreNamed, TurnsAreCounted
  <1>7. RefusedBy' = RefusedBy
    BY <1>1, <1>2, <1>3 DEF RefusedBy
  <1>8. CallsFollow'
    BY <1>1, <1>2, <1>3, <1>7 DEF FailoverInv, CallsFollow, UnderWay
  <1>9. AnswersAreCounted'
    <2>1. Counted' = Counted
      BY <1>1, <1>2, <1>3 DEF Counted, AnsweredCalls
    <2>2. QED
      BY <1>1, <2>1 DEF FailoverInv, AnswersAreCounted, CountedCalls
  <1>10. QED
    BY <1>4, <1>5, <1>6, <1>8, <1>9 DEF FailoverInv

LEMMA AnswerStep ==
  ASSUME FailoverInv, NEW c \in Calls, ProviderAnswers(c)
  PROVE  FailoverInv'
  <1> DEFINE late == progress[c].asked # serving
             turn == progress[c].asked.turn
             new == [progress[c] EXCEPT !.at = "answered", !.late = late]
  <1>t. FailoverTypeOK /\ progress \in [Calls -> CallType] /\ serving.turn \in Turns /\ used \in [Turns -> Nat]
    BY TurnsHaveNames DEF FailoverInv, FailoverTypeOK
  <1>1. /\ progress' = [progress EXCEPT ![c] = new] /\ progress[c].at = "asking"
        /\ used' = [used EXCEPT ![turn] = @ + 1]
        /\ UNCHANGED <<named, serving, failed, accumulated, overlapped>>
    BY DEF ProviderAnswers
  <1>2. /\ turn \in 1 .. serving.turn /\ (late => turn # serving.turn) /\ (~late => turn = serving.turn)
        /\ ~overlapped => ~late
    BY <1>1 DEF FailoverInv, AskedAreServing, CallsFollow
  <1>3. late \in BOOLEAN
    OBVIOUS
  <1> HIDE DEF late, turn
  <1>4. /\ new \in CallType /\ new.at = "answered" /\ new.late = late /\ new.asked = progress[c].asked
        /\ new.asks = progress[c].asks /\ new.refusedBy = progress[c].refusedBy
    BY <1>3, <1>t DEF CallType
  <1> HIDE DEF new
  <1>5. /\ progress' \in [Calls -> CallType] /\ progress'[c] = new
        /\ \A d \in Calls \ {c} : progress'[d] = progress[d]
    BY <1>1, <1>4, <1>t
  <1>6. turn \in Turns /\ used' \in [Turns -> Nat] /\ used'[turn] = used[turn] + 1
        /\ \A t \in Turns \ {turn} : used'[t] = used[t]
    <2>0. serving.turn \in Nat
      BY <1>t, TurnsAreNumbers
    <2>1. serving.turn \in Nat /\ turn \in Nat \ {0} /\ turn <= serving.turn
      BY <1>2, <2>0
    <2>2. turn \in Turns
      BY <1>t, <2>1, TurnsAreNumbers
    <2>3. used[turn] \in Nat
      BY <1>t, <2>2
    <2>4. QED
      BY <1>1, <1>t, <2>2, <2>3
  <1>7. FailoverTypeOK'
    BY <1>1, <1>5, <1>6, <1>t, Zenon DEF FailoverTypeOK, Turns
  <1>8. TurnsAreCounted'
    <2>1. \A d \in Calls : progress'[d].asks = progress[d].asks
      BY <1>4, <1>5
    <2>2. \A t \in Turns : t > serving.turn => used'[t] = used[t]
      <3>0. serving.turn \in Nat /\ Turns \subseteq Nat
        BY <1>t, TurnsAreNumbers
      <3>1. \A t \in Turns : t > serving.turn => t # turn
        BY <1>2, <3>0
      <3>2. QED
        BY <1>6, <3>1
    <2>3. QED
      BY <1>1, <2>1, <2>2 DEF FailoverInv, TurnsAreCounted, Turns
  <1>9. AskedAreServing' /\ RefusalsAreNamed'
    BY <1>1, <1>4, <1>5 DEF FailoverInv, AskedAreServing, RefusalsAreNamed
  <1>10. RefusedBy' = RefusedBy
    BY <1>4, <1>5 DEF RefusedBy
  <1>11. CallsFollow'
    BY <1>1, <1>2, <1>4, <1>5, <1>10 DEF FailoverInv, CallsFollow
  <1>12. AnswersAreCounted'
    <2>1. c \notin Counted
      BY <1>1 DEF Counted, AnsweredCalls
    <2>2. \A d : d \in Counted' <=> d \in Calls /\ progress'[d].at = "answered" /\ ~progress'[d].late
      BY DEF Counted, AnsweredCalls
    <2>3. \A d : d \in Counted <=> d \in Calls /\ progress[d].at = "answered" /\ ~progress[d].late
      BY DEF Counted, AnsweredCalls
    <2>4. CASE late
      <3>1. Counted' = Counted
        <4>1. c \notin Counted'
          BY <1>4, <1>5, <2>2, <2>4
        <4>2. ASSUME NEW d, d # c PROVE d \in Counted' <=> d \in Counted
          <5>1. d \in Calls => progress'[d] = progress[d]
            BY <1>5, <4>2
          <5>2. QED
            BY <2>2, <2>3, <5>1
        <4>3. QED
          BY <2>1, <4>1, <4>2
      <3>2. used'[serving.turn] = used[serving.turn]
        BY <1>2, <1>6, <1>t, <2>4
      <3>3. QED
        BY <1>1, <3>1, <3>2 DEF FailoverInv, AnswersAreCounted, CountedCalls
    <2>5. CASE ~late
      <3>1. Counted' = Counted \cup {c}
        BY <1>4, <1>5, <2>2, <2>3, <2>5
      <3>2. used'[serving.turn] = used[serving.turn] + 1
        BY <1>2, <1>6, <2>5
      <3>3. IsFiniteSet(Counted') /\ Cardinality(Counted') = Cardinality(Counted) + 1
        BY <2>1, <3>1, FS_AddElement DEF FailoverInv, AnswersAreCounted
      <3>4. CountedCalls' = CountedCalls + 1
        BY <1>1, <1>t, <3>2 DEF CountedCalls, FailoverTypeOK
      <3>5. QED
        BY <3>3, <3>4 DEF FailoverInv, AnswersAreCounted
    <2>6. QED
      BY <2>4, <2>5
  <1>13. QED
    BY <1>7, <1>8, <1>9, <1>11, <1>12 DEF FailoverInv

(* A call ends unanswered: in another way, or with no provider left.       *)
LEMMA EndStep ==
  ASSUME FailoverInv, NEW c \in Calls, ProviderFails(c) \/ GiveUpRole(c)
  PROVE  FailoverInv'
  <1>t. FailoverTypeOK /\ progress \in [Calls -> CallType]
    BY DEF FailoverInv, FailoverTypeOK
  <1>1. progress[c].at = "asking" /\ UNCHANGED <<named, serving, failed, accumulated, used, overlapped>>
    BY DEF ProviderFails, GiveUpRole
  <1>2. PICK new :
          /\ progress' = [progress EXCEPT ![c] = new] /\ new \in CallType
          /\ new.asks = progress[c].asks /\ progress[c].refusedBy \subseteq new.refusedBy
          /\ \/ new.at = "failed" /\ new.refusedBy = progress[c].refusedBy
             \/ new.at = "refused" /\ new.refusedBy = progress[c].refusedBy \cup {progress[c].asked.type} /\ Untried = {}
    <2>1. CASE ProviderFails(c)
      <3> DEFINE new == [progress[c] EXCEPT !.at = "failed"]
      <3>1. /\ new \in CallType /\ new.at = "failed" /\ new.asks = progress[c].asks
            /\ new.refusedBy = progress[c].refusedBy
        BY <1>t DEF CallType
      <3>2. progress' = [progress EXCEPT ![c] = new]
        BY <2>1 DEF ProviderFails
      <3> HIDE DEF new
      <3>3. QED
        BY <3>1, <3>2
    <2>2. CASE GiveUpRole(c)
      <3> DEFINE by == progress[c].refusedBy \cup {progress[c].asked.type}
                 new == [progress[c] EXCEPT !.at = "refused", !.refusedBy = by]
      <3>1. by \in SUBSET ProviderTypes
        BY <1>1, <1>t, NamesAreFew DEF FailoverInv, AskedAreServing, FailoverTypeOK, CallType
      <3>2. progress[c].refusedBy \subseteq by
        OBVIOUS
      <3>3. Untried = {} /\ progress' = [progress EXCEPT ![c] = new]
        BY <1>t, <2>2 DEF GiveUpRole
      <3>4. new \in CallType /\ new.at = "refused" /\ new.asks = progress[c].asks /\ new.refusedBy = by
        <4> HIDE DEF by
        <4>1. QED
          BY <1>t, <3>1 DEF CallType
      <3> HIDE DEF new
      <3>5. QED
        BY <3>2, <3>3, <3>4
    <2>3. QED
      BY <2>1, <2>2
  <1>3. /\ progress' \in [Calls -> CallType] /\ progress'[c] = new
        /\ \A d \in Calls \ {c} : progress'[d] = progress[d]
    BY <1>2, <1>t
  <1>4. FailoverTypeOK'
    BY <1>1, <1>3, <1>t, Zenon DEF FailoverTypeOK, Turns
  <1>5. TurnsAreCounted'
    BY <1>1, <1>2, <1>3 DEF FailoverInv, TurnsAreCounted, Turns
  <1>6. AskedAreServing' /\ RefusalsAreNamed'
    BY <1>1, <1>2, <1>3 DEF FailoverInv, AskedAreServing, RefusalsAreNamed
  <1>7. RefusedBy \subseteq RefusedBy' /\ new.refusedBy \subseteq RefusedBy'
    BY <1>2, <1>t, RefusersAre
  <1>8. RefusedBy' \subseteq Range(named)
    BY <1>1, <1>6 DEF RefusedBy, RefusalsAreNamed
  <1>9. CallsFollow'
    <2> SUFFICES ASSUME ~overlapped PROVE CallsFollow'
      BY <1>1 DEF CallsFollow
    <2>1. failed \subseteq RefusedBy'
      BY <1>7 DEF FailoverInv, CallsFollow
    <2>2. ASSUME NEW d \in Calls, progress'[d].at = "refused"
          PROVE  RefusedBy' = Range(named)
      <3>1. CASE d = c
        <4>1. progress[c].asked = serving /\ serving.type \in RefusedBy' /\ Untried = {}
          BY <1>1, <1>2, <1>3, <1>7, <2>2, <3>1 DEF FailoverInv, CallsFollow
        <4>2. QED
          BY <1>8, <2>1, <4>1 DEF Untried
      <3>2. CASE d # c
        BY <1>3, <1>7, <1>8, <2>2, <3>2 DEF FailoverInv, CallsFollow
      <3>3. QED
        BY <3>1, <3>2
    <2>3. QED
      BY <1>1, <1>2, <1>3, <2>1, <2>2 DEF FailoverInv, CallsFollow
  <1>10. AnswersAreCounted'
    <2>1. Counted' = Counted
      BY <1>1, <1>2, <1>3 DEF Counted, AnsweredCalls
    <2>2. QED
      BY <1>1, <2>1 DEF FailoverInv, AnswersAreCounted, CountedCalls
  <1>11. QED
    BY <1>4, <1>5, <1>6, <1>9, <1>10 DEF FailoverInv

(* The role moves to a provider that it has not had.                       *)
LEMMA MoveStep ==
  ASSUME FailoverInv, NEW c \in Calls, MoveRole(c)
  PROVE  FailoverInv'
  <1> DEFINE by == progress[c].refusedBy \cup {progress[c].asked.type}
             new == [progress[c] EXCEPT !.asked = serving', !.asks = @ + 1, !.refusedBy = by]
  <1>t. /\ FailoverTypeOK /\ progress \in [Calls -> CallType] /\ used \in [Turns -> Nat] /\ accumulated \in Nat
        /\ serving \in [type : ProviderTypes, turn : Nat] /\ serving.turn \in Turns
    BY TurnsHaveNames DEF FailoverInv, FailoverTypeOK
  <1>1. /\ progress[c].at = "asking" /\ Untried # {} /\ failed' = failed \cup {serving.type}
        /\ accumulated' = accumulated + used[serving.turn]
        /\ serving' = [type |-> Fallback, turn |-> serving.turn + 1]
        /\ progress' = [progress EXCEPT ![c] = new]
        /\ UNCHANGED <<named, used, overlapped>>
    BY <1>t DEF MoveRole
  <1>2. /\ serving.turn + 1 \in Turns /\ Fallback \in Range(named) /\ Fallback \notin failed /\ Fallback # serving.type
        /\ Range(named) \subseteq ProviderTypes
    BY <1>1, FallbackIsUntried, TurnsHaveNames, NamesAreFew DEF FailoverInv, FailoverTypeOK, Untried
  <1>3. /\ serving' \in [type : ProviderTypes, turn : Nat] /\ serving'.turn = serving.turn + 1
        /\ serving'.type = Fallback
    BY <1>1, <1>2, <1>t
  <1>4. by \in SUBSET ProviderTypes /\ progress[c].refusedBy \subseteq by /\ by \subseteq Range(named)
        /\ progress[c].asked.type \in by
    BY <1>1, <1>2 DEF FailoverInv, AskedAreServing, RefusalsAreNamed
  <1> HIDE DEF by
  <1>5. /\ new \in CallType /\ new.at = "asking" /\ new.asked = serving' /\ new.asks = progress[c].asks + 1
        /\ new.refusedBy = by
    <2>1. progress[c] \in CallType /\ progress[c].asks + 1 \in Nat
      BY <1>t DEF CallType
    <2>2. serving' \in [type : ProviderTypes \cup {SafeType}, turn : Nat]
      BY <1>3
    <2>3. QED
      BY <1>1, <1>4, <2>1, <2>2 DEF CallType
  <1> HIDE DEF new
  <1>6. /\ progress' \in [Calls -> CallType] /\ progress'[c] = new
        /\ \A d \in Calls \ {c} : progress'[d] = progress[d]
    BY <1>1, <1>5, <1>t
  <1>7. FailoverTypeOK'
    <2>1. failed' \subseteq ProviderTypes /\ accumulated' \in Nat
      BY <1>1, <1>t DEF FailoverTypeOK
    <2>2. QED
      BY <1>1, <1>3, <1>6, <1>t, <2>1, Zenon DEF FailoverTypeOK, Turns
  <1>8. TurnsAreCounted'
    <2>1. failed' \subseteq Range(named') /\ serving'.type \in Range(named') \ failed'
      BY <1>1, <1>2, <1>3 DEF FailoverInv, TurnsAreCounted
    <2>2. IsFiniteSet(failed') /\ Cardinality(failed') = serving'.turn - 1 /\ serving'.turn >= 1
      <3>1. IsFiniteSet(failed) /\ serving.type \notin failed /\ Cardinality(failed) = serving.turn - 1
        BY DEF FailoverInv, TurnsAreCounted
      <3>2. IsFiniteSet(failed') /\ Cardinality(failed') = Cardinality(failed) + 1
        BY <1>1, <3>1, FS_AddElement
      <3>3. serving.turn \in Nat
        BY <1>t
      <3>4. QED
        BY <1>3, <3>1, <3>2, <3>3
    <2>3. \A t \in Turns : t > serving'.turn => used'[t] = 0
      BY <1>1, <1>3, <1>t, TurnsAreNumbers DEF FailoverInv, TurnsAreCounted
    <2>4. \A d \in Calls : progress[d].asks <= serving.turn /\ progress[d].asks \in Nat
      BY <1>t DEF FailoverInv, TurnsAreCounted, CallType
    <2>5. \A d \in Calls : progress'[d].asks <= serving'.turn
      BY <1>3, <1>5, <1>6, <1>t, <2>4, TurnsAreNumbers
    <2>6. QED
      BY <2>1, <2>2, <2>3, <2>5 DEF TurnsAreCounted, Turns
  <1>9. AskedAreServing'
    <2>1. ASSUME NEW d \in Calls, progress'[d].at = "asking"
          PROVE  /\ progress'[d].asked.type \in Range(named)
                 /\ progress'[d].asked.turn \in 1 .. serving'.turn
                 /\ progress'[d].asked.turn = serving'.turn => progress'[d].asked = serving'
      <3>1. CASE d = c
        BY <1>2, <1>3, <1>5, <1>6, <1>t, <3>1
      <3>2. CASE d # c
        <4>1. progress'[d] = progress[d]
          BY <1>6, <3>2
        <4>2. progress[d].asked.type \in Range(named) /\ progress[d].asked.turn \in 1 .. serving.turn
          BY <2>1, <4>1 DEF FailoverInv, AskedAreServing
        <4>3. QED
          BY <1>3, <1>t, <4>1, <4>2
      <3>3. QED
        BY <3>1, <3>2
    <2>2. QED
      BY <1>1, <2>1 DEF AskedAreServing
  <1>10. RefusalsAreNamed'
    BY <1>1, <1>4, <1>5, <1>6 DEF FailoverInv, RefusalsAreNamed
  <1>11. RefusedBy \subseteq RefusedBy' /\ by \subseteq RefusedBy'
    BY <1>1, <1>4, <1>5, <1>t, RefusersAre
  <1>12. RefusedBy' \subseteq Range(named)
    BY <1>1, <1>10 DEF RefusedBy, RefusalsAreNamed
  <1>13. CallsFollow'
    <2> SUFFICES ASSUME ~overlapped PROVE CallsFollow'
      BY <1>1 DEF CallsFollow
    <2>1. progress[c].asked = serving /\ \A d \in Calls : progress[d].at = "asking" => d = c
      BY <1>1 DEF FailoverInv, CallsFollow
    <2>2. failed' \subseteq RefusedBy'
      BY <1>1, <1>4, <1>11, <2>1 DEF FailoverInv, CallsFollow
    <2>3. ASSUME NEW d \in Calls, progress'[d].at = "refused"
          PROVE  RefusedBy' = Range(named)
      BY <1>5, <1>6, <1>11, <1>12, <2>3 DEF FailoverInv, CallsFollow
    <2>4. \A d \in Calls : progress'[d].at = "asking" => d = c
      BY <1>6, <2>1
    <2>5. \A d \in Calls : progress'[d].at = "answered" => ~progress'[d].late
      BY <1>5, <1>6 DEF FailoverInv, CallsFollow
    <2>6. QED
      BY <1>1, <1>5, <1>6, <2>2, <2>3, <2>4, <2>5 DEF CallsFollow
  <1>14. AnswersAreCounted'
    <2>1. Counted' = Counted
      BY <1>1, <1>5, <1>6 DEF Counted, AnsweredCalls
    <2>2. used[serving.turn + 1] = 0
      BY <1>2, <1>t DEF FailoverInv, TurnsAreCounted
    <2>3. CountedCalls' = CountedCalls
      BY <1>1, <1>3, <1>t, <2>2 DEF CountedCalls
    <2>4. QED
      BY <2>1, <2>3 DEF FailoverInv, AnswersAreCounted
  <1>15. QED
    BY <1>7, <1>8, <1>9, <1>10, <1>13, <1>14 DEF FailoverInv

LEMMA FailoverStepInv == FailoverInv /\ [FailoverNext]_failoverVars => FailoverInv'
  <1> SUFFICES ASSUME FailoverInv, [FailoverNext]_failoverVars PROVE FailoverInv'
    OBVIOUS
  <1>1. CASE FailoverNext
    BY <1>1, CallStep, AnswerStep, EndStep, MoveStep DEF FailoverNext
  <1>2. CASE UNCHANGED failoverVars
    BY <1>2 DEF failoverVars, FailoverInv, FailoverTypeOK, TurnsAreCounted, AskedAreServing, CallsFollow,
                RefusalsAreNamed, RefusedBy, AnswersAreCounted, Counted, AnsweredCalls, CountedCalls, Turns
  <1>3. QED
    BY <1>1, <1>2

LEMMA ServedAsTold == FailoverInv => CallsAreServed
  <1> SUFFICES ASSUME FailoverInv PROVE CallsAreServed
    OBVIOUS
  <1>1. FailoverEnds
    <2>1. serving.turn <= Len(named) /\ serving.turn \in Nat /\ Len(named) \in Nat
      BY TurnsHaveNames DEF FailoverInv, FailoverTypeOK
    <2>2. \A c \in Calls : progress[c].asks \in Nat
      BY DEF FailoverInv, FailoverTypeOK, CallType
    <2>3. QED
      BY <2>1, <2>2 DEF FailoverInv, TurnsAreCounted, FailoverEnds
  <1>2. LeftWhenRefused
    BY DEF FailoverInv, CallsFollow, LeftWhenRefused
  <1>3. UsageIsCounted
    BY DEF FailoverInv, CallsFollow, AnswersAreCounted, Counted, AnsweredCalls, UsageIsCounted
  <1>4. QED
    BY <1>1, <1>2, <1>3 DEF CallsAreServed

(* FailoverJsonProvider (providers/registry.ts): a role leaves each        *)
(* provider once at most, so that failing over ends; calls that follow one *)
(* another leave a provider only when it refused one of them and give up   *)
(* only when all have; and what is used is counted, but for late answers.  *)
THEOREM FailoverSafety == FailoverSpec => []CallsAreServed
  <1>1. QED
    BY FailoverInitInv, FailoverStepInv, ServedAsTold, PTL DEF FailoverSpec

----------------------------------------------------------------------------
(* The vector index (CodeIndex)                                            *)

IndexSettings == Settings \cup {"none"}
IndexEntry == [text : Int, mtime : Int, size : Int, setting : IndexSettings]
IndexEntries == [Sources -> IndexEntry]

(* What an entry says of a file is what the file said at the time that the *)
(* entry names; a file that is saved gets a later one.                     *)
Tells(entry, f) ==
    entry.mtime <= now /\ (entry.mtime = disk[f].mtime => entry.text = disk[f].text)

AllTell(files) == \A f \in Sources : Tells(files[f], f)
AllCutBy(files, s) == \A f \in Sources : files[f] # NoEntry => files[f].setting = s

IndexTypeOK ==
    /\ disk \in [Sources -> [text : Texts, mtime : Nat]]
    /\ now \in Nat /\ \A f \in Sources : disk[f].mtime <= now
    /\ index \in [whole : BOOLEAN, setting : IndexSettings, files : IndexEntries]
    /\ setting \in Settings
    /\ pass \in [at : {"idle", "files", "writing"}, since : Nat, setting : IndexSettings,
                 old : [whole : BOOLEAN, setting : IndexSettings, files : IndexEntries],
                 todo : SUBSET Sources, file : Sources \cup {"none"}, seen : IndexEntry, files : IndexEntries]

FileUnderWay ==
    pass.file # "none" =>
        /\ pass.file \in pass.todo /\ pass.at = "files"
        /\ pass.seen.mtime <= now /\ pass.seen.setting = pass.setting
        /\ pass.seen.mtime <= disk[pass.file].mtime

(* A pass has the text of the files it is done with, unless they were      *)
(* saved since it began.                                                   *)
PassTells ==
    pass.at # "idle" =>
        /\ pass.since <= now
        /\ \A f \in Sources \ pass.todo : disk[f].mtime <= pass.since => pass.files[f].text = disk[f].text

SnapshotUnderWay ==
    pass.at = "writing" =>
        /\ pass.todo = {} /\ ~index.whole /\ index.setting = pass.setting /\ index.files = pass.files

IndexInv ==
    /\ IndexTypeOK
    /\ AllTell(index.files) /\ AllTell(pass.files) /\ AllTell(pass.old.files)
    /\ AllCutBy(index.files, index.setting) /\ AllCutBy(pass.files, pass.setting)
    /\ AllCutBy(pass.old.files, pass.old.setting)
    /\ FileUnderWay /\ PassTells /\ SnapshotUnderWay

LEMMA NothingTells ==
  ASSUME IndexTypeOK
  PROVE  /\ NoEntry \in IndexEntry /\ NoSnapshot.files \in IndexEntries /\ NoPass.files \in IndexEntries
         /\ AllTell(NoSnapshot.files) /\ AllTell(NoPass.files)
         /\ \A s : AllCutBy(NoSnapshot.files, s) /\ AllCutBy(NoPass.files, s)
         /\ NoSnapshot \in [whole : BOOLEAN, setting : IndexSettings, files : IndexEntries]
         /\ NoPass \in [at : {"idle", "files", "writing"}, since : Nat, setting : IndexSettings,
                        old : [whole : BOOLEAN, setting : IndexSettings, files : IndexEntries],
                        todo : SUBSET Sources, file : Sources \cup {"none"}, seen : IndexEntry, files : IndexEntries]
  <1>1. NoEntry \in IndexEntry
    BY DEF NoEntry, IndexEntry, IndexSettings
  <1>2. NoSnapshot.files \in IndexEntries /\ NoPass.files \in IndexEntries
    BY <1>1 DEF NoSnapshot, NoPass, IndexEntries
  <1>3. \A f \in Sources : NoSnapshot.files[f] = NoEntry /\ NoPass.files[f] = NoEntry
    BY DEF NoSnapshot, NoPass
  <1>4. \A f \in Sources : Tells(NoEntry, f)
    BY DEF Tells, NoEntry, IndexTypeOK
  <1>5. NoSnapshot \in [whole : BOOLEAN, setting : IndexSettings, files : IndexEntries]
    BY <1>2 DEF NoSnapshot, IndexSettings
  <1>6. NoPass \in [at : {"idle", "files", "writing"}, since : Nat, setting : IndexSettings,
                        old : [whole : BOOLEAN, setting : IndexSettings, files : IndexEntries],
                        todo : SUBSET Sources, file : Sources \cup {"none"}, seen : IndexEntry, files : IndexEntries]
    BY <1>1, <1>2, <1>5 DEF NoPass, IndexSettings
  <1>7. QED
    BY <1>1, <1>2, <1>3, <1>4, <1>5, <1>6 DEF AllTell, AllCutBy

LEMMA IndexInitInv == IndexInit => IndexInv
  <1> SUFFICES ASSUME IndexInit PROVE IndexInv
    OBVIOUS
  <1>1. IndexTypeOK
    <2>1. NoEntry \in IndexEntry
      BY DEF NoEntry, IndexEntry, IndexSettings
    <2>2. NoSnapshot.files \in IndexEntries /\ NoPass.files \in IndexEntries
      BY <2>1 DEF NoSnapshot, NoPass, IndexEntries
    <2>3. NoSnapshot \in [whole : BOOLEAN, setting : IndexSettings, files : IndexEntries]
      BY <2>2 DEF NoSnapshot, IndexSettings
    <2>4. NoPass \in [at : {"idle", "files", "writing"}, since : Nat, setting : IndexSettings,
                        old : [whole : BOOLEAN, setting : IndexSettings, files : IndexEntries],
                        todo : SUBSET Sources, file : Sources \cup {"none"}, seen : IndexEntry, files : IndexEntries]
      BY <2>1, <2>2, <2>3 DEF NoPass, IndexSettings
    <2>5. QED
      BY <2>3, <2>4 DEF IndexInit, IndexTypeOK, Texts
  <1>2. pass = NoPass /\ index = NoSnapshot /\ pass.old = NoSnapshot /\ pass.at = "idle" /\ pass.file = "none"
    BY DEF IndexInit, NoPass
  <1>3. QED
    BY <1>1, <1>2, NothingTells DEF IndexInv, FileUnderWay, PassTells, SnapshotUnderWay

(* A file is saved: no entry has its new time.                             *)
LEMMA SaveStep ==
  ASSUME IndexInv, NEW f \in Sources, NEW text \in Texts, EditFile(f, text)
  PROVE  IndexInv'
  <1>1. /\ UNCHANGED <<index, pass, setting>> /\ now' = now + 1 /\ now \in Nat
        /\ disk' = [disk EXCEPT ![f] = [text |-> text, mtime |-> now + 1]]
        /\ disk \in [Sources -> [text : Texts, mtime : Nat]]
    BY DEF EditFile, IndexInv, IndexTypeOK
  <1>2. /\ disk' \in [Sources -> [text : Texts, mtime : Nat]] /\ disk'[f].mtime = now + 1
        /\ \A g \in Sources : \/ g # f /\ disk'[g] = disk[g]
                              \/ g = f /\ disk'[g].mtime = now + 1
    BY <1>1
  <1>3. IndexTypeOK'
    BY <1>1, <1>2 DEF IndexInv, IndexTypeOK
  <1>4. ASSUME NEW g \in Sources, NEW e \in IndexEntry, Tells(e, g)
        PROVE  e.mtime <= now' /\ (e.mtime = disk'[g].mtime => e.text = disk'[g].text)
    BY <1>1, <1>2, <1>4 DEF Tells, IndexEntry
  <1>5. /\ index.files \in IndexEntries /\ pass.files \in IndexEntries /\ pass.old.files \in IndexEntries
    BY DEF IndexInv, IndexTypeOK
  <1>6. AllTell(index.files)' /\ AllTell(pass.files)' /\ AllTell(pass.old.files)'
    BY <1>1, <1>4, <1>5 DEF IndexInv, AllTell, Tells, IndexEntries
  <1>7. (AllCutBy(index.files, index.setting) /\ AllCutBy(pass.files, pass.setting)
         /\ AllCutBy(pass.old.files, pass.old.setting) /\ SnapshotUnderWay)'
    BY <1>1 DEF IndexInv, AllCutBy, SnapshotUnderWay
  <1>8. FileUnderWay'
    BY <1>1, <1>2 DEF IndexInv, IndexTypeOK, FileUnderWay, IndexEntry
  <1>9. PassTells'
    BY <1>1, <1>2 DEF IndexInv, IndexTypeOK, PassTells
  <1>10. QED
    BY <1>3, <1>6, <1>7, <1>8, <1>9 DEF IndexInv

LEMMA PassBegins ==
  ASSUME IndexInv, BeginPass
  PROVE  IndexInv'
  <1> DEFINE old == IF index.whole THEN index ELSE NoSnapshot
  <1>1. /\ pass' = [NoPass EXCEPT !.at = "files", !.since = now, !.setting = setting, !.todo = Sources, !.old = old]
        /\ UNCHANGED <<disk, now, index, setting>> /\ IndexTypeOK
    BY DEF BeginPass, IndexInv
  <1>2. /\ old \in [whole : BOOLEAN, setting : IndexSettings, files : IndexEntries]
        /\ AllTell(old.files) /\ AllCutBy(old.files, old.setting)
    BY <1>1, NothingTells DEF IndexInv, IndexTypeOK
  <1> HIDE DEF old
  <1>3. /\ pass'.at = "files" /\ pass'.since = now /\ pass'.setting = setting /\ pass'.todo = Sources
        /\ pass'.old = old /\ pass'.files = NoPass.files /\ pass'.file = "none" /\ pass'.seen = NoEntry
    BY <1>1 DEF NoPass
  <1>4. IndexTypeOK'
    BY <1>1, <1>2, NothingTells DEF IndexTypeOK, IndexSettings
  <1>5. AllTell(index.files)' /\ AllTell(pass.files)' /\ AllTell(pass.old.files)'
    BY <1>1, <1>2, <1>3, NothingTells DEF IndexInv, AllTell, Tells
  <1>6. (AllCutBy(index.files, index.setting) /\ AllCutBy(pass.files, pass.setting)
         /\ AllCutBy(pass.old.files, pass.old.setting))'
    <2>1. \A f \in Sources : NoPass.files[f] = NoEntry
      BY DEF NoPass
    <2>2. AllCutBy(index.files, index.setting)'
      BY <1>1 DEF IndexInv, AllCutBy
    <2>3. AllCutBy(pass.files, pass.setting)'
      BY <1>3, <2>1 DEF AllCutBy
    <2>4. AllCutBy(pass.old.files, pass.old.setting)'
      BY <1>2, <1>3 DEF AllCutBy
    <2>5. QED
      BY <2>2, <2>3, <2>4
  <1>7. (FileUnderWay /\ PassTells /\ SnapshotUnderWay)'
    BY <1>1, <1>3 DEF IndexTypeOK, FileUnderWay, PassTells, SnapshotUnderWay
  <1>8. QED
    BY <1>4, <1>5, <1>6, <1>7 DEF IndexInv

(* An entry is taken over only when its time is that of the file.          *)
LEMMA StatStep ==
  ASSUME IndexInv, NEW f \in Sources, StatFile(f)
  PROVE  IndexInv'
  <1>t. IndexTypeOK /\ pass.files \in IndexEntries /\ pass.old.files \in IndexEntries
    BY DEF IndexInv, IndexTypeOK
  <1>1. pass.at = "files" /\ pass.file = "none" /\ f \in pass.todo /\ UNCHANGED <<disk, now, index, setting>>
    BY DEF StatFile
  <1>2. CASE Reusable(f)
    <2>1. pass' = [pass EXCEPT !.todo = @ \ {f}, !.files[f] = pass.old.files[f]]
      BY <1>2 DEF StatFile
    <2>2. /\ pass'.todo = pass.todo \ {f} /\ pass'.files = [pass.files EXCEPT ![f] = pass.old.files[f]]
          /\ pass'.at = "files" /\ pass'.file = "none" /\ pass'.since = pass.since
          /\ pass'.setting = pass.setting /\ pass'.old = pass.old
      BY <1>1, <1>t, <2>1 DEF IndexTypeOK
    <2>3. IndexTypeOK'
      BY <1>1, <1>t, <2>1 DEF IndexTypeOK, IndexEntries
    <2>4. \A g \in Sources : \/ g # f /\ pass'.files[g] = pass.files[g]
                             \/ g = f /\ pass'.files[g] = pass.old.files[f]
      BY <2>2, <1>t DEF IndexEntries
    <2>5. /\ pass.old.files[f].mtime = disk[f].mtime /\ pass.old.files[f].text = disk[f].text
          /\ pass.old.files[f].setting = pass.setting
      BY <1>2 DEF Reusable, IndexInv, AllTell, Tells, AllCutBy
    <2>6. AllTell(index.files)' /\ AllTell(pass.files)' /\ AllTell(pass.old.files)'
      BY <1>1, <2>2, <2>4 DEF IndexInv, AllTell, Tells
    <2>7. (AllCutBy(index.files, index.setting) /\ AllCutBy(pass.files, pass.setting)
           /\ AllCutBy(pass.old.files, pass.old.setting))'
      BY <1>1, <2>2, <2>4, <2>5 DEF IndexInv, AllCutBy
    <2>8. (FileUnderWay /\ PassTells /\ SnapshotUnderWay)'
      BY <1>1, <2>2, <2>4, <2>5 DEF IndexInv, FileUnderWay, PassTells, SnapshotUnderWay
    <2>9. QED
      BY <2>3, <2>6, <2>7, <2>8 DEF IndexInv
  <1>3. CASE ~Reusable(f)
    <2> DEFINE seen == [text |-> -1, mtime |-> disk[f].mtime, size |-> Size(disk[f].text), setting |-> pass.setting]
    <2>1. pass' = [pass EXCEPT !.file = f, !.seen = seen]
      BY <1>3 DEF StatFile
    <2>2. seen \in IndexEntry /\ seen.mtime = disk[f].mtime /\ seen.setting = pass.setting
      BY <1>t DEF IndexTypeOK, IndexEntry, Size
    <2> HIDE DEF seen
    <2>3. /\ pass'.todo = pass.todo /\ pass'.files = pass.files /\ pass'.at = "files" /\ pass'.file = f
          /\ pass'.seen = seen /\ pass'.since = pass.since /\ pass'.setting = pass.setting /\ pass'.old = pass.old
      BY <1>1, <1>t, <2>1 DEF IndexTypeOK
    <2>4. IndexTypeOK'
      BY <1>1, <1>t, <2>1, <2>2 DEF IndexTypeOK
    <2>5. AllTell(index.files)' /\ AllTell(pass.files)' /\ AllTell(pass.old.files)'
      BY <1>1, <2>3 DEF IndexInv, AllTell, Tells
    <2>6. (AllCutBy(index.files, index.setting) /\ AllCutBy(pass.files, pass.setting)
           /\ AllCutBy(pass.old.files, pass.old.setting))'
      BY <1>1, <2>3 DEF IndexInv, AllCutBy
    <2>7. FileUnderWay'
      BY <1>1, <1>t, <2>2, <2>3 DEF IndexTypeOK, FileUnderWay
    <2>8. (PassTells /\ SnapshotUnderWay)'
      BY <1>1, <2>3 DEF IndexInv, PassTells, SnapshotUnderWay
    <2>9. QED
      BY <2>4, <2>5, <2>6, <2>7, <2>8 DEF IndexInv
  <1>4. QED
    BY <1>2, <1>3

(* A text is never older than the time it is filed under.                  *)
LEMMA ReadStep ==
  ASSUME IndexInv, ReadSource
  PROVE  IndexInv'
  <1> DEFINE f == pass.file
             entry == [pass.seen EXCEPT !.text = disk[f].text]
  <1>t. IndexTypeOK /\ pass.files \in IndexEntries /\ pass.seen \in IndexEntry
    BY DEF IndexInv, IndexTypeOK
  <1>1. /\ pass.at = "files" /\ f # "none" /\ UNCHANGED <<disk, now, index, setting>>
        /\ pass' = [pass EXCEPT !.todo = @ \ {f}, !.file = "none", !.files[f] = entry]
    BY DEF ReadSource
  <1>2. /\ f \in pass.todo /\ f \in Sources /\ pass.seen.mtime <= now /\ pass.seen.setting = pass.setting
        /\ pass.seen.mtime <= disk[f].mtime
    BY <1>1, <1>t DEF IndexInv, FileUnderWay, IndexTypeOK
  <1>3. /\ entry \in IndexEntry /\ entry.text = disk[f].text /\ entry.mtime = pass.seen.mtime
        /\ entry.setting = pass.setting
    BY <1>t, <1>2 DEF IndexTypeOK, IndexEntry, Texts
  <1> HIDE DEF entry
  <1>4. /\ pass'.todo = pass.todo \ {f} /\ pass'.files = [pass.files EXCEPT ![f] = entry]
        /\ pass'.at = "files" /\ pass'.file = "none" /\ pass'.since = pass.since
        /\ pass'.setting = pass.setting /\ pass'.old = pass.old
    BY <1>1, <1>t DEF IndexTypeOK
  <1>5. IndexTypeOK'
    BY <1>1, <1>2, <1>3, <1>t DEF IndexTypeOK, IndexEntries
  <1>6. \A g \in Sources : \/ g # f /\ pass'.files[g] = pass.files[g]
                           \/ g = f /\ pass'.files[g] = entry
    BY <1>t, <1>4 DEF IndexEntries
  <1>7. AllTell(index.files)' /\ AllTell(pass.files)' /\ AllTell(pass.old.files)'
    BY <1>1, <1>2, <1>3, <1>4, <1>6 DEF IndexInv, AllTell, Tells
  <1>8. (AllCutBy(index.files, index.setting) /\ AllCutBy(pass.files, pass.setting)
         /\ AllCutBy(pass.old.files, pass.old.setting))'
    BY <1>1, <1>3, <1>4, <1>6 DEF IndexInv, AllCutBy
  <1>9. (FileUnderWay /\ PassTells /\ SnapshotUnderWay)'
    BY <1>1, <1>3, <1>4, <1>6 DEF IndexInv, FileUnderWay, PassTells, SnapshotUnderWay
  <1>10. QED
    BY <1>5, <1>7, <1>8, <1>9 DEF IndexInv

LEMMA WriteSteps ==
  ASSUME IndexInv, BeginWrite \/ EndWrite \/ PassDies \/ ChangeSettings
  PROVE  IndexInv'
  <1>t. IndexTypeOK
    BY DEF IndexInv
  <1>1. CASE BeginWrite
    <2>1. /\ pass.at = "files" /\ pass.todo = {} /\ UNCHANGED <<disk, now, setting>>
          /\ index' = [whole |-> FALSE, setting |-> pass.setting, files |-> pass.files]
          /\ pass' = [pass EXCEPT !.at = "writing"]
      BY <1>1 DEF BeginWrite
    <2>2. /\ pass'.todo = {} /\ pass'.files = pass.files /\ pass'.at = "writing" /\ pass'.file = pass.file
          /\ pass'.since = pass.since /\ pass'.setting = pass.setting /\ pass'.old = pass.old
          /\ index'.files = pass.files /\ index'.setting = pass.setting /\ ~index'.whole
      BY <2>1, <1>t DEF IndexTypeOK
    <2>3. IndexTypeOK'
      BY <2>1, <1>t DEF IndexTypeOK
    <2>4. AllTell(index.files)' /\ AllTell(pass.files)' /\ AllTell(pass.old.files)'
      BY <2>1, <2>2 DEF IndexInv, AllTell, Tells
    <2>5. (AllCutBy(index.files, index.setting) /\ AllCutBy(pass.files, pass.setting)
           /\ AllCutBy(pass.old.files, pass.old.setting))'
      BY <2>2 DEF IndexInv, AllCutBy
    <2>6. (FileUnderWay /\ PassTells /\ SnapshotUnderWay)'
      BY <2>1, <2>2 DEF IndexInv, FileUnderWay, PassTells, SnapshotUnderWay
    <2>7. QED
      BY <2>3, <2>4, <2>5, <2>6 DEF IndexInv
  <1>2. CASE EndWrite \/ PassDies
    <2>1. /\ pass' = NoPass /\ UNCHANGED <<disk, now, setting>>
          /\ index' = index \/ index' = [index EXCEPT !.whole = TRUE]
      BY <1>2 DEF EndWrite, PassDies
    <2>2. /\ pass'.at = "idle" /\ pass'.file = "none" /\ pass'.old = NoSnapshot
          /\ pass'.files = NoPass.files
          /\ index'.files = index.files /\ index'.setting = index.setting
      BY <2>1, <1>t DEF IndexTypeOK, NoPass
    <2>3. IndexTypeOK'
      BY <2>1, <1>t, NothingTells DEF IndexTypeOK
    <2>4. AllTell(index.files)' /\ AllTell(pass.files)' /\ AllTell(pass.old.files)'
      BY <2>1, <2>2, <1>t, NothingTells DEF IndexInv, AllTell, Tells
    <2>5. (AllCutBy(index.files, index.setting) /\ AllCutBy(pass.files, pass.setting)
           /\ AllCutBy(pass.old.files, pass.old.setting))'
      BY <2>2, <1>t, NothingTells DEF IndexInv, AllCutBy
    <2>6. (FileUnderWay /\ PassTells /\ SnapshotUnderWay)'
      BY <2>2 DEF FileUnderWay, PassTells, SnapshotUnderWay
    <2>7. QED
      BY <2>3, <2>4, <2>5, <2>6 DEF IndexInv
  <1>3. CASE ChangeSettings
    BY <1>3 DEF ChangeSettings, IndexInv, IndexTypeOK, AllTell, Tells, AllCutBy, FileUnderWay, PassTells,
                SnapshotUnderWay
  <1>4. QED
    BY <1>1, <1>2, <1>3

LEMMA IndexStepInv == IndexInv /\ [IndexNext]_indexVars => IndexInv'
  <1>1. ASSUME IndexInv, IndexNext PROVE IndexInv'
    BY <1>1, SaveStep, PassBegins, StatStep, ReadStep, WriteSteps, Zenon DEF IndexNext
  <1>2. ASSUME IndexInv, UNCHANGED indexVars PROVE IndexInv'
    BY <1>2 DEF indexVars, IndexInv, IndexTypeOK, AllTell, Tells, AllCutBy, FileUnderWay, PassTells,
                SnapshotUnderWay
  <1>3. QED
    BY <1>1, <1>2

LEMMA IndexInvIsTrue == IndexInv => IndexIsTrue
  BY DEF IndexInv, AllTell, Tells, AllCutBy, IndexIsTrue, IndexHeals, ChunksMatchSettings

LEMMA StepIsExact == IndexInv /\ [IndexNext]_indexVars => PassIsExact
  <1> SUFFICES ASSUME IndexInv, [IndexNext]_indexVars, ~index.whole, index'.whole
               PROVE  \A f \in Sources : disk[f].mtime <= pass.since => index'.files[f].text = disk[f].text
    BY DEF PassIsExact
  <1>1. EndWrite
    <2>1. index' # index
      OBVIOUS
    <2>2. BeginWrite \/ EndWrite
      BY <2>1, Zenon DEF IndexNext, indexVars, EditFile, ChangeSettings, BeginPass, StatFile, ReadSource, PassDies
    <2>3. ~BeginWrite
      BY DEF BeginWrite
    <2>4. QED
      BY <2>2, <2>3
  <1>2. index'.files = index.files
    BY <1>1 DEF EndWrite, IndexInv, IndexTypeOK
  <1>3. QED
    BY <1>1, <1>2 DEF EndWrite, IndexInv, PassTells, SnapshotUnderWay

(* An entry never has an old text under the time of a newer one, and is    *)
(* cut by the settings that its snapshot names, for any files, any edits   *)
(* and any passes that die.                                                *)
THEOREM IndexSafety == IndexSpec => []IndexIsTrue
  <1>1. QED
    BY IndexInitInv, IndexStepInv, IndexInvIsTrue, PTL DEF IndexSpec

(* A pass that ends has the text of every file that was not saved while it *)
(* ran.                                                                    *)
THEOREM IndexCatchesUp == IndexSpec => [][PassIsExact]_indexVars
  <1>1. IndexInv /\ [IndexNext]_indexVars => [PassIsExact]_indexVars
    BY StepIsExact
  <1>2. QED
    BY <1>1, IndexInitInv, IndexStepInv, PTL DEF IndexSpec

----------------------------------------------------------------------------
(* The chunks of a text and the lines of its offsets (CodeIndex)           *)

(* chunkTextFixed (core/vector-index.ts): the chunks of a text without     *)
(* symbols cover it without a gap, each begins after the one before and    *)
(* overlaps it by half a chunk at most, for any length and any settings.   *)
THEOREM ChunksCover ==
  ASSUME NEW length \in Nat, NEW size \in Int, NEW overlap \in Int
  PROVE  ChunksCoverText(length, size, overlap)
  <1> DEFINE chunk == ChunkSize(size)
             pace == chunk - Overlap(size, overlap)
             Steps(f) == f = [n \in Nat |-> IF n = 0 THEN 0
                                ELSE Max({f[n - 1] + chunk - Overlap(size, overlap), f[n - 1] + 1})]
             start == CHOOSE f : Steps(f)
             last == CHOOSE n \in 0 .. length :
                       /\ start[n] + chunk >= length
                       /\ \A k \in 0 .. n - 1 : start[k] + chunk < length
  <1>1. /\ chunk \in Int /\ chunk >= 200
        /\ Overlap(size, overlap) \in Int
        /\ Overlap(size, overlap) >= 0 /\ 2 * Overlap(size, overlap) <= chunk
    <2>1. \A a, b \in Int : /\ Max({a, b}) = (IF a >= b THEN a ELSE b)
                            /\ Min({a, b}) = (IF a <= b THEN a ELSE b)
      BY DEF Max, Min
    <2>2. chunk \in Int /\ chunk >= 200
      BY <2>1 DEF ChunkSize
    <2>3. chunk \div 2 \in Int /\ 2 * (chunk \div 2) <= chunk /\ chunk \div 2 >= 0
      BY <2>2
    <2>4. Max({overlap, 0}) \in Int /\ Max({overlap, 0}) >= 0
      BY <2>1
    <2>5. Overlap(size, overlap) = Min({Max({overlap, 0}), chunk \div 2})
      BY DEF Overlap
    <2> DEFINE asked == Max({overlap, 0})  half == chunk \div 2
    <2> HIDE DEF asked, half
    <2>6. asked \in Int /\ asked >= 0 /\ half \in Int /\ 2 * half <= chunk /\ half >= 0
      BY <2>3, <2>4 DEF asked, half
    <2>7. Overlap(size, overlap) = (IF asked <= half THEN asked ELSE half)
      BY <2>1, <2>5, <2>6 DEF asked, half
    <2> HIDE DEF chunk
    <2>8. QED
      BY <2>2, <2>6, <2>7
  <1>2. Starts(length, size, overlap) = [i \in 1 .. last + 1 |-> start[i - 1]]
    BY DEF Starts
  <1> HIDE DEF chunk
  <1>3. pace \in Int /\ pace >= 1 /\ pace <= chunk /\ 2 * pace >= chunk
    BY <1>1
  <1> HIDE DEF pace
  <1>4. \A a, b \in Int : Max({a, b}) = (IF a >= b THEN a ELSE b)
    BY DEF Max
  <1>5. \E f : Steps(f)
    <2> DEFINE step == [x \in Int |-> Max({x + chunk - Overlap(size, overlap), x + 1})]
    <2>1. step \in [Int -> Int]
      BY <1>1, <1>4
    <2>2. \E f \in [Nat -> Int] : Advances(f, 0, step)
      <3>1. 0 \in Int
        OBVIOUS
      <3> HIDE DEF step
      <3>2. QED
        BY <2>1, <3>1, SequenceExists, Zenon
    <2>3. PICK f \in [Nat -> Int] : f[0] = 0 /\ \A n \in Nat \ {0} : f[n] = step[f[n - 1]]
      BY <2>2 DEF Advances
    <2> DEFINE g == [n \in Nat |-> IF n = 0 THEN 0
                       ELSE Max({f[n - 1] + chunk - Overlap(size, overlap), f[n - 1] + 1})]
    <2>4. f = g
      <3>1. ASSUME NEW n \in Nat PROVE f[n] = g[n]
        <4>1. CASE n = 0
          BY <2>3, <4>1
        <4>2. CASE n # 0
          <5>1. n - 1 \in Nat /\ f[n - 1] \in Int
            BY <4>2
          <5>2. f[n] = step[f[n - 1]]
            BY <2>3, <4>2
          <5>3. QED
            BY <4>2, <5>1, <5>2
        <4>3. QED
          BY <4>1, <4>2
      <3>2. f = [n \in Nat |-> f[n]]
        OBVIOUS
      <3> HIDE DEF g
      <3>3. g = [n \in Nat |-> g[n]]
        BY DEF g
      <3>4. QED
        BY <3>1, <3>2, <3>3
    <2>5. Steps(f)
      BY <2>4
    <2>6. QED
      BY <2>5
  <1>6. Steps(start)
    <2> HIDE DEF Steps
    <2>1. QED
      BY <1>5
  <1>7. start[0] = 0 /\ \A n \in Nat \ {0} : start[n] = Max({start[n - 1] + chunk - Overlap(size, overlap), start[n - 1] + 1})
    <2> HIDE DEF start
    <2>1. QED
      BY <1>6
  <1> HIDE DEF start
  <1>8. ASSUME NEW n \in Nat PROVE start[n] = n * pace
    <2> DEFINE Bad == {k \in Nat : start[k] # k * pace}
    <2>1. Bad = {}
      <3> SUFFICES ASSUME Bad # {} PROVE FALSE
        OBVIOUS
      <3>1. Bad \in SUBSET Nat
        OBVIOUS
      <3>2. PICK k \in Bad : \A q \in Bad : k <= q
        <4> HIDE DEF Bad
        <4>1. QED
          BY <3>1, LeastNumber
      <3>3. k \in Nat /\ start[k] # k * pace
        BY <3>2
      <3>4. k # 0
        BY <1>3, <1>7, <3>3
      <3>5. k - 1 \in Nat /\ start[k - 1] = (k - 1) * pace
        BY <3>2, <3>3, <3>4
      <3>6. (k - 1) * pace \in Int /\ (k - 1) * pace + pace = k * pace
        BY <1>3, <3>3
      <3>7. start[k] = start[k - 1] + pace
        <4>1. start[k - 1] \in Int
          BY <3>5, <3>6
        <4>2. pace = chunk - Overlap(size, overlap)
          BY DEF pace
        <4>3. /\ start[k - 1] + chunk - Overlap(size, overlap) = start[k - 1] + pace
              /\ start[k - 1] + pace \in Int /\ start[k - 1] + 1 \in Int
              /\ start[k - 1] + pace >= start[k - 1] + 1
          BY <1>1, <1>3, <4>1, <4>2
        <4>4. start[k] = Max({start[k - 1] + pace, start[k - 1] + 1})
          BY <1>7, <3>3, <3>4, <4>3
        <4>5. QED
          BY <1>4, <4>3, <4>4
      <3>8. QED
        BY <3>3, <3>5, <3>6, <3>7
    <2>2. QED
      BY <2>1
  <1>9. \A n \in Nat : start[n] \in Nat /\ start[n] >= n /\ start[n + 1] = start[n] + pace
    <2> TAKE n \in Nat
    <2>1. start[n] = n * pace /\ start[n + 1] = (n + 1) * pace
      BY <1>8
    <2>2. n * pace \in Nat /\ n * pace >= n /\ (n + 1) * pace = n * pace + pace
      BY <1>3
    <2>3. QED
      BY <2>1, <2>2
  <1>10. /\ last \in 0 .. length /\ start[last] + chunk >= length
         /\ \A k \in 0 .. last - 1 : start[k] + chunk < length
    <2> DEFINE Enough == {n \in Nat : start[n] + chunk >= length}
    <2>1. length \in Enough
      BY <1>1, <1>9
    <2>2. Enough \in SUBSET Nat
      OBVIOUS
    <2>3. PICK n \in Enough : \A q \in Enough : n <= q
      <3> HIDE DEF Enough
      <3>1. QED
        BY <2>1, <2>2, LeastNumber
    <2>4. n \in 0 .. length
      BY <2>1, <2>3
    <2>5. \A k \in 0 .. n - 1 : start[k] + chunk < length
      <3> TAKE k \in 0 .. n - 1
      <3>1. k \in Nat /\ k < n
        BY <2>4
      <3>2. k \notin Enough
        BY <2>3, <2>4, <3>1
      <3>3. start[k] + chunk \in Int
        BY <1>1, <1>9, <3>1
      <3>4. QED
        BY <3>1, <3>2, <3>3
    <2>6. QED
      BY <2>3, <2>4, <2>5
  <1> HIDE DEF last
  <1> DEFINE starts == Starts(length, size, overlap)
  <1>11. /\ Len(starts) = last + 1
         /\ \A i \in 1 .. last + 1 : starts[i] = start[i - 1]
    <2>1. last + 1 \in Nat
      BY <1>10
    <2>2. QED
      BY <1>2, <2>1
  <1> HIDE DEF starts
  <1>12. starts[1] = 0 /\ starts[Len(starts)] + chunk >= length
    BY <1>7, <1>10, <1>11
  <1>13. ASSUME NEW i \in 1 .. Len(starts) - 1
         PROVE  /\ starts[i] < starts[i + 1] /\ starts[i + 1] <= starts[i] + chunk
                /\ 2 * (starts[i + 1] - starts[i]) >= chunk
    <2>1. i - 1 \in Nat /\ starts[i] = start[i - 1] /\ starts[i + 1] = start[i]
      BY <1>10, <1>11
    <2>2. (i - 1) + 1 = i
      OBVIOUS
    <2>3. start[i - 1] \in Nat /\ start[i] = start[i - 1] + pace
      BY <1>9, <2>1, <2>2, Zenon
    <2>4. QED
      BY <1>1, <1>3, <2>1, <2>3
  <1>14. QED
    BY <1>12, <1>13 DEF ChunksCoverText, starts, chunk

(* The middle of an interval is in it.                                     *)
LEMMA MiddleIsInside ==
  ASSUME NEW low \in Nat, NEW high \in Int, low <= high
  PROVE  /\ (low + high) \div 2 \in Nat /\ low <= (low + high) \div 2 /\ (low + high) \div 2 <= high
  OBVIOUS

(* The search of an interval, by what it looks at and where it goes on.    *)
LEMMA SearchExists ==
  ASSUME NEW offset \in Nat, NEW starts \in Seq(Nat)
  PROVE  \E f : f = [span \in Nat \X Int |->
           LET low == span[1]
               high == span[2]
               middle == (low + high) \div 2
           IN  IF low > high THEN Len(starts)
               ELSE IF /\ offset >= starts[middle + 1]
                       /\ middle + 1 < Len(starts) => offset < starts[middle + 2] THEN middle + 1
               ELSE f[IF offset < starts[middle + 1] THEN <<low, middle - 1>> ELSE <<middle + 1, high>>]]
  <1> DEFINE D == Nat \X Int
             mid(p) == (p[1] + p[2]) \div 2
             over(p) == p[1] > p[2]
             hit(p) == /\ offset >= starts[mid(p) + 1]
                       /\ mid(p) + 1 < Len(starts) => offset < starts[mid(p) + 2]
             First == {p \in D : over(p) \/ hit(p)}
             value == [p \in D |-> IF over(p) THEN Len(starts) ELSE mid(p) + 1]
             next == [p \in D |-> IF over(p) THEN p
                                  ELSE IF offset < starts[mid(p) + 1] THEN <<p[1], mid(p) - 1>>
                                  ELSE <<mid(p) + 1, p[2]>>]
             step == [q \in D \X Int |-> q[2]]
             size == [p \in D |-> IF over(p) THEN 0 ELSE p[2] - p[1] + 1]
  <1>1. ASSUME NEW p \in D
        PROVE  /\ p[1] \in Nat /\ p[2] \in Int /\ mid(p) \in Int /\ p = <<p[1], p[2]>>
               /\ ~over(p) => mid(p) \in Nat /\ p[1] <= mid(p) /\ mid(p) <= p[2]
    <2>1. p[1] \in Nat /\ p[2] \in Int /\ p = <<p[1], p[2]>>
      OBVIOUS
    <2>2. QED
      BY <2>1, MiddleIsInside
  <1> HIDE DEF mid
  <1>2. value \in [D -> Int]
    BY <1>1
  <1>3. next \in [D -> D]
    BY <1>1
  <1>4. step \in [D \X Int -> Int] /\ size \in [D -> Nat] /\ First \in SUBSET D
    <2>1. step \in [D \X Int -> Int]
      OBVIOUS
    <2>2. size \in [D -> Nat]
      BY <1>1
    <2>3. First \in SUBSET D
      OBVIOUS
    <2> HIDE DEF First, step, size
    <2>4. QED
      BY <2>1, <2>2, <2>3
  <1>5. Descends(D, First, next, size)
    <2> SUFFICES ASSUME NEW p \in D, p \notin First PROVE size[next[p]] < size[p]
      BY DEF Descends
    <2>1. ~over(p) /\ mid(p) \in Nat /\ p[1] <= mid(p) /\ mid(p) <= p[2] /\ p[1] \in Nat /\ p[2] \in Int
      BY <1>1
    <2>2. size[p] = p[2] - p[1] + 1
      BY <2>1
    <2>3. next[p] \in {<<p[1], mid(p) - 1>>, <<mid(p) + 1, p[2]>>} /\ next[p] \in D
      BY <1>3, <2>1
    <2>4. /\ size[<<p[1], mid(p) - 1>>] = IF p[1] > mid(p) - 1 THEN 0 ELSE (mid(p) - 1) - p[1] + 1
          /\ size[<<mid(p) + 1, p[2]>>] = IF mid(p) + 1 > p[2] THEN 0 ELSE p[2] - (mid(p) + 1) + 1
      BY <2>1
    <2> DEFINE m == mid(p)
    <2>5. m \in Nat /\ p[1] <= m /\ m <= p[2] /\ p[1] \in Nat /\ p[2] \in Int
      BY <2>1
    <2>6. \/ size[next[p]] = IF p[1] > m - 1 THEN 0 ELSE (m - 1) - p[1] + 1
          \/ size[next[p]] = IF m + 1 > p[2] THEN 0 ELSE p[2] - (m + 1) + 1
      <3> HIDE DEF size, next
      <3>1. QED
        BY <2>3, <2>4, Zenon
    <2> DEFINE width == size[p]  after == size[next[p]]  low == p[1]  high == p[2]
    <2>7. /\ width = high - low + 1 /\ m \in Nat /\ low <= m /\ m <= high /\ low \in Nat /\ high \in Int
          /\ \/ after = IF low > m - 1 THEN 0 ELSE (m - 1) - low + 1
             \/ after = IF m + 1 > high THEN 0 ELSE high - (m + 1) + 1
      BY <2>2, <2>5, <2>6
    <2> HIDE DEF width, after, low, high, m
    <2>8. after < width
      BY <2>7
    <2>9. QED
      BY <2>8 DEF after, width
  <1>6. \E f \in [D -> Int] : Recurs(f, D, First, value, next, step)
    <2> HIDE DEF D, First, value, next, step, size
    <2>1. QED
      BY <1>2, <1>3, <1>4, <1>5, RecursionExists, Zenon
  <1>7. PICK f \in [D -> Int] : Recurs(f, D, First, value, next, step)
    BY <1>6
  <1>8. \A p \in D : f[p] = IF p \in First THEN value[p] ELSE step[<<p, f[next[p]]>>]
    BY <1>7, Zenon DEF Recurs
  <1> DEFINE body(p) == IF over(p) THEN Len(starts)
                        ELSE IF hit(p) THEN mid(p) + 1
                        ELSE f[IF offset < starts[mid(p) + 1] THEN <<p[1], mid(p) - 1>> ELSE <<mid(p) + 1, p[2]>>]
  <1>9. ASSUME NEW p \in D PROVE f[p] = body(p)
    <2>1. CASE p \in First
      <3>1. f[p] = value[p]
        BY <1>8, <2>1
      <3>2. QED
        BY <2>1, <3>1
    <2>2. CASE p \notin First
      <3>1. f[p] = step[<<p, f[next[p]]>>] /\ next[p] \in D /\ f[next[p]] \in Int
        BY <1>3, <1>8, <2>2
      <3>2. f[p] = f[next[p]]
        BY <3>1
      <3>3. next[p] = IF offset < starts[mid(p) + 1] THEN <<p[1], mid(p) - 1>> ELSE <<mid(p) + 1, p[2]>>
        BY <2>2
      <3>4. ~over(p) /\ ~hit(p)
        BY <2>2
      <3> HIDE DEF over, hit, next
      <3>5. QED
        BY <3>2, <3>3, <3>4
    <2>3. QED
      BY <2>1, <2>2
  <1>10. f = [p \in D |-> body(p)]
    <2>1. f = [p \in D |-> f[p]]
      OBVIOUS
    <2> HIDE DEF body, D
    <2>2. QED
      BY <1>9, <2>1
  <1>11. QED
    <2> DEFINE g == f
    <2>1. g = [span \in Nat \X Int |->
           LET low == span[1]
               high == span[2]
               middle == (low + high) \div 2
           IN  IF low > high THEN Len(starts)
               ELSE IF /\ offset >= starts[middle + 1]
                       /\ middle + 1 < Len(starts) => offset < starts[middle + 2] THEN middle + 1
               ELSE g[IF offset < starts[middle + 1] THEN <<low, middle - 1>> ELSE <<middle + 1, high>>]]
      BY <1>10, Zenon DEF mid
    <2> HIDE DEF g
    <2>2. QED
      BY <2>1

(* offsetToLine (core/vector-index.ts): the binary search finds the last   *)
(* line that starts at or before an offset, for any text.                  *)
THEOREM LinesAreFound ==
  ASSUME NEW offset \in Nat, NEW starts \in Seq(Nat), starts # <<>>, starts[1] = 0,
         \A i, j \in DOMAIN starts : i < j => starts[i] < starts[j]
  PROVE  LineIsFound(offset, starts)
  <1> DEFINE N == Len(starts)
             Found(f) == f = [span \in Nat \X Int |->
               LET low == span[1]
                   high == span[2]
                   middle == (low + high) \div 2
               IN  IF low > high THEN Len(starts)
                   ELSE IF /\ offset >= starts[middle + 1]
                           /\ middle + 1 < Len(starts) => offset < starts[middle + 2] THEN middle + 1
                   ELSE f[IF offset < starts[middle + 1] THEN <<low, middle - 1>> ELSE <<middle + 1, high>>]]
             found == CHOOSE f : Found(f)
  <1>1. N \in Nat \ {0} /\ DOMAIN starts = 1 .. N /\ \A i \in 1 .. N : starts[i] \in Nat
    OBVIOUS
  <1>2. \E k \in 1 .. N : \A i \in 1 .. N : starts[i] <= offset <=> i <= k
    <2> DEFINE After == {i \in 1 .. N : starts[i] > offset} \cup {N + 1}
    <2>1. After \in SUBSET Nat /\ After # {}
      BY <1>1
    <2>2. PICK p \in After : \A q \in After : p <= q
      <3> HIDE DEF After
      <3>1. QED
        BY <2>1, LeastNumber
    <2>3. p \in 2 .. N + 1
      BY <1>1, <2>2
    <2>4. ASSUME NEW i \in 1 .. N PROVE starts[i] <= offset <=> i <= p - 1
      <3>1. CASE i < p
        <4>1. i \notin After
          BY <1>1, <2>1, <2>2, <2>3, <3>1
        <4>2. QED
          BY <1>1, <2>3, <3>1, <4>1
      <3>2. CASE i = p
        BY <1>1, <2>2, <2>3, <3>2
      <3>3. CASE i > p
        <4>1. p \in 1 .. N /\ starts[p] > offset
          BY <1>1, <2>2, <2>3, <3>3
        <4>2. starts[p] < starts[i]
          BY <1>1, <3>3, <4>1
        <4>3. QED
          BY <1>1, <2>3, <3>3, <4>1, <4>2
      <3>4. QED
        BY <1>1, <2>3, <3>1, <3>2, <3>3
    <2>5. p - 1 \in 1 .. N
      BY <1>1, <2>3
    <2>6. QED
      BY <2>4, <2>5
  <1>3. PICK k \in 1 .. N : \A i \in 1 .. N : starts[i] <= offset <=> i <= k
    BY <1>2
  <1>4. Cardinality({i \in DOMAIN starts : starts[i] <= offset}) = k
    <2>1. {i \in DOMAIN starts : starts[i] <= offset} = 1 .. k
      BY <1>1, <1>3
    <2>2. Cardinality(1 .. k) = k
      BY <1>1, <1>3, FS_Interval
    <2>3. QED
      BY <2>1, <2>2
  <1>5. Found(found)
    <2>1. \E f : Found(f)
      BY SearchExists
    <2> HIDE DEF Found
    <2>2. QED
      BY <2>1
  <1>6. OffsetToLine(offset, starts) = found[<<0, N - 1>>]
    BY DEF OffsetToLine
  <1> HIDE DEF found
  <1>7. ASSUME NEW low \in Nat, NEW high \in Int, low + 1 <= k, k <= high + 1, high + 1 <= N
        PROVE  LET middle == (low + high) \div 2 IN
               /\ middle \in Nat /\ low <= middle /\ middle <= high
               /\ \/ found[<<low, high>>] = k
                  \/ found[<<low, high>>] = found[<<low, middle - 1>>] /\ k <= middle
                  \/ found[<<low, high>>] = found[<<middle + 1, high>>] /\ middle + 2 <= k
    <2> DEFINE middle == (low + high) \div 2
    <2>1. middle \in Nat /\ low <= middle /\ middle <= high
      BY <1>1, <1>7, MiddleIsInside
    <2>2. found[<<low, high>>] =
            IF low > high THEN N
            ELSE IF /\ offset >= starts[middle + 1]
                    /\ middle + 1 < N => offset < starts[middle + 2] THEN middle + 1
            ELSE found[IF offset < starts[middle + 1] THEN <<low, middle - 1>> ELSE <<middle + 1, high>>]
      <3>1. <<low, high>> \in Nat \X Int
        OBVIOUS
      <3>2. QED
        BY <1>5, <3>1
    <2> HIDE DEF middle
    <2>3. ~(low > high)
      BY <2>1
    <2>4. middle + 1 \in 1 .. N /\ starts[middle + 1] \in Nat
      BY <1>1, <1>7, <2>1
    <2>5. offset >= starts[middle + 1] <=> middle + 1 <= k
      BY <1>3, <2>4
    <2>6. middle + 1 < N => middle + 2 \in 1 .. N /\ starts[middle + 2] \in Nat
                            /\ (offset < starts[middle + 2] <=> k < middle + 2)
      BY <1>1, <1>3, <2>1
    <2>7. CASE middle + 1 = k
      <3>1. found[<<low, high>>] = middle + 1
        BY <1>1, <1>3, <2>1, <2>2, <2>4, <2>5, <2>6, <2>7
      <3>2. QED
        BY <2>1, <2>7, <3>1 DEF middle
    <2>8. CASE middle + 1 > k
      <3>1. offset < starts[middle + 1]
        BY <1>1, <1>3, <2>1, <2>4, <2>5, <2>8
      <3>2. ~(offset >= starts[middle + 1])
        BY <2>4, <3>1
      <3>3. found[<<low, high>>] = found[<<low, middle - 1>>]
        <4> HIDE DEF N
        <4>1. QED
          BY <2>2, <2>3, <3>1, <3>2
      <3>4. k <= middle
        BY <1>1, <1>3, <2>1, <2>8
      <3>5. QED
        BY <2>1, <3>3, <3>4 DEF middle
    <2>9. CASE middle + 1 < k
      <3>1. ~(offset < starts[middle + 1]) /\ middle + 1 < N /\ ~(offset < starts[middle + 2])
        BY <1>1, <1>3, <2>1, <2>4, <2>5, <2>6, <2>9
      <3>2. found[<<low, high>>] = found[<<middle + 1, high>>]
        <4> HIDE DEF N
        <4>1. QED
          BY <2>2, <2>3, <3>1
      <3>3. middle + 2 <= k
        BY <1>1, <1>3, <2>1, <2>9
      <3>4. QED
        BY <2>1, <3>2, <3>3 DEF middle
    <2>10. QED
      BY <1>1, <1>3, <2>1, <2>7, <2>8, <2>9
  <1>8. ASSUME NEW low \in Nat, NEW high \in Int, low + 1 <= k, k <= high + 1, high + 1 <= N
        PROVE  found[<<low, high>>] = k
    <2> DEFINE Bad == {n \in Nat : \E a \in Nat, b \in Int :
                        /\ a + 1 <= k /\ k <= b + 1 /\ b + 1 <= N /\ n = b - a
                        /\ found[<<a, b>>] # k}
    <2>1. Bad = {}
      <3> SUFFICES ASSUME Bad # {} PROVE FALSE
        OBVIOUS
      <3>1. Bad \in SUBSET Nat
        OBVIOUS
      <3>2. PICK n \in Bad : \A q \in Bad : n <= q
        <4> HIDE DEF Bad
        <4>1. QED
          BY <3>1, LeastNumber
      <3>3. PICK a \in Nat, b \in Int : /\ a + 1 <= k /\ k <= b + 1 /\ b + 1 <= N /\ n = b - a
                                        /\ found[<<a, b>>] # k
        BY <3>2
      <3> DEFINE middle == (a + b) \div 2
      <3>4. /\ middle \in Nat /\ a <= middle /\ middle <= b
            /\ \/ found[<<a, b>>] = found[<<a, middle - 1>>] /\ k <= middle
               \/ found[<<a, b>>] = found[<<middle + 1, b>>] /\ middle + 2 <= k
        BY <1>7, <3>3
      <3> HIDE DEF middle
      <3>5. CASE found[<<a, b>>] = found[<<a, middle - 1>>] /\ k <= middle
        <4>1. middle - 1 \in Int /\ k <= (middle - 1) + 1 /\ (middle - 1) + 1 <= N
              /\ (middle - 1) - a \in Nat /\ (middle - 1) - a < n
          <5>1. k \in Nat /\ N \in Nat /\ a + 1 <= k /\ b + 1 <= N /\ n = b - a
            BY <1>1, <1>3, <3>3
          <5> HIDE DEF N
          <5>2. QED
            BY <3>4, <3>5, <5>1
        <4>2. found[<<a, middle - 1>>] # k
          BY <3>3, <3>5
        <4>3. (middle - 1) - a \in Bad
          BY <3>3, <4>1, <4>2
        <4> HIDE DEF Bad
        <4>4. QED
          BY <3>1, <3>2, <4>1, <4>3
      <3>6. CASE found[<<a, b>>] = found[<<middle + 1, b>>] /\ middle + 2 <= k
        <4>1. middle + 1 \in Nat /\ (middle + 1) + 1 <= k /\ b - (middle + 1) \in Nat /\ b - (middle + 1) < n
          BY <1>1, <1>3, <3>3, <3>4, <3>6
        <4>2. found[<<middle + 1, b>>] # k
          BY <3>3, <3>6
        <4>3. b - (middle + 1) \in Bad
          BY <3>3, <4>1, <4>2
        <4> HIDE DEF Bad
        <4>4. QED
          BY <3>1, <3>2, <4>1, <4>3
      <3>7. QED
        BY <3>4, <3>5, <3>6
    <2>2. high - low \in Nat
      BY <1>1, <1>3, <1>8
    <2>3. QED
      BY <1>8, <2>1, <2>2
  <1>9. found[<<0, N - 1>>] = k
    BY <1>1, <1>3, <1>8
  <1>10. QED
    BY <1>4, <1>6, <1>9 DEF LineIsFound

----------------------------------------------------------------------------
(* The memory file (MemoryFile)                                            *)

Ending == {"running", "appended", "trimming", "done", "dead"}
Memories == Seq(MemoryRuns \cup {"torn"})

MemoryTypeOK ==
    /\ lines \in Memories /\ torn \in BOOLEAN
    /\ ending \in [MemoryRuns -> Ending] /\ kept \in [MemoryRuns -> Memories]
    /\ appended \in Seq(MemoryRuns) /\ crossed \subseteq MemoryRuns
    /\ \A r \in MemoryRuns : ending[r] = "trimming" => Len(kept[r]) > MaxEntries

(* A run appends once.                                                     *)
AppendedOnce ==
    /\ \A i, k \in 1 .. Len(appended) : appended[i] = appended[k] => i = k
    /\ \A i \in 1 .. Len(appended) : ending[appended[i]] # "running"

(* What is in the file is as old as its place from the end says, at least. *)
Aged(seq) ==
    \A k \in 1 .. Len(seq) : \E i \in 1 .. Len(appended) :
        appended[i] = seq[k] /\ Len(seq) - k <= Len(appended) - i

HasNewest(seq) ==
    \A i \in 1 .. Len(appended) :
        i > Len(appended) - MaxEntries => appended[i] \in Range(seq) \cup crossed

FileIsSound ==
    /\ ~torn /\ Aged(lines) /\ HasNewest(lines)
    /\ Len(lines) > MaxEntries => \E r \in MemoryRuns : ending[r] \in {"appended", "trimming"}

TrimIsSound(r) ==
    ending[r] = "trimming" =>
        Len(kept[r]) > MaxEntries /\ Aged(kept[r]) /\ HasNewest(Newest(kept[r]))

MemoryInv ==
    /\ MemoryTypeOK /\ AppendedOnce
    /\ ~Died => FileIsSound /\ \A r \in MemoryRuns : TrimIsSound(r)

LEMMA MemoryInitInv == MemoryInit => MemoryInv
  <1> SUFFICES ASSUME MemoryInit PROVE MemoryInv
    OBVIOUS
  <1>1. /\ lines = <<>> /\ appended = <<>> /\ <<>> \in Memories /\ <<>> \in Seq(MemoryRuns) /\ Len(<<>>) = 0
    BY EmptySeq DEF MemoryInit, Memories
  <1>2. MemoryTypeOK
    BY <1>1 DEF MemoryInit, MemoryTypeOK, Ending
  <1>3. AppendedOnce /\ Aged(lines) /\ HasNewest(lines)
    BY <1>1 DEF AppendedOnce, Aged, HasNewest
  <1>4. FileIsSound
    BY <1>1, <1>3, MemoryAssumption DEF MemoryInit, FileIsSound
  <1>5. \A r \in MemoryRuns : TrimIsSound(r)
    BY DEF MemoryInit, TrimIsSound
  <1>6. QED
    BY <1>2, <1>3, <1>4, <1>5 DEF MemoryInv

(* The newest entries are as many as there may be, each at its place from  *)
(* the end.                                                                *)
LEMMA NewestSays ==
  ASSUME NEW S, NEW seq \in Seq(S), Len(seq) > MaxEntries
  PROVE  /\ Newest(seq) \in Seq(S) /\ Len(Newest(seq)) = MaxEntries
         /\ \A i \in 1 .. MaxEntries : /\ Newest(seq)[i] = seq[Len(seq) - MaxEntries + i]
                                       /\ Len(seq) - MaxEntries + i \in 1 .. Len(seq)
  <1> DEFINE n == Len(seq)
             m == n - MaxEntries + 1
  <1>1. n \in Nat /\ MaxEntries \in Nat \ {0} /\ m \in Int /\ m >= 1 /\ m <= n
    BY MemoryAssumption
  <1>2. \A i \in m .. n : seq[i] \in S
    BY <1>1
  <1>3. n - m + 1 = MaxEntries
    BY <1>1
  <1>4. /\ SubSeq(seq, m, n) \in Seq(S)
        /\ Len(SubSeq(seq, m, n)) = IF m <= n THEN n - m + 1 ELSE 0
        /\ \A i \in 1 .. n - m + 1 : SubSeq(seq, m, n)[i] = seq[m + i - 1]
    <2> HIDE DEF m, n
    <2>1. QED
      BY <1>1, <1>2, SubSeqProperties
  <1>5. Newest(seq) = SubSeq(seq, m, n)
    BY DEF Newest
  <1>6. \A i \in 1 .. MaxEntries : m + i - 1 = Len(seq) - MaxEntries + i /\ m + i - 1 \in 1 .. n
    BY <1>1
  <1>7. QED
    BY <1>1, <1>3, <1>4, <1>5, <1>6

(* The file is cut to what was newest: by the ages, that is what is cut.   *)
LEMMA NewestOfAged ==
  ASSUME MemoryTypeOK, AppendedOnce, NEW seq \in Memories, Len(seq) > MaxEntries, Aged(seq)
  PROVE  Aged(Newest(seq)) /\ (HasNewest(seq) => HasNewest(Newest(seq)))
  <1> DEFINE new == Newest(seq)
             n == Len(seq)
  <1>1. /\ Len(new) = MaxEntries /\ n \in Nat /\ MaxEntries \in Nat \ {0} /\ Len(appended) \in Nat
        /\ \A i \in 1 .. MaxEntries : new[i] = seq[n - MaxEntries + i] /\ n - MaxEntries + i \in 1 .. n
        /\ new \in Memories
    BY NewestSays, MemoryAssumption DEF Memories, MemoryTypeOK
  <1>2. n > MaxEntries /\ n = Len(seq)
    OBVIOUS
  <1> HIDE DEF new, n
  <1>3. ASSUME NEW k \in 1 .. Len(new)
        PROVE  \E i \in 1 .. Len(appended) : appended[i] = new[k] /\ Len(new) - k <= Len(appended) - i
    <2> DEFINE at == n - MaxEntries + k
    <2>1. at \in 1 .. n /\ new[k] = seq[at] /\ n - at = Len(new) - k
      BY <1>1, <1>3
    <2> HIDE DEF at
    <2>2. PICK i \in 1 .. Len(appended) : appended[i] = seq[at] /\ n - at <= Len(appended) - i
      BY <1>2, <2>1 DEF Aged
    <2>3. QED
      BY <2>1, <2>2
  <1>4. ASSUME HasNewest(seq), NEW i \in 1 .. Len(appended), i > Len(appended) - MaxEntries, appended[i] \notin crossed
        PROVE  appended[i] \in Range(new)
    <2>1. appended[i] \in Range(seq)
      BY <1>4 DEF HasNewest
    <2>2. DOMAIN seq = 1 .. n /\ DOMAIN new = 1 .. MaxEntries
      BY <1>1, <1>2 DEF Memories
    <2>3. PICK at \in 1 .. n : seq[at] = appended[i]
      BY <2>1, <2>2 DEF Range
    <2>4. PICK k \in 1 .. Len(appended) : appended[k] = seq[at] /\ n - at <= Len(appended) - k
      BY <1>2, <2>3 DEF Aged
    <2>5. k = i
      BY <2>3, <2>4 DEF AppendedOnce
    <2>6. n - at < MaxEntries
      BY <1>1, <1>4, <2>4, <2>5
    <2> DEFINE place == at - (n - MaxEntries)
    <2>7. place \in 1 .. MaxEntries /\ n - MaxEntries + place = at
      BY <1>1, <2>3, <2>6
    <2> HIDE DEF place
    <2>8. new[place] = seq[at]
      BY <1>1, <2>7
    <2>9. QED
      BY <2>2, <2>3, <2>7, <2>8 DEF Range
  <1>5. QED
    BY <1>3, <1>4 DEF Aged, HasNewest, new

(* A memory is appended to the file, and to none that was read before.     *)
LEMMA AppendStep ==
  ASSUME MemoryInv, NEW r \in MemoryRuns, AppendMemory(r)
  PROVE  MemoryInv'
  <1> DEFINE n == Len(appended)
  <1>t. /\ MemoryTypeOK /\ n \in Nat /\ appended \in Seq(MemoryRuns) /\ lines \in Memories
        /\ ending \in [MemoryRuns -> Ending] /\ MaxEntries \in Nat \ {0}
    BY MemoryAssumption DEF MemoryInv, MemoryTypeOK
  <1>1. /\ ending[r] = "running" /\ lines' = Append(lines, IF torn THEN "torn" ELSE r) /\ torn' = FALSE
        /\ appended' = Append(appended, r) /\ crossed' = IF Trimming # {} THEN crossed \cup {r} ELSE crossed
        /\ ending' = [ending EXCEPT ![r] = "appended"] /\ UNCHANGED kept
    BY DEF AppendMemory
  <1>2. /\ appended' \in Seq(MemoryRuns) /\ Len(appended') = n + 1 /\ appended'[n + 1] = r
        /\ \A i \in 1 .. n : appended'[i] = appended[i]
    BY <1>1, <1>t
  <1>3. crossed \subseteq crossed' /\ crossed' \subseteq MemoryRuns
    BY <1>1, <1>t DEF MemoryTypeOK
  <1>4. ending' \in [MemoryRuns -> Ending] /\ ending'[r] = "appended" /\ \A s \in MemoryRuns \ {r} : ending'[s] = ending[s]
    BY <1>1, <1>t DEF Ending
  <1>5. MemoryTypeOK'
    <2>1. lines' \in Memories
      BY <1>1, <1>t DEF Memories
    <2>2. \A s \in MemoryRuns : ending'[s] = "trimming" => ending[s] = "trimming"
      BY <1>4
    <2>3. QED
      BY <1>1, <1>2, <1>3, <1>4, <1>t, <2>1, <2>2 DEF MemoryTypeOK
  <1>6. AppendedOnce'
    <2>1. \A i \in 1 .. n : appended[i] # r /\ appended[i] \in MemoryRuns
      BY <1>1, <1>t DEF MemoryInv, AppendedOnce
    <2>2. \A i \in 1 .. n + 1 : i \in 1 .. n \/ i = n + 1
      BY <1>t
    <2>3. \A i, k \in 1 .. n + 1 : appended'[i] = appended'[k] => i = k
      BY <1>2, <2>1, <2>2 DEF MemoryInv, AppendedOnce
    <2>4. \A i \in 1 .. n + 1 : ending'[appended'[i]] # "running"
      BY <1>2, <1>4, <2>1, <2>2 DEF MemoryInv, AppendedOnce
    <2>5. QED
      BY <1>2, <2>3, <2>4 DEF AppendedOnce
  <1>7. Died' => Died
    BY <1>4 DEF Died
  <1>8. CASE Died
    <2>1. Died'
      BY <1>1, <1>4, <1>8 DEF Died
    <2>2. QED
      BY <1>5, <1>6, <2>1 DEF MemoryInv
  <1>9. CASE ~Died
    <2>1. lines' = Append(lines, r) /\ FileIsSound
      BY <1>1, <1>9 DEF MemoryInv, FileIsSound
    <2>2. /\ Len(lines') = Len(lines) + 1 /\ lines'[Len(lines) + 1] = r /\ Len(lines) \in Nat
          /\ \A k \in 1 .. Len(lines) : lines'[k] = lines[k]
      BY <1>t, <2>1 DEF Memories
    <2>3. ASSUME NEW seq \in Memories, Aged(seq)
          PROVE  \A k \in 1 .. Len(seq) : \E i \in 1 .. n + 1 :
                    appended'[i] = seq[k] /\ Len(seq) + 1 - k <= n + 1 - i
      <3>1. SUFFICES ASSUME NEW k \in 1 .. Len(seq)
                     PROVE  \E i \in 1 .. n + 1 : appended'[i] = seq[k] /\ Len(seq) + 1 - k <= n + 1 - i
        OBVIOUS
      <3>2. PICK i \in 1 .. n : appended[i] = seq[k] /\ Len(seq) - k <= n - i
        BY <2>3, <3>1 DEF Aged
      <3>3. Len(seq) \in Nat
        BY DEF Memories
      <3>4. i \in 1 .. n + 1 /\ Len(seq) + 1 - k <= n + 1 - i
        BY <1>t, <3>1, <3>2, <3>3
      <3>5. QED
        BY <1>2, <3>2, <3>4
    <2>4. Aged(lines)'
      <3>1. SUFFICES ASSUME NEW k \in 1 .. Len(lines) + 1
                     PROVE  \E i \in 1 .. n + 1 : appended'[i] = lines'[k] /\ Len(lines) + 1 - k <= n + 1 - i
        BY <1>2, <2>2 DEF Aged
      <3>2. CASE k = Len(lines) + 1
        <4>1. n + 1 \in 1 .. n + 1 /\ Len(lines) + 1 - k <= n + 1 - (n + 1)
          BY <1>t, <2>2, <3>2
        <4>2. QED
          BY <1>2, <2>2, <3>2, <4>1
      <3>3. CASE k # Len(lines) + 1
        <4>1. k \in 1 .. Len(lines)
          BY <2>2, <3>1, <3>3
        <4>2. QED
          BY <1>t, <2>1, <2>2, <2>3, <4>1 DEF FileIsSound
      <3>4. QED
        BY <3>2, <3>3
    <2>5. HasNewest(lines)'
      <3>1. DOMAIN lines = 1 .. Len(lines) /\ DOMAIN lines' = 1 .. Len(lines) + 1
        BY <1>t, <2>1 DEF Memories
      <3>2. Range(lines) \subseteq Range(lines') /\ r \in Range(lines')
        <4>1. \A k \in 1 .. Len(lines) : k \in 1 .. Len(lines) + 1
          BY <2>2
        <4>2. Len(lines) + 1 \in 1 .. Len(lines) + 1
          BY <2>2
        <4>3. QED
          BY <2>2, <3>1, <4>1, <4>2 DEF Range
      <3>3. ASSUME NEW i \in 1 .. n + 1, i > (n + 1) - MaxEntries
            PROVE  appended'[i] \in Range(lines') \cup crossed'
        <4>1. CASE i = n + 1
          BY <1>2, <3>2, <4>1
        <4>2. CASE i # n + 1
          <5>1. i \in 1 .. n /\ i > n - MaxEntries
            BY <1>t, <3>3, <4>2
          <5>2. QED
            BY <1>2, <1>3, <2>1, <3>2, <5>1 DEF FileIsSound, HasNewest
        <4>3. QED
          BY <4>1, <4>2
      <3>4. \A i \in 1 .. Len(appended') :
              i > Len(appended') - MaxEntries => appended'[i] \in Range(lines') \cup crossed'
        <4>1. Len(appended') = n + 1
          BY <1>2
        <4> HIDE DEF n
        <4>2. QED
          BY <3>3, <4>1, Zenon
      <3>5. QED
        BY <3>4, Zenon DEF HasNewest
    <2>6. FileIsSound'
      BY <1>1, <1>4, <2>4, <2>5 DEF FileIsSound
    <2>7. ASSUME NEW s \in MemoryRuns, ending'[s] = "trimming"
          PROVE  Len(kept'[s]) > MaxEntries /\ Aged(kept[s])' /\ HasNewest(Newest(kept[s]))'
      <3>1. /\ s # r /\ ending[s] = "trimming" /\ kept' = kept /\ kept[s] \in Memories
            /\ Len(kept[s]) > MaxEntries /\ Aged(kept[s]) /\ HasNewest(Newest(kept[s]))
        BY <1>1, <1>4, <1>9, <2>7, <1>t DEF MemoryInv, TrimIsSound, MemoryTypeOK
      <3>2. crossed' = crossed \cup {r}
        BY <1>1, <3>1 DEF Trimming
      <3>3. Aged(kept[s])'
        <4>1. Len(kept[s]) \in Nat
          BY <3>1 DEF Memories
        <4>2. SUFFICES ASSUME NEW k \in 1 .. Len(kept[s])
                       PROVE  \E i \in 1 .. n + 1 : appended'[i] = kept[s][k] /\ Len(kept[s]) - k <= n + 1 - i
          BY <1>2, <3>1 DEF Aged
        <4>3. PICK i \in 1 .. n + 1 : appended'[i] = kept[s][k] /\ Len(kept[s]) + 1 - k <= n + 1 - i
          BY <2>3, <3>1
        <4>4. Len(kept[s]) - k <= n + 1 - i
          BY <1>t, <4>1, <4>3
        <4>5. QED
          BY <4>3, <4>4
      <3>4. HasNewest(Newest(kept[s]))'
        <4>1. ASSUME NEW i \in 1 .. n + 1, i > (n + 1) - MaxEntries
              PROVE  appended'[i] \in Range(Newest(kept'[s])) \cup crossed'
          <5>1. CASE i = n + 1
            BY <1>2, <3>2, <5>1
          <5>2. CASE i # n + 1
            <6>1. i \in 1 .. n /\ i > n - MaxEntries
              BY <1>t, <4>1, <5>2
            <6>2. QED
              BY <1>2, <1>3, <3>1, <6>1 DEF HasNewest
          <5>3. QED
            BY <5>1, <5>2
        <4>2. \A i \in 1 .. Len(appended') :
                i > Len(appended') - MaxEntries => appended'[i] \in Range(Newest(kept'[s])) \cup crossed'
          <5>1. Len(appended') = n + 1
            BY <1>2
          <5> HIDE DEF n
          <5>2. QED
            BY <4>1, <5>1, Zenon
        <4>3. QED
          BY <4>2, Zenon DEF HasNewest
      <3>5. QED
        BY <3>1, <3>3, <3>4
    <2>8. \A s \in MemoryRuns : TrimIsSound(s)'
      BY <2>7 DEF TrimIsSound
    <2>9. QED
      BY <1>5, <1>6, <2>6, <2>8 DEF MemoryInv
  <1>10. QED
    BY <1>8, <1>9

(* A process dies in its line: the rest is nothing to rely on.             *)
LEMMA TornStep ==
  ASSUME MemoryInv, NEW r \in MemoryRuns, AppendTorn(r)
  PROVE  MemoryInv'
  <1>1. /\ torn' = TRUE /\ ending' = [ending EXCEPT ![r] = "dead"] /\ UNCHANGED <<lines, kept, appended, crossed>>
        /\ MemoryTypeOK
    BY DEF AppendTorn, MemoryInv
  <1>2. MemoryTypeOK' /\ Died'
    BY <1>1 DEF MemoryTypeOK, Ending, Died
  <1>3. AppendedOnce'
    BY <1>1 DEF MemoryInv, MemoryTypeOK, AppendedOnce
  <1>4. QED
    BY <1>2, <1>3 DEF MemoryInv

LEMMA TrimSteps ==
  ASSUME MemoryInv, NEW r \in MemoryRuns, ReadMemories(r) \/ WriteMemories(r)
  PROVE  MemoryInv'
  <1>t. /\ MemoryTypeOK /\ lines \in Memories /\ kept[r] \in Memories /\ ending \in [MemoryRuns -> Ending]
        /\ kept \in [MemoryRuns -> Memories] /\ MaxEntries \in Nat \ {0}
    BY MemoryAssumption DEF MemoryInv, MemoryTypeOK
  <1>1. CASE ReadMemories(r)
    <2>1. /\ ending[r] = "appended" /\ kept' = [kept EXCEPT ![r] = ReadEntries]
          /\ ending' = [ending EXCEPT ![r] = IF Len(ReadEntries) <= MaxEntries THEN "done" ELSE "trimming"]
          /\ UNCHANGED <<lines, torn, appended, crossed>>
      BY <1>1 DEF ReadMemories
    <2>2. ReadEntries \in Memories
      BY <1>t, EmptySeq DEF ReadEntries, Memories
    <2>3. MemoryTypeOK'
      BY <1>t, <2>1, <2>2 DEF MemoryTypeOK, Ending
    <2>4. AppendedOnce'
      <3>1. \A s \in MemoryRuns : ending'[s] = "running" => ending[s] = "running"
        BY <1>t, <2>1
      <3>2. \A i \in 1 .. Len(appended) : appended[i] \in MemoryRuns
        BY <1>t DEF MemoryTypeOK
      <3>3. QED
        BY <2>1, <3>1, <3>2 DEF MemoryInv, AppendedOnce
    <2>5. Died' <=> Died
      BY <1>t, <2>1 DEF Died
    <2>6. ASSUME ~Died
          PROVE  FileIsSound' /\ \A s \in MemoryRuns : TrimIsSound(s)'
      <3>1. FileIsSound /\ \A s \in MemoryRuns : TrimIsSound(s)
        BY <2>6 DEF MemoryInv
      <3>2. ReadEntries = lines
        <4>1. "torn" \notin Range(lines)
          <5>1. ASSUME NEW k \in 1 .. Len(lines) PROVE lines[k] # "torn"
            <6>1. PICK i \in 1 .. Len(appended) : appended[i] = lines[k]
              BY <3>1, <5>1 DEF FileIsSound, Aged
            <6>2. appended[i] \in MemoryRuns
              BY <1>t DEF MemoryTypeOK
            <6>3. QED
              BY <6>1, <6>2, MemoryAssumption
          <5>2. DOMAIN lines = 1 .. Len(lines)
            BY <1>t DEF Memories
          <5>3. QED
            BY <5>1, <5>2 DEF Range
        <4>2. QED
          BY <3>1, <4>1 DEF ReadEntries, FileIsSound
      <3>3. /\ kept'[r] = lines /\ Len(lines) \in Nat
            /\ ending'[r] = IF Len(lines) <= MaxEntries THEN "done" ELSE "trimming"
            /\ \A s \in MemoryRuns \ {r} : ending'[s] = ending[s] /\ kept'[s] = kept[s]
        BY <1>t, <2>1, <3>2 DEF Memories
      <3>4. Aged(lines)' /\ HasNewest(lines)' /\ ~torn'
        BY <2>1, <3>1 DEF FileIsSound, Aged, HasNewest
      <3>5. FileIsSound'
        BY <1>t, <2>1, <3>3, <3>4 DEF FileIsSound
      <3>6. ASSUME NEW s \in MemoryRuns, ending'[s] = "trimming"
            PROVE  Len(kept'[s]) > MaxEntries /\ Aged(kept[s])' /\ HasNewest(Newest(kept[s]))'
        <4>1. CASE s = r
          <5>1. Len(lines) > MaxEntries
            BY <1>t, <3>3, <3>6, <4>1
          <5>2. Aged(lines) /\ HasNewest(Newest(lines))
            BY <1>t, <3>1, <5>1, NewestOfAged DEF FileIsSound, MemoryInv
          <5>3. QED
            BY <2>1, <3>3, <4>1, <5>1, <5>2 DEF Aged, HasNewest, Newest
        <4>2. CASE s # r
          <5>1. ending[s] = "trimming" /\ kept'[s] = kept[s]
            BY <3>3, <3>6, <4>2
          <5>2. Len(kept[s]) > MaxEntries /\ Aged(kept[s]) /\ HasNewest(Newest(kept[s]))
            BY <3>1, <5>1 DEF TrimIsSound
          <5>3. QED
            BY <2>1, <5>1, <5>2 DEF Aged, HasNewest, Newest
        <4>3. QED
          BY <4>1, <4>2
      <3>7. QED
        BY <3>5, <3>6 DEF TrimIsSound
    <2>7. QED
      BY <2>3, <2>4, <2>5, <2>6 DEF MemoryInv
  <1>2. CASE WriteMemories(r)
    <2>1. /\ ending[r] = "trimming" /\ lines' = Newest(kept[r]) /\ torn' = FALSE
          /\ ending' = [ending EXCEPT ![r] = "done"] /\ UNCHANGED <<kept, appended, crossed>>
      BY <1>2 DEF WriteMemories
    <2>2. Newest(kept[r]) \in Memories
      BY <1>t, <2>1, NewestSays DEF Memories, MemoryTypeOK
    <2>3. MemoryTypeOK'
      BY <1>t, <2>1, <2>2 DEF MemoryTypeOK, Ending
    <2>4. AppendedOnce'
      <3>1. \A s \in MemoryRuns : ending'[s] = "running" => ending[s] = "running"
        BY <1>t, <2>1
      <3>2. \A i \in 1 .. Len(appended) : appended[i] \in MemoryRuns
        BY <1>t DEF MemoryTypeOK
      <3>3. QED
        BY <2>1, <3>1, <3>2 DEF MemoryInv, AppendedOnce
    <2>5. Died' <=> Died
      BY <1>t, <2>1 DEF Died
    <2>6. ASSUME ~Died
          PROVE  FileIsSound' /\ \A s \in MemoryRuns : TrimIsSound(s)'
      <3>1. /\ \A s \in MemoryRuns : TrimIsSound(s)
            /\ Len(kept[r]) > MaxEntries /\ Aged(kept[r]) /\ HasNewest(Newest(kept[r]))
        BY <2>1, <2>6 DEF MemoryInv, TrimIsSound
      <3>2. Aged(Newest(kept[r])) /\ Len(Newest(kept[r])) = MaxEntries
        BY <1>t, <3>1, NewestOfAged, NewestSays DEF MemoryInv, Memories
      <3>3. Aged(lines)' /\ HasNewest(lines)' /\ Len(lines') = MaxEntries
        BY <2>1, <3>1, <3>2 DEF Aged, HasNewest
      <3>4. FileIsSound'
        BY <1>t, <2>1, <3>3 DEF FileIsSound
      <3>5. ASSUME NEW s \in MemoryRuns, ending'[s] = "trimming"
            PROVE  Len(kept'[s]) > MaxEntries /\ Aged(kept[s])' /\ HasNewest(Newest(kept[s]))'
        <4>1. ending[s] = "trimming"
          BY <1>t, <2>1, <3>5
        <4>2. Len(kept[s]) > MaxEntries /\ Aged(kept[s]) /\ HasNewest(Newest(kept[s]))
          BY <3>1, <4>1 DEF TrimIsSound
        <4>3. QED
          BY <2>1, <4>2 DEF Aged, HasNewest, Newest
      <3>6. QED
        BY <3>4, <3>5 DEF TrimIsSound
    <2>7. QED
      BY <2>3, <2>4, <2>5, <2>6 DEF MemoryInv
  <1>3. QED
    BY <1>1, <1>2

LEMMA MemoryStepInv == MemoryInv /\ [MemoryNext]_memoryVars => MemoryInv'
  <1> SUFFICES ASSUME MemoryInv, [MemoryNext]_memoryVars PROVE MemoryInv'
    OBVIOUS
  <1>1. CASE MemoryNext
    BY <1>1, AppendStep, TornStep, TrimSteps DEF MemoryNext
  <1>2. CASE UNCHANGED memoryVars
    BY <1>2 DEF memoryVars, MemoryInv, MemoryTypeOK, AppendedOnce, FileIsSound, Aged, HasNewest, TrimIsSound,
                Newest, Died
  <1>3. QED
    BY <1>1, <1>2

LEMMA KeptAsTold == MemoryInv => MemoryIsKept
  <1> SUFFICES ASSUME MemoryInv, ~Died PROVE MemoryIsKept
    BY DEF MemoryIsKept, NewestAreKept, FileIsBounded
  <1>1. DOMAIN appended = 1 .. Len(appended) /\ Len(lines) \in Nat /\ MaxEntries \in Nat
    BY MemoryAssumption DEF MemoryInv, MemoryTypeOK, Memories
  <1>2. NewestAreKept
    BY <1>1 DEF MemoryInv, FileIsSound, HasNewest, NewestAreKept
  <1>3. FileIsBounded
    BY <1>1 DEF MemoryInv, FileIsSound, FileIsBounded
  <1>4. QED
    BY <1>2, <1>3 DEF MemoryIsKept

(* storeRunSummary and trimIfNeeded (memory/local-file.ts): a memory among *)
(* the newest is in the file however the runs that end trim it, but for    *)
(* those appended while another trims and those after a torn line; and the *)
(* file is within its bound when none is in the middle of it.              *)
THEOREM MemorySafety == MemorySpec => []MemoryIsKept
  <1>1. QED
    BY MemoryInitInv, MemoryStepInv, KeptAsTold, PTL DEF MemorySpec

----------------------------------------------------------------------------
(* The limit on requests (ServerAccess)                                    *)

Access == INSTANCE ServerAccess

(* A hit that no later one of its key follows, up to the n-th.             *)
LastOfKey(hits, i, n) == i \in 1 .. n /\ \A j \in i + 1 .. n : hits[j].key # hits[i].key

(* When the window of each hit was opened.                                 *)
OpenedAt(hits, length, opened) ==
    /\ \A n \in DOMAIN hits :
          /\ opened[n] \in Nat /\ opened[n] <= hits[n].time /\ hits[n].time < opened[n] + length
    /\ \A n \in DOMAIN hits :
          (\A i \in 1 .. n - 1 : hits[i].key # hits[n].key) => opened[n] = hits[n].time
    /\ \A n \in DOMAIN hits : \A i \in 1 .. n - 1 :
          LastOfKey(hits, i, n - 1) /\ hits[i].key = hits[n].key =>
             opened[n] = IF opened[i] + length <= hits[n].time THEN hits[n].time ELSE opened[i]

Opens(hits, length, f) ==
    f = [n \in DOMAIN hits |->
          LET before == {i \in 1 .. n - 1 : hits[i].key = hits[n].key}
          IN IF before = {} THEN hits[n].time
             ELSE LET last == Access!Max(before)
                  IN IF f[last] + length <= hits[n].time THEN hits[n].time ELSE f[last]]

(* The greatest of some numbers.                                           *)
LEMMA GreatestExists ==
  ASSUME NEW n \in Nat, NEW S \in SUBSET (1 .. n), S # {}
  PROVE  \E m \in S : \A s \in S : m >= s
  <1> DEFINE T == {n - s : s \in S}
  <1>1. T \in SUBSET Nat /\ T # {}
    <2>1. \A s \in S : n - s \in Nat
      OBVIOUS
    <2>2. QED
      BY <2>1
  <1>2. PICK t \in T : \A q \in T : t <= q
    <2> HIDE DEF T
    <2>1. QED
      BY <1>1, LeastNumber
  <1>3. PICK m \in S : t = n - m
    BY <1>2
  <1>4. \A s \in S : n - s \in T
    OBVIOUS
  <1>5. \A s \in S : m >= s
    <2> SUFFICES ASSUME NEW s \in S PROVE m >= s
      OBVIOUS
    <2>1. n - m <= n - s
      BY <1>2, <1>3, <1>4
    <2>2. m \in Int /\ s \in Int /\ n \in Int
      OBVIOUS
    <2>3. QED
      BY <2>1, <2>2
  <1>6. QED
    BY <1>5

LEMMA GreatestNumber ==
  ASSUME NEW n \in Nat, NEW S \in SUBSET (1 .. n), S # {}
  PROVE  Access!Max(S) \in S /\ \A s \in S : s <= Access!Max(S)
  <1>1. PICK m \in S : \A s \in S : m >= s
    BY GreatestExists
  <1>2. Access!Max(S) \in S /\ \A s \in S : Access!Max(S) >= s
    BY <1>1 DEF Access!Max
  <1>3. \A s \in S : s \in Int
    OBVIOUS
  <1>4. QED
    BY <1>2, <1>3

LEMMA HitsTyped ==
  ASSUME NEW Keys, NEW hits \in Seq([key : Keys, time : Nat])
  PROVE  /\ DOMAIN hits = 1 .. Len(hits) /\ Len(hits) \in Nat
         /\ \A n \in DOMAIN hits : hits[n].key \in Keys /\ hits[n].time \in Nat
  <1>1. DOMAIN hits = 1 .. Len(hits) /\ Len(hits) \in Nat
    OBVIOUS
  <1>2. \A n \in 1 .. Len(hits) : hits[n] \in [key : Keys, time : Nat]
    BY ElementOfSeq
  <1>3. QED
    BY <1>1, <1>2

LEMMA OpeningsExist ==
  ASSUME NEW Keys, NEW hits \in Seq([key : Keys, time : Nat]), NEW length \in Nat \ {0}
  PROVE  \E f \in [DOMAIN hits -> Nat] : Opens(hits, length, f)
  <1> DEFINE D == DOMAIN hits
             before(n) == {i \in 1 .. n - 1 : hits[i].key = hits[n].key}
             First == {n \in D : before(n) = {}}
             value == [n \in D |-> hits[n].time]
             next == [n \in D |-> IF before(n) = {} THEN n ELSE Access!Max(before(n))]
             step == [p \in D \X Nat |-> IF p[2] + length <= hits[p[1]].time THEN hits[p[1]].time ELSE p[2]]
             size == [n \in D |-> n]
  <1>1. D = 1 .. Len(hits) /\ Len(hits) \in Nat /\ \A n \in D : hits[n].time \in Nat
    BY HitsTyped
  <1>2. ASSUME NEW n \in D, before(n) # {}
        PROVE  Access!Max(before(n)) \in D /\ Access!Max(before(n)) < n
    <2>1. n - 1 \in Nat /\ before(n) \in SUBSET (1 .. n - 1)
      BY <1>1
    <2> HIDE DEF before, D
    <2>2. Access!Max(before(n)) \in 1 .. n - 1
      BY <1>2, <2>1, GreatestNumber
    <2>3. QED
      BY <1>1, <2>1, <2>2
  <1>3. value \in [D -> Nat] /\ size \in [D -> Nat]
    BY <1>1
  <1>4. step \in [D \X Nat -> Nat]
    BY <1>1
  <1>5. next \in [D -> D] /\ First \in SUBSET D
    <2>1. next \in [D -> D]
      <3> HIDE DEF before, D
      <3>1. QED
        BY <1>2
    <2>2. QED
      BY <2>1
  <1>6. Descends(D, First, next, size)
    <2> SUFFICES ASSUME NEW n \in D, n \notin First PROVE size[next[n]] < size[n]
      BY DEF Descends
    <2>1. next[n] = Access!Max(before(n)) /\ before(n) # {}
      OBVIOUS
    <2> HIDE DEF before, next
    <2>2. QED
      BY <1>2, <2>1
  <1>7. \E f \in [D -> Nat] : Recurs(f, D, First, value, next, step)
    <2> HIDE DEF D, First, value, next, step, size
    <2>1. QED
      BY <1>3, <1>4, <1>5, <1>6, RecursionExists, Zenon
  <1>8. PICK f \in [D -> Nat] : Recurs(f, D, First, value, next, step)
    BY <1>7
  <1> DEFINE body(n) == IF before(n) = {} THEN hits[n].time
                        ELSE IF f[Access!Max(before(n))] + length <= hits[n].time THEN hits[n].time
                        ELSE f[Access!Max(before(n))]
  <1>9. ASSUME NEW n \in D PROVE f[n] = body(n)
    <2>1. f[n] = IF n \in First THEN value[n] ELSE step[<<n, f[next[n]]>>]
      BY <1>8 DEF Recurs
    <2>2. CASE before(n) = {}
      BY <2>1, <2>2
    <2>3. CASE before(n) # {}
      <3>1. next[n] = Access!Max(before(n)) /\ n \notin First /\ next[n] \in D
        BY <1>2, <2>3
      <3>2. f[n] = step[<<n, f[next[n]]>>] /\ f[next[n]] \in Nat
        BY <2>1, <3>1
      <3> HIDE DEF before, next, First, D
      <3>3. f[n] = IF f[next[n]] + length <= hits[n].time THEN hits[n].time ELSE f[next[n]]
        BY <3>2
      <3>4. QED
        BY <2>3, <3>1, <3>3
    <2>4. QED
      BY <2>2, <2>3
  <1>10. f = [n \in D |-> body(n)]
    <2>1. f = [n \in D |-> f[n]]
      OBVIOUS
    <2> HIDE DEF body, D
    <2>2. QED
      BY <1>9, <2>1
  <1>11. Opens(hits, length, f)
    BY <1>10, Zenon DEF Opens
  <1>12. QED
    BY <1>8, <1>11

(* Hits at times that do not go back.                                      *)
Timely(hits) == \A i, j \in DOMAIN hits : i <= j => hits[i].time <= hits[j].time

LEMMA OpeningsAreRight ==
  ASSUME NEW Keys, NEW hits \in Seq([key : Keys, time : Nat]), NEW length \in Nat \ {0}, Timely(hits),
         NEW f, Opens(hits, length, f)
  PROVE  OpenedAt(hits, length, f)
  <1> DEFINE D == DOMAIN hits
             before(n) == {i \in 1 .. n - 1 : hits[i].key = hits[n].key}
  <1>1. D = 1 .. Len(hits) /\ Len(hits) \in Nat /\ \A n \in D : hits[n].time \in Nat
    BY HitsTyped
  <1>2. \A n \in D :
           f[n] = IF before(n) = {} THEN hits[n].time
                  ELSE IF f[Access!Max(before(n))] + length <= hits[n].time THEN hits[n].time
                  ELSE f[Access!Max(before(n))]
    BY DEF Opens
  <1>3. ASSUME NEW n \in D, before(n) # {}
        PROVE  /\ Access!Max(before(n)) \in before(n) /\ Access!Max(before(n)) \in D
               /\ Access!Max(before(n)) < n
               /\ \A i \in before(n) : i <= Access!Max(before(n))
    <2>1. n - 1 \in Nat /\ before(n) \in SUBSET (1 .. n - 1)
      BY <1>1
    <2> HIDE DEF before, D
    <2>2. Access!Max(before(n)) \in before(n) /\ \A i \in before(n) : i <= Access!Max(before(n))
      BY <1>3, <2>1, GreatestNumber
    <2>3. Access!Max(before(n)) \in 1 .. n - 1
      BY <2>1, <2>2
    <2>4. QED
      BY <1>1, <2>1, <2>2, <2>3
  <1> DEFINE Right(n) == f[n] \in Nat /\ f[n] <= hits[n].time /\ hits[n].time < f[n] + length
             Bad == {n \in D : ~Right(n)}
  <1>4. Bad = {}
    <2> SUFFICES ASSUME Bad # {} PROVE FALSE
      OBVIOUS
    <2>1. Bad \in SUBSET Nat
      BY <1>1
    <2>2. PICK n \in Bad : \A q \in Bad : n <= q
      <3> HIDE DEF Bad
      <3>1. QED
        BY <2>1, LeastNumber
    <2>3. n \in D /\ hits[n].time \in Nat
      BY <1>1, <2>2
    <2>4. CASE before(n) = {} \/ f[n] = hits[n].time
      <3>1. f[n] = hits[n].time
        BY <1>2, <2>3, <2>4
      <3>2. QED
        BY <2>2, <2>3, <3>1
    <2>5. CASE before(n) # {} /\ f[n] # hits[n].time
      <3> DEFINE m == Access!Max(before(n))
      <3>1. m \in D /\ m < n /\ n \in Nat /\ m \in Nat
        <4>1. m \in D /\ m < n
          BY <1>3, <2>3, <2>5
        <4> HIDE DEF m
        <4>2. QED
          BY <1>1, <2>3, <4>1
      <3>2. f[n] = f[m] /\ ~(f[m] + length <= hits[n].time)
        BY <1>2, <2>3, <2>5
      <3> HIDE DEF m
      <3>3. Right(m)
        <4>1. m \notin Bad
          <5> HIDE DEF Bad
          <5>1. QED
            BY <2>2, <3>1
        <4>2. QED
          BY <3>1, <4>1
      <3>4. hits[m].time <= hits[n].time /\ hits[m].time \in Nat
        BY <1>1, <2>3, <3>1 DEF Timely
      <3>5. Right(n)
        BY <2>3, <3>2, <3>3, <3>4
      <3>6. QED
        BY <2>2, <3>5
    <2>6. QED
      BY <2>4, <2>5
  <1>5. ASSUME NEW n \in D, NEW i \in 1 .. n - 1, LastOfKey(hits, i, n - 1), hits[i].key = hits[n].key
        PROVE  f[n] = IF f[i] + length <= hits[n].time THEN hits[n].time ELSE f[i]
    <2>1. i \in before(n)
      BY <1>5
    <2>2. Access!Max(before(n)) = i
      <3> DEFINE m == Access!Max(before(n))
      <3>1. m \in before(n) /\ i <= m /\ m < n /\ m \in D
        BY <1>3, <2>1
      <3>2. m \in 1 .. n - 1 /\ hits[m].key = hits[i].key
        BY <1>5, <3>1
      <3> HIDE DEF m
      <3>3. ~(m \in i + 1 .. n - 1)
        BY <1>5, <3>2 DEF LastOfKey
      <3>4. m = i
        BY <1>1, <3>1, <3>2, <3>3
      <3>5. QED
        BY <3>4 DEF m
    <2>3. QED
      BY <1>2, <2>1, <2>2
  <1>6. ASSUME NEW n \in D, \A i \in 1 .. n - 1 : hits[i].key # hits[n].key
        PROVE  f[n] = hits[n].time
    <2>1. before(n) = {}
      BY <1>6
    <2>2. QED
      BY <1>2, <2>1
  <1>7. \A n \in D : Right(n)
    BY <1>4
  <1>8. QED
    BY <1>5, <1>6, <1>7 DEF OpenedAt

(* What the limiter keeps.                                                 *)
WindowEntries == [count : Nat, reset : Nat]
WindowStates(Keys) == [at : UNION {[S -> WindowEntries] : S \in SUBSET Keys}, sweep : Nat]

LEMMA WindowFields ==
  ASSUME NEW Keys, NEW S \in SUBSET Keys, NEW at \in [S -> WindowEntries], NEW sweep \in Nat
  PROVE  [at |-> at, sweep |-> sweep] \in WindowStates(Keys)
  BY DEF WindowStates

(* FixedWindowRateLimiter, for one hit: the key has a window, the others   *)
(* keep theirs or lose it when it is over.                                 *)
LEMMA HitSays ==
  ASSUME NEW Keys, NEW s \in WindowStates(Keys), NEW k \in Keys, NEW time \in Nat, NEW length \in Nat \ {0}
  PROVE  LET h == Access!Hit(s, k, time, length) IN
         /\ h \in WindowStates(Keys)
         /\ k \in DOMAIN h.at
         /\ \A j \in DOMAIN h.at : j # k => j \in DOMAIN s.at /\ h.at[j] = s.at[j]
         /\ \A j \in DOMAIN s.at : j \notin DOMAIN h.at => s.at[j].reset <= time
         /\ h.at[k] = IF k \in DOMAIN s.at /\ ~(s.at[k].reset <= time)
                      THEN [count |-> s.at[k].count + 1, reset |-> s.at[k].reset]
                      ELSE [count |-> 1, reset |-> time + length]
  <1> DEFINE w == Access!Swept(s, time, length)
             alive == {j \in DOMAIN s.at : ~(s.at[j].reset <= time)}
             entry == IF k \in DOMAIN w.at /\ ~(w.at[k].reset <= time) THEN w.at[k]
                      ELSE [count |-> 0, reset |-> time + length]
             at == [j \in DOMAIN w.at \cup {k} |-> IF j = k THEN [entry EXCEPT !.count = @ + 1] ELSE w.at[j]]
             h == Access!Hit(s, k, time, length)
  <1>1. /\ DOMAIN s.at \in SUBSET Keys /\ s.at \in [DOMAIN s.at -> WindowEntries] /\ s.sweep \in Nat
        /\ s = [at |-> s.at, sweep |-> s.sweep]
    BY DEF WindowStates
  <1>2. /\ w.sweep \in Nat
        /\ DOMAIN w.at \in {DOMAIN s.at, alive}
        /\ \A j \in DOMAIN w.at : w.at[j] = s.at[j]
    BY <1>1 DEF Access!Swept, Access!Expired
  <1>3. h = [w EXCEPT !.at = at]
    BY DEF Access!Hit, Access!Expired
  <1>4. w = [at |-> w.at, sweep |-> w.sweep]
    BY <1>1 DEF Access!Swept
  <1> HIDE DEF w
  <1>5. \A j \in DOMAIN s.at : s.at[j] \in WindowEntries
    BY <1>1
  <1>6. entry \in WindowEntries
    <2>1. [count |-> 0, reset |-> time + length] \in WindowEntries
      BY DEF WindowEntries
    <2>2. QED
      BY <1>1, <1>2, <1>5, <2>1
  <1>7. h = [at |-> at, sweep |-> w.sweep]
    <2> HIDE DEF at
    <2>1. QED
      BY <1>3, <1>4
  <1>8. /\ DOMAIN w.at \cup {k} \in SUBSET Keys
        /\ at \in [DOMAIN w.at \cup {k} -> WindowEntries]
    <2>1. [entry EXCEPT !.count = @ + 1] \in WindowEntries
      BY <1>6 DEF WindowEntries
    <2> HIDE DEF entry
    <2>2. \A j \in DOMAIN w.at : w.at[j] \in WindowEntries
      BY <1>2, <1>5
    <2>3. QED
      BY <1>1, <1>2, <2>1, <2>2
  <1>9. at[k] = IF k \in DOMAIN s.at /\ ~(s.at[k].reset <= time)
                THEN [count |-> s.at[k].count + 1, reset |-> s.at[k].reset]
                ELSE [count |-> 1, reset |-> time + length]
    <2>1. at[k] = [entry EXCEPT !.count = @ + 1]
      OBVIOUS
    <2>2. CASE k \in DOMAIN s.at /\ ~(s.at[k].reset <= time)
      <3>1. entry = s.at[k] /\ s.at[k] \in WindowEntries
        BY <1>2, <1>5, <2>2
      <3>2. QED
        BY <2>1, <2>2, <3>1 DEF WindowEntries
    <2>3. CASE ~(k \in DOMAIN s.at /\ ~(s.at[k].reset <= time))
      <3>1. entry = [count |-> 0, reset |-> time + length]
        BY <1>2, <2>3
      <3>2. [entry EXCEPT !.count = @ + 1] = [count |-> 1, reset |-> time + length]
        BY <3>1
      <3>3. QED
        BY <2>1, <2>3, <3>2
    <2>4. QED
      BY <2>2, <2>3
  <1>10. \A j \in DOMAIN w.at : j # k => at[j] = w.at[j]
    OBVIOUS
  <1> HIDE DEF at, h
  <1>11. h.at = at /\ DOMAIN at = DOMAIN w.at \cup {k} /\ h \in WindowStates(Keys)
    <2>1. DOMAIN at = DOMAIN w.at \cup {k}
      BY DEF at
    <2>2. QED
      BY <1>2, <1>7, <1>8, <2>1, WindowFields
  <1>12. \A j \in DOMAIN h.at : j # k => j \in DOMAIN s.at /\ h.at[j] = s.at[j]
    BY <1>2, <1>10, <1>11
  <1>13. \A j \in DOMAIN s.at : j \notin DOMAIN h.at => s.at[j].reset <= time
    BY <1>2, <1>11
  <1>14. QED
    BY <1>9, <1>11, <1>12, <1>13 DEF h

LEMMA HitTyped ==
  ASSUME NEW Keys, NEW s \in WindowStates(Keys), NEW k \in Keys, NEW time \in Nat, NEW length \in Nat \ {0}
  PROVE  Access!Hit(s, k, time, length) \in WindowStates(Keys)
  BY HitSays

LEMMA StatesExist ==
  ASSUME NEW Keys, NEW hits \in Seq([key : Keys, time : Nat]), NEW length \in Nat \ {0}
  PROVE  \E f : f = [n \in 0 .. Len(hits) |->
            IF n = 0 THEN Access!NoWindows ELSE Access!Hit(f[n - 1], hits[n].key, hits[n].time, length)]
  <1> DEFINE D == 0 .. Len(hits)
             V == WindowStates(Keys)
             value == [n \in D |-> Access!NoWindows]
             next == [n \in D |-> IF n = 0 THEN 0 ELSE n - 1]
             step == [p \in D \X V |-> IF p[1] = 0 THEN p[2]
                                      ELSE Access!Hit(p[2], hits[p[1]].key, hits[p[1]].time, length)]
             size == [n \in D |-> n]
             First == {0}
  <1>1. \A n \in 1 .. Len(hits) : hits[n].key \in Keys /\ hits[n].time \in Nat
    BY HitsTyped
  <1>2. Len(hits) \in Nat
    OBVIOUS
  <1>3. Access!NoWindows \in V
    <2>1. {} \in SUBSET Keys /\ [k \in {} |-> 0] \in [{} -> WindowEntries] /\ 0 \in Nat
      OBVIOUS
    <2>2. QED
      BY <2>1, WindowFields DEF Access!NoWindows
  <1>4. value \in [D -> V]
    BY <1>3
  <1>5. next \in [D -> D] /\ size \in [D -> Nat] /\ First \in SUBSET D
    BY <1>2
  <1>6. step \in [D \X V -> V]
    <2>1. ASSUME NEW n \in D, NEW s \in V, n # 0
          PROVE  Access!Hit(s, hits[n].key, hits[n].time, length) \in V
      <3>1. n \in 1 .. Len(hits)
        BY <1>2, <2>1
      <3>2. QED
        <4>1. hits[n].key \in Keys /\ hits[n].time \in Nat
          BY <1>1, <3>1
        <4>2. QED
          BY <4>1, HitTyped
    <2> HIDE DEF D, V
    <2>2. QED
      BY <2>1
  <1>7. Descends(D, First, next, size)
    BY <1>2 DEF Descends
  <1>8. \E f \in [D -> V] : Recurs(f, D, First, value, next, step)
    <2> HIDE DEF D, V, First, value, next, step, size
    <2>1. QED
      BY <1>4, <1>5, <1>6, <1>7, RecursionExists, Zenon
  <1>9. PICK f \in [D -> V] : Recurs(f, D, First, value, next, step)
    BY <1>8
  <1>10. ASSUME NEW n \in D
         PROVE  f[n] = IF n = 0 THEN Access!NoWindows ELSE Access!Hit(f[n - 1], hits[n].key, hits[n].time, length)
    <2>1. f[n] = IF n \in First THEN value[n] ELSE step[<<n, f[next[n]]>>]
      BY <1>9 DEF Recurs
    <2>2. CASE n = 0
      BY <2>1, <2>2
    <2>3. CASE n # 0
      <3>1. next[n] = n - 1 /\ n - 1 \in D /\ n \notin First
        BY <1>2, <2>3
      <3>2. f[n] = step[<<n, f[n - 1]>>] /\ f[n - 1] \in V
        BY <2>1, <3>1
      <3> HIDE DEF V, D
      <3>3. QED
        BY <2>3, <3>2
    <2>4. QED
      BY <2>2, <2>3
  <1>11. f = [n \in D |-> IF n = 0 THEN Access!NoWindows ELSE Access!Hit(f[n - 1], hits[n].key, hits[n].time, length)]
    <2>1. f = [n \in D |-> f[n]]
      BY <1>9
    <2> HIDE DEF D
    <2>2. QED
      BY <1>10, <2>1
  <1>12. QED
    BY <1>11

LEMMA AccessCardinality ==
  ASSUME NEW S
  PROVE  Access!Cardinality(S) = Cardinality(S)
  BY DEF Access!Cardinality, Cardinality

(* A key that was hit has a last hit, and no other one.                    *)
LEMMA LastExists ==
  ASSUME NEW hits, NEW n \in Nat, NEW j \in 1 .. n
  PROVE  \E i \in 1 .. n : LastOfKey(hits, i, n) /\ hits[i].key = hits[j].key
  <1> DEFINE S == {i \in 1 .. n : hits[i].key = hits[j].key}
             m == Access!Max(S)
  <1>1. S \in SUBSET (1 .. n) /\ S # {}
    OBVIOUS
  <1>2. m \in S /\ \A i \in S : i <= m
    <2> HIDE DEF S
    <2>1. QED
      BY <1>1, GreatestNumber
  <1> HIDE DEF m
  <1>3. \A i \in m + 1 .. n : hits[i].key # hits[m].key
    <2> TAKE i \in m + 1 .. n
    <2>1. m \in 1 .. n /\ i \in 1 .. n /\ ~(i <= m)
      BY <1>2
    <2>2. QED
      BY <1>2, <2>1
  <1>4. QED
    BY <1>2, <1>3 DEF LastOfKey

LEMMA LastIsOne ==
  ASSUME NEW hits, NEW n \in Nat, NEW i, NEW j, LastOfKey(hits, i, n), LastOfKey(hits, j, n),
         hits[i].key = hits[j].key
  PROVE  i = j
  <1>1. i \in 1 .. n /\ j \in 1 .. n
    BY DEF LastOfKey
  <1>2. ~(i \in j + 1 .. n) /\ ~(j \in i + 1 .. n)
    BY DEF LastOfKey
  <1>3. QED
    BY <1>1, <1>2

(* The hits of a key in one window.                                        *)
SameWindow(hits, opened, n) == {i \in 1 .. n : hits[i].key = hits[n].key /\ opened[i] = opened[n]}

LEMMA WindowGrows ==
  ASSUME NEW hits, NEW opened, NEW n \in Nat \ {0}, NEW i \in 1 .. n - 1, LastOfKey(hits, i, n - 1),
         hits[i].key = hits[n].key, opened[n] = opened[i]
  PROVE  Cardinality(SameWindow(hits, opened, i)) \in Nat
         /\ Cardinality(SameWindow(hits, opened, n)) = Cardinality(SameWindow(hits, opened, i)) + 1
  <1>1. SameWindow(hits, opened, n) = SameWindow(hits, opened, i) \cup {n}
    <2>1. ASSUME NEW j \in 1 .. n, j # n, hits[j].key = hits[n].key PROVE j \in 1 .. i
      <3>1. ~(j \in i + 1 .. n - 1)
        BY <2>1 DEF LastOfKey
      <3>2. QED
        BY <2>1, <3>1
    <2>2. \A j \in 1 .. i : j \in 1 .. n
      OBVIOUS
    <2>3. QED
      BY <2>1, <2>2 DEF SameWindow
  <1>2. n \notin SameWindow(hits, opened, i)
    BY DEF SameWindow
  <1>3. IsFiniteSet(SameWindow(hits, opened, i))
    <2>1. SameWindow(hits, opened, i) \in SUBSET (1 .. i) /\ IsFiniteSet(1 .. i)
      BY FS_Interval DEF SameWindow
    <2>2. QED
      BY <2>1, FS_Subset
  <1>4. QED
    BY <1>1, <1>2, <1>3, FS_AddElement, FS_CardinalityType

LEMMA WindowBegins ==
  ASSUME NEW hits, NEW opened, NEW n \in Nat \ {0},
         \A j \in 1 .. n - 1 : hits[j].key = hits[n].key => opened[j] # opened[n]
  PROVE  Cardinality(SameWindow(hits, opened, n)) = 1
  <1>1. SameWindow(hits, opened, n) = {n}
    <2>1. \A j \in 1 .. n : j # n => j \in 1 .. n - 1
      OBVIOUS
    <2>2. QED
      BY <2>1 DEF SameWindow
  <1>2. QED
    BY <1>1, FS_Singleton

(* What the windows say after the n-th hit.                                *)
WindowsSay(hits, opened, length, s, n) ==
    /\ \A k \in DOMAIN s.at : \E i \in 1 .. n :
          /\ LastOfKey(hits, i, n) /\ hits[i].key = k
          /\ s.at[k] = [count |-> Cardinality(SameWindow(hits, opened, i)), reset |-> opened[i] + length]
    /\ \A i \in 1 .. n :
          LastOfKey(hits, i, n) /\ hits[i].key \notin DOMAIN s.at => opened[i] + length <= hits[n].time

LEMMA WindowsGoOn ==
  ASSUME NEW Keys, NEW hits \in Seq([key : Keys, time : Nat]), NEW length \in Nat \ {0}, Timely(hits),
         NEW opened, OpenedAt(hits, length, opened), NEW n \in DOMAIN hits,
         NEW s \in WindowStates(Keys), WindowsSay(hits, opened, length, s, n - 1)
  PROVE  LET h == Access!Hit(s, hits[n].key, hits[n].time, length) IN
         /\ h \in WindowStates(Keys) /\ WindowsSay(hits, opened, length, h, n)
         /\ h.at[hits[n].key].count = Cardinality(SameWindow(hits, opened, n))
  <1> DEFINE k == hits[n].key
             time == hits[n].time
             h == Access!Hit(s, k, time, length)
             entry(i) == [count |-> Cardinality(SameWindow(hits, opened, i)), reset |-> opened[i] + length]
             Live == k \in DOMAIN s.at /\ ~(s.at[k].reset <= time)
  <1>1. /\ DOMAIN hits = 1 .. Len(hits) /\ Len(hits) \in Nat /\ n \in Nat \ {0}
        /\ \A i \in 1 .. n : i \in DOMAIN hits /\ hits[i].time \in Nat /\ hits[i].key \in Keys
        /\ \A i, j \in 1 .. n : i <= j => hits[i].time <= hits[j].time
    <2>1. /\ DOMAIN hits = 1 .. Len(hits) /\ Len(hits) \in Nat
          /\ \A i \in DOMAIN hits : hits[i].key \in Keys /\ hits[i].time \in Nat
      BY HitsTyped
    <2>2. n \in Nat \ {0} /\ \A i \in 1 .. n : i \in DOMAIN hits
      BY <2>1
    <2>3. QED
      BY <2>1, <2>2 DEF Timely
  <1>2. /\ \A i \in 1 .. n : opened[i] \in Nat /\ opened[i] <= hits[i].time /\ hits[i].time < opened[i] + length
        /\ (\A i \in 1 .. n - 1 : hits[i].key # k) => opened[n] = time
        /\ \A i \in 1 .. n - 1 : LastOfKey(hits, i, n - 1) /\ hits[i].key = k =>
              opened[n] = IF opened[i] + length <= time THEN time ELSE opened[i]
    BY <1>1 DEF OpenedAt
  <1>3. /\ \A j \in DOMAIN s.at : \E i \in 1 .. n - 1 :
              LastOfKey(hits, i, n - 1) /\ hits[i].key = j /\ s.at[j] = entry(i)
        /\ \A i \in 1 .. n - 1 :
              LastOfKey(hits, i, n - 1) /\ hits[i].key \notin DOMAIN s.at => opened[i] + length <= hits[n - 1].time
    BY DEF WindowsSay
  <1>4. k \in Keys /\ time \in Nat /\ n - 1 \in Nat /\ n \in 1 .. n
    BY <1>1
  <1>5. /\ h \in WindowStates(Keys) /\ k \in DOMAIN h.at
        /\ \A j \in DOMAIN h.at : j # k => j \in DOMAIN s.at /\ h.at[j] = s.at[j]
        /\ \A j \in DOMAIN s.at : j \notin DOMAIN h.at => s.at[j].reset <= time
        /\ h.at[k] = IF Live THEN [count |-> s.at[k].count + 1, reset |-> s.at[k].reset]
                     ELSE [count |-> 1, reset |-> time + length]
    <2> HIDE DEF k, time
    <2>1. QED
      BY <1>4, HitSays
  (* The last hit of a key that is forgotten, or whose window is over.     *)
  <1>6. ASSUME NEW i \in 1 .. n - 1, LastOfKey(hits, i, n - 1),
               hits[i].key \in DOMAIN s.at => s.at[hits[i].key].reset <= time
        PROVE  opened[i] + length <= time
    <2>1. CASE hits[i].key \in DOMAIN s.at
      <3>1. PICK j \in 1 .. n - 1 : LastOfKey(hits, j, n - 1) /\ hits[j].key = hits[i].key /\ s.at[hits[i].key] = entry(j)
        BY <1>3, <2>1
      <3>2. j = i
        BY <1>4, <1>6, <3>1, LastIsOne
      <3>3. entry(j).reset = opened[j] + length
        OBVIOUS
      <3>4. QED
        BY <1>6, <2>1, <3>1, <3>2, <3>3
    <2>2. CASE hits[i].key \notin DOMAIN s.at
      <3>1. opened[i] + length <= hits[n - 1].time
        BY <1>3, <1>6, <2>2
      <3>2. n - 1 \in 1 .. n /\ i \in 1 .. n /\ n - 1 <= n
        BY <1>1
      <3>3. hits[n - 1].time <= time /\ hits[n - 1].time \in Nat /\ time \in Nat
        BY <1>1, <1>4, <3>2
      <3>4. opened[i] \in Nat
        BY <1>2, <3>2
      <3> HIDE DEF time
      <3>5. QED
        BY <3>1, <3>3, <3>4
    <2>3. QED
      BY <2>1, <2>2
  <1> HIDE DEF h
  <1>7. h.at[k] = entry(n)
    <2>1. CASE Live
      <3>1. PICK i \in 1 .. n - 1 : LastOfKey(hits, i, n - 1) /\ hits[i].key = k /\ s.at[k] = entry(i)
        BY <1>3, <2>1
      <3>2. s.at[k].count = Cardinality(SameWindow(hits, opened, i)) /\ s.at[k].reset = opened[i] + length
        BY <3>1
      <3>3. opened[n] = opened[i]
        BY <1>2, <2>1, <3>1, <3>2
      <3>4. Cardinality(SameWindow(hits, opened, n)) = Cardinality(SameWindow(hits, opened, i)) + 1
        BY <1>1, <3>1, <3>3, WindowGrows
      <3>5. QED
        BY <1>5, <2>1, <3>2, <3>3, <3>4
    <2>2. CASE ~Live
      <3>1. opened[n] = time /\ \A j \in 1 .. n - 1 : hits[j].key = k => opened[j] # time
        <4>1. CASE \A j \in 1 .. n - 1 : hits[j].key # k
          BY <1>2, <4>1
        <4>2. CASE \E j \in 1 .. n - 1 : hits[j].key = k
          <5>1. PICK i \in 1 .. n - 1 : LastOfKey(hits, i, n - 1) /\ hits[i].key = k
            <6>1. PICK j \in 1 .. n - 1 : hits[j].key = k
              BY <4>2
            <6>2. \E i \in 1 .. n - 1 : LastOfKey(hits, i, n - 1) /\ hits[i].key = hits[j].key
              BY <1>4, LastExists
            <6>3. QED
              BY <6>1, <6>2
          <5>2. opened[i] + length <= time
            BY <1>6, <2>2, <5>1
          <5>3. opened[n] = time
            BY <1>2, <5>1, <5>2
          <5>4. ASSUME NEW j \in 1 .. n - 1, hits[j].key = k PROVE opened[j] # time
            <6>1. ~(j \in i + 1 .. n - 1)
              BY <5>1, <5>4 DEF LastOfKey
            <6>2. j <= i /\ i \in 1 .. n /\ j \in 1 .. n
              BY <1>1, <6>1
            <6>3. /\ hits[j].time <= hits[i].time /\ hits[j].time \in Nat /\ hits[i].time \in Nat /\ time \in Nat
                  /\ opened[j] <= hits[j].time /\ hits[i].time < opened[i] + length
                  /\ opened[j] \in Nat /\ opened[i] + length \in Nat
              <7>1. /\ hits[j].time <= hits[i].time /\ hits[j].time \in Nat /\ hits[i].time \in Nat
                BY <1>1, <6>2
              <7>2. /\ opened[j] <= hits[j].time /\ hits[i].time < opened[i] + length
                    /\ opened[j] \in Nat /\ opened[i] \in Nat
                BY <1>2, <6>2
              <7>3. opened[i] + length \in Nat
                <8>1. ASSUME NEW x \in Nat PROVE x + length \in Nat
                  OBVIOUS
                <8>2. QED
                  BY <7>2, <8>1
              <7>4. QED
                BY <1>4, <7>1, <7>2, <7>3, Zenon
            <6> DEFINE a == opened[j]  b == hits[j].time  c == hits[i].time  d == opened[i] + length
            <6>4. a <= b /\ b <= c /\ c < d /\ d <= time /\ a \in Nat /\ b \in Nat /\ c \in Nat /\ d \in Nat /\ time \in Nat
              BY <5>2, <6>3
            <6> HIDE DEF time, a, b, c, d
            <6>5. a # time
              BY <6>4
            <6>6. QED
              BY <6>5 DEF a
          <5>5. QED
            BY <5>3, <5>4
        <4>3. QED
          BY <4>1, <4>2
      <3>2. Cardinality(SameWindow(hits, opened, n)) = 1
        BY <1>1, <3>1, WindowBegins
      <3>3. QED
        BY <1>5, <2>2, <3>1, <3>2
    <2>3. QED
      BY <2>1, <2>2
  <1>8. ASSUME NEW i \in 1 .. n - 1, hits[i].key # k
        PROVE  LastOfKey(hits, i, n) <=> LastOfKey(hits, i, n - 1)
    <2>1. i \in 1 .. n /\ \A j \in i + 1 .. n : j = n \/ j \in i + 1 .. n - 1
      BY <1>1
    <2>2. \A j \in i + 1 .. n - 1 : j \in i + 1 .. n
      BY <1>1
    <2>3. QED
      BY <1>8, <2>1, <2>2 DEF LastOfKey
  <1>9. LastOfKey(hits, n, n)
    <2>1. n + 1 .. n = {}
      BY <1>1
    <2>2. QED
      BY <1>4, <2>1 DEF LastOfKey
  <1>10. ASSUME NEW j \in DOMAIN h.at
         PROVE  \E i \in 1 .. n : LastOfKey(hits, i, n) /\ hits[i].key = j /\ h.at[j] = entry(i)
    <2>1. CASE j = k
      BY <1>4, <1>7, <1>9, <2>1
    <2>2. CASE j # k
      <3>1. j \in DOMAIN s.at /\ h.at[j] = s.at[j]
        BY <1>5, <2>2
      <3>2. PICK i \in 1 .. n - 1 : LastOfKey(hits, i, n - 1) /\ hits[i].key = j /\ s.at[j] = entry(i)
        BY <1>3, <3>1
      <3>3. LastOfKey(hits, i, n) /\ i \in 1 .. n
        BY <1>1, <1>8, <2>2, <3>2
      <3>4. QED
        BY <3>1, <3>2, <3>3
    <2>3. QED
      BY <2>1, <2>2
  <1>11. ASSUME NEW i \in 1 .. n, LastOfKey(hits, i, n), hits[i].key \notin DOMAIN h.at
         PROVE  opened[i] + length <= time
    <2>1. hits[i].key # k /\ i # n
      BY <1>5, <1>11
    <2>2. i \in 1 .. n - 1
      BY <1>1, <2>1
    <2>3. LastOfKey(hits, i, n - 1)
      BY <1>8, <1>11, <2>1, <2>2
    <2>4. QED
      BY <1>5, <1>6, <1>11, <2>2, <2>3
  <1>12. WindowsSay(hits, opened, length, h, n)
    BY <1>10, <1>11 DEF WindowsSay
  <1>13. QED
    BY <1>5, <1>7, <1>12 DEF h

(* FixedWindowRateLimiter (security/rate-limit.ts): a key is let through   *)
(* limit times in each window that a hit of it opens, for any traffic of   *)
(* any keys, whenever the windows are swept.                               *)
THEOREM LimitKept ==
  ASSUME NEW Keys, NEW hits \in Seq([key : Keys, time : Nat]), Timely(hits),
         NEW limit \in Nat, NEW length \in Nat \ {0}
  PROVE  Access!LimitIsKept(hits, limit, length)
  <1> DEFINE opened == CHOOSE f : Opens(hits, length, f)
             Stands(f) == f = [n \in 0 .. Len(hits) |->
               IF n = 0 THEN Access!NoWindows ELSE Access!Hit(f[n - 1], hits[n].key, hits[n].time, length)]
             state == CHOOSE f : Stands(f)
             uses(n) == Cardinality(SameWindow(hits, opened, n))
             Right(n) == state[n] \in WindowStates(Keys) /\ WindowsSay(hits, opened, length, state[n], n)
  <1>1. OpenedAt(hits, length, opened)
    <2>1. \E f : Opens(hits, length, f)
      BY OpeningsExist
    <2>2. Opens(hits, length, opened)
      BY <2>1
    <2> HIDE DEF opened
    <2>3. QED
      BY <2>2, OpeningsAreRight
  <1>2. Stands(state)
    <2>1. \E f : Stands(f)
      BY StatesExist
    <2> HIDE DEF Stands
    <2>2. QED
      BY <2>1
  <1>3. Access!Allowed(hits, limit, length) =
          [n \in DOMAIN hits |-> state[n].at[hits[n].key].count <= limit]
    BY Zenon DEF Access!Allowed
  <1>4. Access!LimitIsKept(hits, limit, length) <=>
          \A n \in DOMAIN hits : Access!Allowed(hits, limit, length)[n] = (uses(n) <= limit)
    <2>1. Access!LimitIsKept(hits, limit, length) <=>
            \A n \in DOMAIN hits : Access!Allowed(hits, limit, length)[n] =
              (Access!Cardinality({i \in 1 .. n : hits[i].key = hits[n].key /\ opened[i] = opened[n]}) <= limit)
      BY Zenon DEF Access!LimitIsKept, Opens
    <2> HIDE DEF opened
    <2>2. QED
      BY <2>1, AccessCardinality DEF SameWindow
  <1> HIDE DEF opened, state
  <1>5. DOMAIN hits = 1 .. Len(hits) /\ Len(hits) \in Nat
    OBVIOUS
  <1>6. Right(0)
    <2>1. state[0] = Access!NoWindows
      BY <1>2, <1>5
    <2>2. DOMAIN Access!NoWindows.at = {} /\ Access!NoWindows \in WindowStates(Keys)
      <3>1. {} \in SUBSET Keys /\ [k \in {} |-> 0] \in [{} -> WindowEntries] /\ 0 \in Nat
        OBVIOUS
      <3>2. QED
        BY <3>1, WindowFields DEF Access!NoWindows
    <2>3. 1 .. 0 = {}
      OBVIOUS
    <2>4. QED
      BY <2>1, <2>2, <2>3 DEF WindowsSay
  <1>7. ASSUME NEW n \in 1 .. Len(hits), Right(n - 1)
        PROVE  Right(n) /\ state[n].at[hits[n].key].count = uses(n)
    <2>1. state[n] = Access!Hit(state[n - 1], hits[n].key, hits[n].time, length)
      BY <1>2, <1>5
    <2>2. n \in DOMAIN hits /\ state[n - 1] \in WindowStates(Keys)
          /\ WindowsSay(hits, opened, length, state[n - 1], n - 1)
      BY <1>5, <1>7
    <2> HIDE DEF Right
    <2>3. /\ state[n] \in WindowStates(Keys) /\ WindowsSay(hits, opened, length, state[n], n)
          /\ state[n].at[hits[n].key].count = Cardinality(SameWindow(hits, opened, n))
      BY <1>1, <2>1, <2>2, WindowsGoOn
    <2>4. QED
      BY <2>3 DEF Right
  <1>8. \A n \in 0 .. Len(hits) : Right(n)
    <2> DEFINE Bad == {n \in 0 .. Len(hits) : ~Right(n)}
    <2> HIDE DEF Right
    <2>1. Bad = {}
      <3> SUFFICES ASSUME Bad # {} PROVE FALSE
        OBVIOUS
      <3>1. Bad \in SUBSET Nat
        BY <1>5
      <3>2. PICK n \in Bad : \A q \in Bad : n <= q
        <4> HIDE DEF Bad
        <4>1. QED
          BY <3>1, LeastNumber
      <3>3. n \in 1 .. Len(hits) /\ n - 1 \in 0 .. Len(hits) /\ n - 1 < n
        BY <1>5, <1>6, <3>2
      <3>4. n - 1 \notin Bad
        <4> HIDE DEF Bad
        <4>1. QED
          BY <3>1, <3>2, <3>3
      <3>5. QED
        BY <1>7, <3>2, <3>3, <3>4
    <2>2. QED
      BY <2>1
  <1>9. ASSUME NEW n \in DOMAIN hits
        PROVE  Access!Allowed(hits, limit, length)[n] = (uses(n) <= limit)
    <2>1. n - 1 \in 0 .. Len(hits) /\ n \in 1 .. Len(hits)
      BY <1>5
    <2>2. state[n].at[hits[n].key].count = uses(n)
      BY <1>7, <1>8, <2>1
    <2> HIDE DEF uses
    <2>3. QED
      BY <1>3, <2>2
  <1>10. QED
    BY <1>4, <1>9

----------------------------------------------------------------------------
(* Which items of the work engine run together (WorkPlanning)               *)

Scheduling == INSTANCE WorkPlanning

ScheduledItems(Paths) == Seq([tier : Nat, deps : Nat, live : BOOLEAN, path : Paths])

LEMMA SchedulingCardinality ==
  ASSUME NEW S
  PROVE  Scheduling!Cardinality(S) = Cardinality(S)
  BY DEF Scheduling!Cardinality, Cardinality

LEMMA ItemsTyped ==
  ASSUME NEW Paths, NEW items \in ScheduledItems(Paths)
  PROVE  /\ Len(items) \in Nat /\ DOMAIN items = 1 .. Len(items)
         /\ \A i \in 1 .. Len(items) :
               /\ items[i].tier \in Nat /\ items[i].deps \in Nat /\ items[i].path \in Paths
               /\ items[i].live \in BOOLEAN
  <1>1. items \in Seq([tier : Nat, deps : Nat, live : BOOLEAN, path : Paths])
    BY DEF ScheduledItems
  <1>2. Len(items) \in Nat /\ DOMAIN items = 1 .. Len(items)
    BY <1>1
  <1>3. \A i \in 1 .. Len(items) : items[i] \in [tier : Nat, deps : Nat, live : BOOLEAN, path : Paths]
    <2> DEFINE Item == [tier : Nat, deps : Nat, live : BOOLEAN, path : Paths]
    <2>1. items \in Seq(Item)
      BY <1>1
    <2> HIDE DEF Item
    <2>2. \A i \in 1 .. Len(items) : items[i] \in Item
      BY <2>1
    <2>3. QED
      BY <2>2 DEF Item
  <1>4. QED
    BY <1>2, <1>3

(* The order of the items has each of them once, the cheaper ones first.   *)
LEMMA OrderIsRight ==
  ASSUME NEW Paths, NEW items \in ScheduledItems(Paths)
  PROVE  /\ Scheduling!Order(items) \in [1 .. Len(items) -> 1 .. Len(items)]
         /\ \A i \in 1 .. Len(items) : \E p \in 1 .. Len(items) : Scheduling!Order(items)[p] = i
         /\ \A p, q \in 1 .. Len(items) : p < q =>
               /\ Scheduling!Order(items)[p] # Scheduling!Order(items)[q]
               /\ items[Scheduling!Order(items)[p]].tier <= items[Scheduling!Order(items)[q]].tier
  <1> DEFINE N == Len(items)
             D == 1 .. N
             precedes(i, j) == Scheduling!Before(items, i, j)
             below(i) == {j \in D : precedes(j, i)}
             place(i) == Cardinality(below(i)) + 1
             places == [i \in D |-> place(i)]
             order == Scheduling!Order(items)
  <1>1. /\ N \in Nat /\ DOMAIN items = D
        /\ \A i \in D : items[i].tier \in Nat /\ items[i].deps \in Nat
    BY ItemsTyped
  <1>2. IsFiniteSet(D) /\ Cardinality(D) = N
    <2>1. IsFiniteSet(1 .. N) /\ Cardinality(1 .. N) = IF 1 > N THEN 0 ELSE N - 1 + 1
      BY <1>1, FS_Interval
    <2>2. QED
      BY <1>1, <2>1
  <1>3. \A i, j \in D : /\ precedes(i, j) \/ i = j \/ precedes(j, i)
                        /\ ~precedes(i, i)
                        /\ precedes(i, j) => items[i].tier <= items[j].tier
    BY <1>1 DEF Scheduling!Before
  <1>4. \A i, j, k \in D : precedes(i, j) /\ precedes(j, k) => precedes(i, k)
    BY <1>1 DEF Scheduling!Before
  <1>5. \A i \in D : below(i) \in SUBSET D
    OBVIOUS
  <1>6. ASSUME NEW i \in D, NEW k \in D, precedes(i, k)
        PROVE  place(i) < place(k)
    <2>1. below(i) \in SUBSET below(k) /\ i \in below(k) /\ i \notin below(i)
      <3> HIDE DEF precedes, D
      <3>1. QED
        BY <1>3, <1>4, <1>6
    <2>2. IsFiniteSet(below(k)) /\ IsFiniteSet(below(i))
      <3> HIDE DEF below, D
      <3>1. QED
        BY <1>2, <1>5, FS_Subset
    <2> HIDE DEF below
    <2>3. /\ Cardinality(below(i)) <= Cardinality(below(k))
          /\ Cardinality(below(k)) # Cardinality(below(i))
      BY <2>1, <2>2, FS_Subset
    <2>4. Cardinality(below(i)) \in Nat /\ Cardinality(below(k)) \in Nat
      BY <2>2, FS_CardinalityType
    <2>5. QED
      BY <2>3, <2>4
  <1>7. ASSUME NEW i \in D PROVE place(i) \in D
    <2>1. below(i) \in SUBSET (D \ {i})
      <3> HIDE DEF precedes, D
      <3>1. QED
        BY <1>3
    <2>2. IsFiniteSet(D \ {i}) /\ Cardinality(D \ {i}) = N - 1
      <3> HIDE DEF D
      <3>1. QED
        BY <1>2, FS_RemoveElement
    <2> HIDE DEF below
    <2>3. IsFiniteSet(below(i)) /\ Cardinality(below(i)) <= Cardinality(D \ {i})
      <3> HIDE DEF D
      <3>1. QED
        BY <2>1, <2>2, FS_Subset
    <2>4. Cardinality(below(i)) \in Nat /\ Cardinality(below(i)) <= N - 1
      BY <2>2, <2>3, FS_CardinalityType
    <2>5. QED
      BY <1>1, <2>4
  <1>t. \A i \in D : place(i) \in Nat
    <2> HIDE DEF place
    <2>1. \A i \in D : place(i) \in D
      BY <1>7
    <2>2. QED
      BY <1>1, <2>1
  <1>8. ASSUME NEW i \in D, NEW k \in D, place(i) < place(k)
        PROVE  i # k /\ precedes(i, k)
    <2>1. place(i) \in Nat /\ place(k) \in Nat
      BY <1>t
    <2> HIDE DEF place, precedes, D
    <2>2. QED
      BY <1>3, <1>6, <1>8, <2>1
  <1>9. places \in Surjection(D, D)
    <2>1. places \in [D -> D]
      BY <1>7
    <2>2. \A i, k \in D : places[i] = places[k] => i = k
      <3>1. \A i, k \in D : place(i) = place(k) => i = k
        <4>1. \A i \in D : place(i) \in Nat
          BY <1>t
        <4> HIDE DEF place, precedes, D
        <4>2. QED
          BY <1>3, <1>6, <4>1
      <3> HIDE DEF place, D
      <3>2. QED
        BY <3>1
    <2> HIDE DEF places, D
    <2>3. places \in Injection(D, D)
      BY <2>1, <2>2 DEF Injection, IsInjective
    <2>4. QED
      BY <1>2, <2>3, FS_Injection
  <1>10. \A p \in D : \E i \in D : place(i) = p
    <2>1. \A p \in D : \E i \in D : places[i] = p
      <3> HIDE DEF places, D
      <3>1. QED
        BY <1>9 DEF Surjection
    <2> HIDE DEF place, D
    <2>2. QED
      BY <2>1
  <1>11. order = [p \in D |-> CHOOSE i \in D : place(i) = p]
    <2>1. \A S : Scheduling!Cardinality(S) = Cardinality(S)
      BY SchedulingCardinality
    <2>2. DOMAIN items = D
      BY <1>1
    <2>3. order = [p \in DOMAIN items |-> CHOOSE i \in DOMAIN items :
                     Scheduling!Cardinality({j \in DOMAIN items : Scheduling!Before(items, j, i)}) + 1 = p]
      BY Zenon DEF Scheduling!Order
    <2> HIDE DEF D
    <2>4. QED
      BY <2>1, <2>2, <2>3
  <1>12. \A p \in D : order[p] \in D /\ place(order[p]) = p
    <2> HIDE DEF place, D, order
    <2>1. QED
      BY <1>10, <1>11
  <1>13. \A i \in D : order[place(i)] = i
    <2>1. ASSUME NEW i \in D PROVE order[place(i)] = i
      <3>1. place(i) \in D
        BY <1>7
      <3>2. order[place(i)] \in D /\ place(order[place(i)]) = place(i)
        <4> HIDE DEF place, D, order
        <4>1. QED
          BY <1>12, <3>1
      <3>3. \A k \in D : place(k) \in Nat
        BY <1>t
      <3> HIDE DEF place, D, order, precedes
      <3>4. QED
        BY <1>3, <1>6, <3>2, <3>3
    <2> HIDE DEF place, D, order
    <2>2. QED
      BY <2>1
  <1>14. order \in [D -> D]
    <2> HIDE DEF place, D
    <2>1. order = [p \in D |-> order[p]]
      BY <1>11
    <2> HIDE DEF order
    <2>2. QED
      BY <1>12, <2>1
  <1>15. \A i \in D : \E p \in D : order[p] = i
    <2>1. \A i \in D : place(i) \in D
      BY <1>7
    <2> HIDE DEF place, D, order
    <2>2. QED
      BY <1>13, <2>1
  <1>16. ASSUME NEW p \in D, NEW q \in D, p < q
         PROVE  order[p] # order[q] /\ items[order[p]].tier <= items[order[q]].tier
    <2> HIDE DEF place, D, order, precedes
    <2>1. order[p] \in D /\ order[q] \in D /\ place(order[p]) < place(order[q])
      BY <1>12, <1>16
    <2>2. order[p] # order[q] /\ precedes(order[p], order[q])
      BY <1>8, <2>1
    <2>3. QED
      BY <1>3, <2>1, <2>2
  <1> HIDE DEF order
  <1>17. QED
    BY <1>14, <1>15, <1>16 DEF order

(* What the scheduler has chosen, and its look at one more item.           *)
NoneChosen == [ready |-> {}, taken |-> {}]
Chooses(items, cap, chosen, i) ==
    IF Scheduling!MayRun(items[i], chosen.taken, cap)
    THEN [ready |-> chosen.ready \cup {i}, taken |-> chosen.taken \cup {items[i].path}]
    ELSE chosen

(* A walk over sets of places, the greatest of which comes last.           *)
Walks(f, items, cap, order) ==
    f = [s \in SUBSET (DOMAIN order) |->
          IF s = {} THEN NoneChosen
          ELSE Chooses(items, cap, f[s \ {Scheduling!Max(s)}], order[Scheduling!Max(s)])]

LEMMA GreatestPlace ==
  ASSUME NEW n \in Nat, NEW S \in SUBSET (1 .. n), S # {}
  PROVE  Scheduling!Max(S) \in S /\ \A s \in S : s <= Scheduling!Max(S)
  <1>1. PICK m \in S : \A s \in S : m >= s
    BY GreatestExists
  <1>2. Scheduling!Max(S) \in S /\ \A s \in S : Scheduling!Max(S) >= s
    BY <1>1 DEF Scheduling!Max
  <1>3. \A s \in S : s \in Int
    OBVIOUS
  <1>4. QED
    BY <1>2, <1>3

LEMMA WalkExists ==
  ASSUME NEW Paths, NEW items \in ScheduledItems(Paths), NEW cap \in Nat, NEW N \in Nat,
         NEW order \in [1 .. N -> 1 .. Len(items)]
  PROVE  \E f : Walks(f, items, cap, order)
  <1> DEFINE I == 1 .. Len(items)
             D == SUBSET (1 .. N)
             V == [ready : SUBSET I, taken : SUBSET Paths]
             last(s) == Scheduling!Max(s)
             First == {{}}
             value == [s \in D |-> NoneChosen]
             next == [s \in D |-> IF s = {} THEN {} ELSE s \ {last(s)}]
             step == [p \in D \X V |-> IF p[1] = {} THEN p[2] ELSE Chooses(items, cap, p[2], order[last(p[1])])]
             size == [s \in D |-> Cardinality(s)]
  <1>1. \A i \in I : items[i].path \in Paths
    BY ItemsTyped
  <1>2. NoneChosen \in V
    BY DEF NoneChosen
  <1>3. ASSUME NEW s \in D, s # {} PROVE last(s) \in s /\ last(s) \in 1 .. N /\ order[last(s)] \in I
    <2>1. last(s) \in s
      BY <1>3, GreatestPlace
    <2> HIDE DEF last
    <2>2. QED
      BY <2>1
  <1>4. \A s \in D : IsFiniteSet(s) /\ Cardinality(s) \in Nat
    <2>1. IsFiniteSet(1 .. N)
      BY FS_Interval
    <2>2. QED
      BY <2>1, FS_Subset, FS_CardinalityType
  <1>5. value \in [D -> V] /\ size \in [D -> Nat] /\ First \in SUBSET D
    <2>1. {} \in D
      OBVIOUS
    <2> HIDE DEF D, V
    <2>2. QED
      BY <1>2, <1>4, <2>1
  <1>6. next \in [D -> D]
    <2>1. \A s \in D : (IF s = {} THEN {} ELSE s \ {last(s)}) \in D
      <3> HIDE DEF last
      <3>1. QED
        OBVIOUS
    <2> HIDE DEF D, last
    <2>2. QED
      BY <2>1
  <1>7. step \in [D \X V -> V]
    <2>1. ASSUME NEW s \in D, NEW chosen \in V, s # {}
          PROVE  Chooses(items, cap, chosen, order[last(s)]) \in V
      <3>1. order[last(s)] \in I
        BY <1>3, <2>1
      <3> HIDE DEF last, I
      <3>2. items[order[last(s)]].path \in Paths
        BY <1>1, <3>1
      <3>3. QED
        BY <3>1, <3>2 DEF Chooses
    <2> HIDE DEF D, V, last
    <2>2. QED
      BY <2>1
  <1>8. Descends(D, First, next, size)
    <2> SUFFICES ASSUME NEW s \in D, s # {} PROVE size[next[s]] < size[s]
      BY DEF Descends
    <2>1. last(s) \in s /\ s \ {last(s)} \in D
      BY <1>3
    <2>2. next[s] = s \ {last(s)}
      OBVIOUS
    <2> HIDE DEF D, last, next
    <2>3. size[s] = Cardinality(s) /\ size[next[s]] = Cardinality(s \ {last(s)}) /\ Cardinality(s) \in Nat
      BY <1>4, <2>1, <2>2
    <2>4. Cardinality(s \ {last(s)}) = Cardinality(s) - 1
      BY <1>4, <2>1, FS_RemoveElement
    <2> HIDE DEF size
    <2>5. QED
      BY <2>3, <2>4
  <1>9. PICK f \in [D -> V] : Recurs(f, D, First, value, next, step)
    <2> HIDE DEF D, V, First, value, next, step, size
    <2>1. QED
      BY <1>5, <1>6, <1>7, <1>8, RecursionExists, Zenon
  <1>10. ASSUME NEW s \in D
         PROVE  f[s] = IF s = {} THEN NoneChosen ELSE Chooses(items, cap, f[s \ {last(s)}], order[last(s)])
    <2>1. f[s] = IF s \in First THEN value[s] ELSE step[<<s, f[next[s]]>>]
      BY <1>9 DEF Recurs
    <2>2. CASE s = {}
      BY <2>1, <2>2
    <2>3. CASE s # {}
      <3>1. next[s] = s \ {last(s)} /\ s \notin First /\ next[s] \in D
        BY <1>6, <2>3
      <3>2. f[s] = step[<<s, f[next[s]]>>] /\ f[next[s]] \in V
        BY <1>9, <2>1, <3>1
      <3> HIDE DEF next, First, D, V, last
      <3>3. QED
        BY <2>3, <3>1, <3>2
    <2>4. QED
      BY <2>2, <2>3
  <1>11. f = [s \in D |-> IF s = {} THEN NoneChosen
                          ELSE Chooses(items, cap, f[s \ {last(s)}], order[last(s)])]
    <2>1. f = [s \in D |-> f[s]]
      BY <1>9
    <2> HIDE DEF D, last
    <2>2. QED
      BY <1>10, <2>1
  <1>12. DOMAIN order = 1 .. N
    OBVIOUS
  <1>13. Walks(f, items, cap, order)
    BY <1>11, <1>12, Zenon DEF Walks
  <1>14. QED
    BY <1>13

(* The items are looked at one after the other, in their order.            *)
LEMMA ItemsAreLookedAt ==
  ASSUME NEW Paths, NEW items \in ScheduledItems(Paths), NEW cap \in Nat
  PROVE  \E g : /\ g[0] = NoneChosen
                /\ \A n \in 1 .. Len(items) :
                      g[n] = Chooses(items, cap, g[n - 1], Scheduling!Order(items)[n])
                /\ Scheduling!ReadyItems(items, cap) = g[Len(items)].ready
  <1> DEFINE N == Len(items)
             order == Scheduling!Order(items)
             walk == CHOOSE f : Walks(f, items, cap, order)
             g == [n \in 0 .. N |-> walk[1 .. n]]
  <1>1. N \in Nat /\ order \in [1 .. N -> 1 .. N]
    BY ItemsTyped, OrderIsRight
  <1>2. Walks(walk, items, cap, order)
    <2> HIDE DEF order
    <2>1. \E f : Walks(f, items, cap, order)
      BY <1>1, WalkExists
    <2>2. QED
      BY <2>1
  <1>3. Scheduling!ReadyItems(items, cap) = walk[DOMAIN order].ready
    BY Zenon DEF Scheduling!ReadyItems, Scheduling!FoldLeft, Scheduling!MapThenFoldSet, Walks, Chooses, NoneChosen
  <1> HIDE DEF order, walk
  <1>4. DOMAIN order = 1 .. N
    BY <1>1
  <1>5. \A s \in SUBSET (1 .. N) : walk[s] = IF s = {} THEN NoneChosen
          ELSE Chooses(items, cap, walk[s \ {Scheduling!Max(s)}], order[Scheduling!Max(s)])
    BY <1>2, <1>4, Zenon DEF Walks
  <1>6. g[0] = NoneChosen
    <2>1. 0 \in 0 .. N /\ 1 .. 0 = {} /\ {} \in SUBSET (1 .. N)
      BY <1>1
    <2>2. walk[{}] = NoneChosen
      BY <1>5, <2>1
    <2>3. QED
      BY <2>1, <2>2
  <1>7. ASSUME NEW n \in 1 .. N PROVE g[n] = Chooses(items, cap, g[n - 1], order[n])
    <2>1. 1 .. n # {} /\ 1 .. n \in SUBSET (1 .. N) /\ n \in 0 .. N /\ n - 1 \in 0 .. N /\ n \in 1 .. n /\ n \in Nat
      <3>1. N \in Nat /\ n \in Nat /\ 1 <= n /\ n <= N
        BY <1>1
      <3> HIDE DEF N
      <3>2. 1 .. n \subseteq 1 .. N
        BY <3>1
      <3>3. n \in 1 .. n /\ n \in 0 .. N /\ n - 1 \in 0 .. N
        BY <3>1
      <3>4. QED
        BY <3>1, <3>2, <3>3
    <2>2. Scheduling!Max(1 .. n) = n
      <3>1. Scheduling!Max(1 .. n) \in 1 .. n /\ \A s \in 1 .. n : s <= Scheduling!Max(1 .. n)
        BY <2>1, GreatestPlace
      <3>2. n <= Scheduling!Max(1 .. n)
        BY <2>1, <3>1
      <3>3. \A m \in 1 .. n : n <= m => m = n
        BY <2>1
      <3>4. QED
        BY <3>1, <3>2, <3>3
    <2>3. (1 .. n) \ {n} = 1 .. n - 1
      BY <2>1
    <2>4. walk[1 .. n] = Chooses(items, cap, walk[(1 .. n) \ {n}], order[n])
      BY <1>5, <2>1, <2>2
    <2>5. QED
      BY <2>1, <2>3, <2>4
  <1>8. g[N] = walk[DOMAIN order]
    BY <1>1, <1>4
  <1> HIDE DEF g
  <1>9. QED
    BY <1>3, <1>6, <1>7, <1>8 DEF order

(* What the scheduler has chosen when it has looked at the first n items.  *)
ChosenOfFirst(items, cap, order, a, n) ==
    /\ a.ready \subseteq {order[p] : p \in 1 .. n}
    /\ a.taken = {items[i].path : i \in a.ready}
    /\ IsFiniteSet(a.ready) /\ IsFiniteSet(a.taken)
    /\ Cardinality(a.taken) = Cardinality(a.ready) /\ Cardinality(a.ready) <= cap
    /\ \A i, j \in a.ready : i # j => items[i].path # items[j].path
    /\ \A p \in 1 .. n :
          (order[p] \notin a.ready /\ items[order[p]].live) =>
             \/ \E j \in a.ready : /\ items[j].path = items[order[p]].path
                                   /\ items[j].tier <= items[order[p]].tier
             \/ /\ Cardinality(a.ready) = cap
                /\ \A j \in a.ready : items[j].tier <= items[order[p]].tier

LEMMA ChoosesNext ==
  ASSUME NEW items, NEW cap \in Nat, NEW N \in Nat, NEW order, NEW n \in 1 .. N, NEW a,
         \A p, q \in 1 .. N : p < q => order[p] # order[q] /\ items[order[p]].tier <= items[order[q]].tier,
         ChosenOfFirst(items, cap, order, a, n - 1)
  PROVE  ChosenOfFirst(items, cap, order, Chooses(items, cap, a, order[n]), n)
  <1> DEFINE i == order[n]
             b == Chooses(items, cap, a, i)
             may == Scheduling!MayRun(items[i], a.taken, cap)
             Excused(c, p) ==
               \/ \E j \in c.ready : items[j].path = items[order[p]].path /\ items[j].tier <= items[order[p]].tier
               \/ /\ Cardinality(c.ready) = cap
                  /\ \A j \in c.ready : items[j].tier <= items[order[p]].tier
  <1>1. /\ a.ready \subseteq {order[p] : p \in 1 .. n - 1}
        /\ a.taken = {items[j].path : j \in a.ready}
        /\ IsFiniteSet(a.ready) /\ IsFiniteSet(a.taken)
        /\ Cardinality(a.taken) = Cardinality(a.ready) /\ Cardinality(a.ready) <= cap
        /\ \A j, k \in a.ready : j # k => items[j].path # items[k].path
        /\ \A p \in 1 .. n - 1 : (order[p] \notin a.ready /\ items[order[p]].live) => Excused(a, p)
    BY DEF ChosenOfFirst
  <1>2. /\ n \in Nat /\ 1 .. n - 1 \subseteq 1 .. n /\ n \in 1 .. n
        /\ \A p \in 1 .. n : p = n \/ p \in 1 .. n - 1
        /\ \A p \in 1 .. n - 1 : p \in 1 .. N /\ p < n
    OBVIOUS
  <1>3. \A p \in 1 .. n - 1 : order[p] # i /\ items[order[p]].tier <= items[i].tier
    BY <1>2
  <1>4. i \notin a.ready /\ \A j \in a.ready : items[j].tier <= items[i].tier
    <2> HIDE DEF i
    <2>1. QED
      BY <1>1, <1>3
  <1>5. may <=> /\ items[i].path \notin a.taken /\ items[i].live /\ Cardinality(a.taken) < cap
    BY SchedulingCardinality DEF Scheduling!MayRun
  <1>6. Cardinality(a.ready) \in Nat
    BY <1>1, FS_CardinalityType
  <1>7. CASE may
    <2>1. b.ready = a.ready \cup {i} /\ b.taken = a.taken \cup {items[i].path}
      BY <1>7 DEF Chooses
    <2>2. /\ IsFiniteSet(b.ready) /\ Cardinality(b.ready) = Cardinality(a.ready) + 1
          /\ IsFiniteSet(b.taken) /\ Cardinality(b.taken) = Cardinality(a.taken) + 1
      <3>1. i \notin a.ready /\ items[i].path \notin a.taken
        BY <1>4, <1>5, <1>7
      <3> HIDE DEF i, b, may
      <3>2. IsFiniteSet(a.ready \cup {i}) /\ Cardinality(a.ready \cup {i}) = Cardinality(a.ready) + 1
        BY <1>1, <3>1, FS_AddElement
      <3>3. /\ IsFiniteSet(a.taken \cup {items[i].path})
            /\ Cardinality(a.taken \cup {items[i].path}) = Cardinality(a.taken) + 1
        BY <1>1, <3>1, FS_AddElement
      <3>4. QED
        BY <2>1, <3>2, <3>3
    <2>3. Cardinality(b.taken) = Cardinality(b.ready) /\ Cardinality(b.ready) <= cap
          /\ Cardinality(a.ready) # cap
      <3> HIDE DEF i, b, may
      <3>1. QED
        BY <1>1, <1>5, <1>6, <1>7, <2>2
    <2>4. b.ready \subseteq {order[p] : p \in 1 .. n}
      <3> HIDE DEF b, may
      <3>1. QED
        BY <1>1, <1>2, <2>1
    <2>5. b.taken = {items[j].path : j \in b.ready}
      <3> HIDE DEF i, b, may
      <3>1. QED
        BY <1>1, <2>1
    <2>6. \A j, k \in b.ready : j # k => items[j].path # items[k].path
      <3> HIDE DEF i, b, may
      <3>1. QED
        BY <1>1, <1>5, <1>7, <2>1
    <2>7. ASSUME NEW p \in 1 .. n, order[p] \notin b.ready, items[order[p]].live PROVE Excused(b, p)
      <3>1. p \in 1 .. n - 1 /\ order[p] \notin a.ready
        <4> HIDE DEF b, may
        <4>1. QED
          BY <1>2, <2>1, <2>7
      <3>2. \E j \in a.ready : items[j].path = items[order[p]].path /\ items[j].tier <= items[order[p]].tier
        BY <1>1, <2>3, <2>7, <3>1
      <3> HIDE DEF i, b, may
      <3>3. QED
        BY <2>1, <3>2
    <2> HIDE DEF b
    <2>8. QED
      BY <2>2, <2>3, <2>4, <2>5, <2>6, <2>7 DEF ChosenOfFirst, b
  <1>8. CASE ~may
    <2>1. b = a
      BY <1>8 DEF Chooses
    <2>2. a.ready \subseteq {order[p] : p \in 1 .. n}
      BY <1>1, <1>2
    <2>3. ASSUME NEW p \in 1 .. n, order[p] \notin a.ready, items[order[p]].live PROVE Excused(a, p)
      <3>1. CASE p \in 1 .. n - 1
        BY <1>1, <2>3, <3>1
      <3>2. CASE p = n
        <4>1. items[i].path \in a.taken \/ Cardinality(a.taken) >= cap
          <5>1. ~(Cardinality(a.taken) < cap) => Cardinality(a.taken) >= cap
            BY <1>1, <1>6
          <5> HIDE DEF may
          <5>2. QED
            BY <1>5, <1>8, <2>3, <3>2, <5>1
        <4>2. CASE items[i].path \in a.taken
          <5> HIDE DEF may, b
          <5>1. PICK j \in a.ready : items[j].path = items[i].path
            BY <1>1, <4>2
          <5>2. QED
            BY <1>4, <3>2, <5>1
        <4>3. CASE Cardinality(a.taken) >= cap
          <5>1. Cardinality(a.ready) = cap
            BY <1>1, <1>6, <4>3
          <5>2. QED
            BY <1>4, <3>2, <5>1
        <4>4. QED
          BY <4>1, <4>2, <4>3
      <3>3. QED
        BY <1>2, <3>1, <3>2
    <2>4. ChosenOfFirst(items, cap, order, a, n)
      BY <1>1, <2>2, <2>3 DEF ChosenOfFirst
    <2> HIDE DEF b, ChosenOfFirst
    <2>5. QED
      BY <2>1, <2>4 DEF b
  <1>9. QED
    BY <1>7, <1>8

(* scheduleWorkItems (work/scheduler.ts): items that run together have     *)
(* branches or worktrees of their own and fit the limit, and a live item   *)
(* waits only for one on its path that is no dearer, or for a limit that   *)
(* such items have reached; for any items.                                 *)
THEOREM ItemsTakeTurns ==
  ASSUME NEW Paths, NEW items \in ScheduledItems(Paths), NEW cap \in Nat
  PROVE  Scheduling!ScheduleIsFair(items, cap)
  <1> DEFINE N == Len(items)
             order == Scheduling!Order(items)
  <1>1. /\ N \in Nat /\ DOMAIN items = 1 .. N
        /\ \A i \in 1 .. N : \E p \in 1 .. N : order[p] = i
        /\ \A p, q \in 1 .. N : p < q => order[p] # order[q] /\ items[order[p]].tier <= items[order[q]].tier
    BY ItemsTyped, OrderIsRight
  <1>2. PICK g : /\ g[0] = NoneChosen
                 /\ \A n \in 1 .. N : g[n] = Chooses(items, cap, g[n - 1], order[n])
                 /\ Scheduling!ReadyItems(items, cap) = g[N].ready
    BY ItemsAreLookedAt
  <1> HIDE DEF order
  <1> DEFINE Right(n) == ChosenOfFirst(items, cap, order, g[n], n)
  <1>3. Right(0)
    <2>1. NoneChosen.ready = {} /\ NoneChosen.taken = {} /\ 1 .. 0 = {}
      BY DEF NoneChosen
    <2>2. IsFiniteSet({}) /\ Cardinality({}) = 0
      BY FS_EmptySet
    <2>3. QED
      BY <1>2, <2>1, <2>2 DEF ChosenOfFirst
  <1>4. ASSUME NEW n \in 1 .. N, Right(n - 1) PROVE Right(n)
    <2>1. ChosenOfFirst(items, cap, order, Chooses(items, cap, g[n - 1], order[n]), n)
      <3> HIDE DEF N
      <3>1. QED
        BY <1>1, <1>4, ChoosesNext
    <2>2. QED
      BY <1>2, <2>1
  <1> HIDE DEF Right
  <1>5. Right(N)
    <2> DEFINE Wrong == {n \in 0 .. N : ~Right(n)}
    <2> SUFFICES ASSUME Wrong # {} PROVE FALSE
      BY <1>1
    <2>1. Wrong \in SUBSET Nat
      BY <1>1
    <2>2. PICK n \in Wrong : \A m \in Wrong : n <= m
      <3> HIDE DEF Wrong
      <3>1. QED
        BY <2>1, LeastNumber
    <2>3. n \in 1 .. N
      <3>1. n \in 0 .. N /\ n # 0
        BY <1>3, <2>2
      <3> HIDE DEF N
      <3>2. QED
        BY <1>1, <3>1
    <2>4. n - 1 \in 0 .. N /\ n - 1 \notin Wrong
      <3> HIDE DEF N
      <3>1. n \in Int /\ n - 1 \in 0 .. N /\ ~(n <= n - 1)
        BY <1>1, <2>3
      <3> HIDE DEF Wrong
      <3>2. QED
        BY <2>2, <3>1
    <2>5. QED
      BY <1>4, <2>2, <2>3, <2>4
  <1>6. ASSUME NEW i \in 1 .. N, i \notin g[N].ready, items[i].live
        PROVE  \/ \E j \in g[N].ready : items[j].path = items[i].path /\ items[j].tier <= items[i].tier
               \/ /\ Cardinality(g[N].ready) = cap
                  /\ \A j \in g[N].ready : items[j].tier <= items[i].tier
    <2>1. PICK p \in 1 .. N : order[p] = i
      BY <1>1
    <2>2. QED
      BY <1>5, <1>6, <2>1 DEF Right, ChosenOfFirst
  <1>7. /\ Cardinality(g[N].ready) <= cap
        /\ \A i, j \in g[N].ready : i # j => items[i].path # items[j].path
    BY <1>5 DEF Right, ChosenOfFirst
  <1>8. QED
    BY <1>1, <1>2, <1>6, <1>7, SchedulingCardinality DEF Scheduling!ScheduleIsFair
=============================================================================
