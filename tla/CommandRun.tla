----------------------------- MODULE CommandRun -----------------------------
(* A command that is run with retries (utils/api.ts).  Every attempt       *)
(* spawns a process group of its own: the command, and a helper that       *)
(* shares its output streams, so that node's "close" event comes only when *)
(* both have ended.  A timeout and the caller's abort signal stop the      *)
(* group by SIGTERM, which a process may ignore, and by SIGKILL once the   *)
(* grace period has passed; the call itself ends at once.                  *)
EXTENDS Integers, FiniteSets

CONSTANT Retries   \* attempts after the first

ASSUME CommandAssumption == Retries \in Nat

Attempts == 0 .. Retries

VARIABLES
    call,      \* where runCommandWithRetry stands: [at, attempt]
    group,     \* attempt -> its processes that have not ended
    exit,      \* attempt -> the exit code of the command: "none", "ok" or "bad"
    doomed,    \* attempts with a kill timer
    aborted    \* the caller's signal

commandVars == <<call, group, exit, doomed, aborted>>

Processes == {"command", "helper"}
Endings == {"resolved", "failed", "aborted"}

CommandTypeOK ==
    /\ call \in [at : {"ready", "running", "waiting"} \cup Endings, attempt : Attempts]
    /\ group \in [Attempts -> SUBSET Processes]
    /\ exit \in [Attempts -> {"none", "ok", "bad"}]
    /\ doomed \subseteq Attempts
    /\ aborted \in BOOLEAN

CommandInit ==
    /\ call = [at |-> "ready", attempt |-> 0]
    /\ group = [a \in Attempts |-> {}]
    /\ exit = [a \in Attempts |-> "none"]
    /\ doomed = {}
    /\ aborted = FALSE

(* Mutant: a command that took too long is taken for an overloaded one.    *)
RetryableAndTimeout(error) == error \in {"overloaded", "timeout"}

(* isRetryableCliError: the words of a provider that is overloaded.  The   *)
(* message of a timeout says "timed out", which is none of them.           *)
Retryable(error) == error = "overloaded"

(* Mutant: one attempt more than there are retries.                        *)
CaughtLate(error, abort) ==
    IF call.attempt > Retries \/ ~Retryable(error) \/ abort
    THEN [call EXCEPT !.at = IF abort THEN "aborted" ELSE "failed"]
    ELSE [call EXCEPT !.at = "waiting"]

(* The catch of the retry loop, and what follows the loop.                 *)
Caught(error, abort) ==
    IF call.attempt = Retries \/ ~Retryable(error) \/ abort
    THEN [call EXCEPT !.at = IF abort THEN "aborted" ELSE "failed"]
    ELSE [call EXCEPT !.at = "waiting"]

(* Mutant: the signal is looked at before the first attempt only.          *)
StartDeaf ==
    /\ call.at = "ready"
    /\ IF aborted /\ call.attempt = 0
       THEN call' = [call EXCEPT !.at = "aborted"] /\ UNCHANGED group
       ELSE /\ call' = [call EXCEPT !.at = "running"]
            /\ group' = [group EXCEPT ![call.attempt] = Processes]
    /\ UNCHANGED <<exit, doomed, aborted>>

(* An attempt begins: both the loop and runCommand look at the signal.     *)
Start ==
    /\ call.at = "ready"
    /\ IF aborted
       THEN call' = [call EXCEPT !.at = "aborted"] /\ UNCHANGED group
       ELSE /\ call' = [call EXCEPT !.at = "running"]
            /\ group' = [group EXCEPT ![call.attempt] = Processes]
    /\ UNCHANGED <<exit, doomed, aborted>>

(* The command policy refuses the line, or spawn fails: "error".           *)
StartFails ==
    /\ call.at = "ready" /\ ~aborted
    /\ call' = Caught("policy or no such file", aborted)
    /\ UNCHANGED <<group, exit, doomed, aborted>>

(* A process ends, by itself or by SIGTERM.  "close" is the last one's:    *)
(* it takes the timers away and, when the call still waits for this        *)
(* attempt, settles it.                                                    *)
ProcessEnds(a, p) ==
    /\ p \in group[a]
    /\ group' = [group EXCEPT ![a] = @ \ {p}]
    /\ \E code \in {"ok", "bad"} :
           exit' = IF p = "command" THEN [exit EXCEPT ![a] = code] ELSE exit
    /\ IF group'[a] = {}
       THEN /\ doomed' = doomed \ {a}
            /\ IF call.at = "running" /\ call.attempt = a
               THEN IF exit'[a] = "ok" THEN call' = [call EXCEPT !.at = "resolved"]
                    ELSE \E error \in {"overloaded", "other"} : call' = Caught(error, aborted)
               ELSE UNCHANGED call
       ELSE UNCHANGED <<doomed, call>>
    /\ UNCHANGED aborted

(* Mutant: rejectOnce clears the kill timer with the others.               *)
StopUnarmed(error, abort) ==
    /\ call' = Caught(error, abort)
    /\ UNCHANGED doomed

(* cleanup: SIGTERM to the group (which no process has to follow), a kill  *)
(* timer, and the call is over.                                            *)
Stop(error, abort) ==
    /\ call' = Caught(error, abort)
    /\ doomed' = doomed \cup {call.attempt}

TimesOut ==
    /\ call.at = "running"
    /\ Stop("timeout", aborted)
    /\ UNCHANGED <<group, exit, aborted>>

(* The caller aborts; a call that runs no command hears of it later.       *)
Abort ==
    /\ ~aborted /\ call.at \notin Endings
    /\ aborted' = TRUE
    /\ IF call.at = "running" THEN Stop("abort", TRUE) ELSE UNCHANGED <<call, doomed>>
    /\ UNCHANGED <<group, exit>>

(* The grace period is over: SIGKILL to the group, unless the command      *)
(* itself has an exit code.                                                *)
GraceEnds(a) ==
    /\ a \in doomed
    /\ doomed' = doomed \ {a}
    /\ group' = IF exit[a] = "none" THEN [group EXCEPT ![a] = {}] ELSE group
    /\ exit' = IF exit[a] = "none" THEN [exit EXCEPT ![a] = "bad"] ELSE exit
    /\ UNCHANGED <<call, aborted>>

(* The wait before the next attempt is over.                               *)
Wake ==
    /\ call.at = "waiting"
    /\ call' = [at |-> "ready", attempt |-> call.attempt + 1]
    /\ UNCHANGED <<group, exit, doomed, aborted>>

CommandNext ==
    \/ Start
    \/ StartFails
    \/ \E a \in Attempts, p \in Processes : ProcessEnds(a, p)
    \/ TimesOut
    \/ Abort
    \/ \E a \in Attempts : GraceEnds(a)
    \/ Wake

CommandSpec == CommandInit /\ [][CommandNext]_commandVars

----------------------------------------------------------------------------
(* Two attempts never run side by side in one directory: an attempt is     *)
(* followed by another only when all its processes have ended.  The call   *)
(* goes on at once when it stops a command, which may live through the     *)
(* grace period, so this rests on what runCommandWithRetry takes for worth *)
(* a retry.                                                                *)
OneAttemptRuns == \A a, b \in Attempts : group[a] # {} /\ group[b] # {} => a = b

(* A call that is over leaves no command behind that nothing will kill     *)
(* (cleanup, rejectOnce with preserveForceKill).                           *)
CommandIsReaped ==
    \A a \in Attempts :
        "command" \in group[a] /\ ~(call.at = "running" /\ call.attempt = a) => a \in doomed

(* After the abort no process is spawned (runCommandWithRetry): a signal   *)
(* that comes while the call waits to try again is found when it does.     *)
AbortSpawnsNothing ==
    aborted => \A a \in Attempts : group'[a] \subseteq group[a]

(* What the caller of runCommandWithRetry can rely on.                     *)
CommandIsContained == CommandTypeOK /\ OneAttemptRuns /\ CommandIsReaped
=============================================================================
