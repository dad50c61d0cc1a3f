--------------------------- MODULE ProviderFailover ---------------------------
(* The provider of one role (providers/registry.ts): calls are answered by *)
(* the current provider, and one that is refused for want of quota or      *)
(* capacity moves the role to another provider and asks again.  The lenses *)
(* of a review panel call the same provider at the same time               *)
(* (core/review-panel.ts), and what a call reads after its refusal is the  *)
(* provider that is current by then.                                       *)
EXTENDS Integers, Sequences, FiniteSets, FiniteSetsExt, SequencesExt

CONSTANTS
    ProviderTypes,   \* the types that the rules may name
    SafeType,        \* agy-cli, which is taken first of all others
    Calls            \* the calls that are made of the role's provider

ASSUME FailoverAssumption == ProviderTypes # {} /\ IsFiniteSet(ProviderTypes)

VARIABLES
    named,         \* the types that the rules name, in their order
    serving,       \* the current provider: its type and the how-manieth it is
    failed,        \* failedProviders
    accumulated,   \* how many calls are counted of providers that were replaced
    used,          \* provider -> how many calls are counted of it
    progress,      \* call -> where it stands
    overlapped     \* two calls were under way at once

failoverVars == <<named, serving, failed, accumulated, used, progress, overlapped>>

NewCall == [at |-> "none", asked |-> [type |-> SafeType, turn |-> 0], asks |-> 0, refusedBy |-> {}, late |-> FALSE]

Turns == 1 .. Cardinality(ProviderTypes)

(* createProvider                                                          *)
FailoverInit ==
    /\ named \in {s \in UNION {[1 .. n -> ProviderTypes] : n \in Turns} : IsInjective(s)}
    /\ serving \in [type : Range(named), turn : {1}]
    /\ failed = {} /\ accumulated = 0
    /\ used = [i \in Turns |-> 0]
    /\ progress = [c \in Calls |-> NewCall]
    /\ overlapped = FALSE

UnderWay == {c \in Calls : progress[c].at = "asking"}

(* findFallbackProvider                                                    *)
Untried == Range(named) \ (failed \cup {serving.type})
Fallback ==
    IF SafeType \in Untried THEN SafeType
    ELSE named[SelectInSeq(named, LAMBDA t : t \in Untried)]

(* UsageTrackingProvider.runJson: asks the provider that is current now.   *)
CallProvider(c) ==
    /\ progress[c].at = "none"
    /\ progress' = [progress EXCEPT ![c] = [@ EXCEPT !.at = "asking", !.asked = serving, !.asks = 1]]
    /\ overlapped' = (overlapped \/ UnderWay # {})
    /\ UNCHANGED <<named, serving, failed, accumulated, used>>

(* What was used is counted with the provider that answered.               *)
ProviderAnswers(c) ==
    /\ progress[c].at = "asking"
    /\ used' = [used EXCEPT ![progress[c].asked.turn] = @ + 1]
    /\ progress' = [progress EXCEPT ![c] = [@ EXCEPT !.at = "answered", !.late = progress[c].asked # serving]]
    /\ UNCHANGED <<named, serving, failed, accumulated, overlapped>>

(* The call fails in another way: its provider is kept.                    *)
ProviderFails(c) ==
    /\ progress[c].at = "asking"
    /\ progress' = [progress EXCEPT ![c].at = "failed"]
    /\ UNCHANGED <<named, serving, failed, accumulated, used, overlapped>>

(* FailoverJsonProvider.runJson: the call is refused and moves the role.   *)
(* Mutant: the provider that was current is not marked.                    *)
MoveUnmarked(c) ==
    /\ progress[c].at = "asking" /\ Untried # {} /\ serving.turn < Len(named)
    /\ accumulated' = accumulated + used[serving.turn]
    /\ serving' = [type |-> Fallback, turn |-> serving.turn + 1]
    /\ progress' = [progress EXCEPT ![c].asked = serving', ![c].asks = @ + 1,
                                    ![c].refusedBy = @ \cup {progress[c].asked.type}]
    /\ UNCHANGED <<named, failed, used, overlapped>>

MoveRole(c) ==
    /\ progress[c].at = "asking" /\ Untried # {}
    /\ failed' = failed \cup {serving.type}
    /\ accumulated' = accumulated + used[serving.turn]
    /\ serving' = [type |-> Fallback, turn |-> serving.turn + 1]
    /\ progress' = [progress EXCEPT ![c].asked = serving', ![c].asks = @ + 1,
                                    ![c].refusedBy = @ \cup {progress[c].asked.type}]
    /\ UNCHANGED <<named, used, overlapped>>

(* It is refused and no other provider is left.                            *)
GiveUpRole(c) ==
    /\ progress[c].at = "asking" /\ Untried = {}
    /\ progress' = [progress EXCEPT ![c].at = "refused", ![c].refusedBy = @ \cup {progress[c].asked.type}]
    /\ UNCHANGED <<named, serving, failed, accumulated, used, overlapped>>

FailoverNext == \E c \in Calls : CallProvider(c) \/ ProviderAnswers(c) \/ ProviderFails(c) \/ MoveRole(c) \/ GiveUpRole(c)

FailoverSpec == FailoverInit /\ [][FailoverNext]_failoverVars

(* getUsage                                                                *)
CountedCalls == accumulated + used[serving.turn]

RefusedBy == UNION {progress[c].refusedBy : c \in Calls}
AnsweredCalls == {c \in Calls : progress[c].at = "answered"}

(* A role leaves each provider once at most, whichever calls move it, so   *)
(* that no call asks more often than there are providers.                  *)
FailoverEnds ==
    /\ serving.type \notin failed
    /\ Cardinality(failed) = serving.turn - 1
    /\ \A c \in Calls : progress[c].asks <= Len(named)

(* Calls that follow one another leave a provider only when it refused     *)
(* one of them, and are told that they are refused only when all have.     *)
(* (Of two calls that overlap, the second to be refused leaves the         *)
(* provider that the first moved to, which neither may have heard of, or   *)
(* gives up although that provider would answer it.)                       *)
LeftWhenRefused ==
    ~overlapped =>
        /\ failed \subseteq RefusedBy
        /\ \A c \in Calls : progress[c].at = "refused" => RefusedBy = Range(named)

(* Every answer is counted once, but for one of a provider that another    *)
(* call replaced meanwhile, which is lost: calls that follow one another   *)
(* lose none.                                                              *)
UsageIsCounted ==
    /\ CountedCalls = Cardinality({c \in AnsweredCalls : ~progress[c].late})
    /\ ~overlapped => \A c \in AnsweredCalls : ~progress[c].late

(* What a run can rely on of the provider of a role.                       *)
CallsAreServed == FailoverEnds /\ LeftWhenRefused /\ UsageIsCounted
=============================================================================
