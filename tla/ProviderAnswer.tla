---------------------------- MODULE ProviderAnswer ----------------------------
(* What is taken from the answer of a provider: the value that fits what   *)
(* was asked for (utils/schema.ts, utils/string.ts), and the requests of   *)
(* an openai-compatible provider (providers/openai-compatible.ts).         *)
EXTENDS Integers, Sequences, FiniteSets, FiniteSetsExt, SequencesExt

----------------------------------------------------------------------------
(* A value is a tree: nodes 1 .. n, of which 1 is the answer; each has a   *)
(* kind, the node it is in, and its key there.  In an object and a list    *)
(* are values; in a text, one after the other, the pieces in brackets that *)
(* it has, of which some are "broken", which is to say no JSON.            *)
Kinds == {"object", "list", "text", "number", "broken"}
In(v, n) == {m \in DOMAIN v.kind : m # 1 /\ v.parent[m] = n}
InOrder(S) == SetToSortSeq(S, LAMBDA a, b : a < b)

(* A tree that a value can have.                                           *)
IsValue(v) ==
    /\ v.kind[1] # "broken"
    /\ \A n \in DOMAIN v.kind \ {1} :
         /\ v.parent[n] < n
         /\ v.kind[v.parent[n]] \in {"object", "list", "text"}
         /\ v.kind[n] = "broken" => v.kind[v.parent[n]] = "text"
         /\ v.kind[v.parent[n]] = "text" => v.kind[n] \in {"broken", "object", "list"}
         /\ v.kind[v.parent[n]] # "object" => v.key[n] = "a"
    /\ \A n \in DOMAIN v.kind : v.kind[n] = "object" =>
         \A a, b \in In(v, n) : v.key[a] = v.key[b] => a = b

(* parseJsonResponse: the first piece, and nothing if that is broken.      *)
Parsed(v, n) ==
    IF In(v, n) = {} \/ v.kind[Min(In(v, n))] = "broken" THEN {} ELSE {Min(In(v, n))}

(* firstSchemaError, of an object whose values are texts, some of them     *)
(* required, others allowed or not.                                        *)
Fits(v, n, schema) ==
    /\ v.kind[n] = "object"
    /\ \A k \in schema.required : \E m \in In(v, n) : v.key[m] = k
    /\ \A m \in In(v, n) :
         IF v.key[m] \in schema.named THEN v.kind[m] = "text" ELSE schema.open

(* tryNormalizeCandidate                                                   *)
Candidate(v, n, schema) ==
    LET of == IF v.kind[n] = "text" THEN Parsed(v, n) ELSE {n}
    IN {m \in of : Fits(v, m, schema)}

(* preferredKeys: these first, then the others as they come.               *)
Preferred == <<"result", "content">>
ByKey(v, n) ==
    LET named(k) == InOrder({m \in In(v, n) : v.key[m] = k})
        others == {m \in In(v, n) : v.key[m] \notin Range(Preferred)}
    IN named(Preferred[1]) \o named(Preferred[2]) \o InOrder(others)

(* Mutant: what is inside a value is looked at before what is beside it.   *)
Inner(v, n) ==
    CASE v.kind[n] = "text" -> InOrder(Parsed(v, n))
      [] v.kind[n] = "list" -> InOrder(In(v, n))
      [] v.kind[n] = "object" -> ByKey(v, n)
      [] OTHER -> <<>>

RECURSIVE SearchDeep(_, _, _)
SearchDeep(v, queue, schema) ==
    IF queue = <<>> THEN 0
    ELSE IF Candidate(v, Head(queue), schema) # {} THEN Min(Candidate(v, Head(queue), schema))
    ELSE SearchDeep(v, Inner(v, Head(queue)) \o Tail(queue), schema)

RECURSIVE Search(_, _, _)
Search(v, queue, schema) ==
    IF queue = <<>> THEN 0
    ELSE IF Candidate(v, Head(queue), schema) # {} THEN Min(Candidate(v, Head(queue), schema))
    ELSE Search(v, Tail(queue) \o Inner(v, Head(queue)), schema)

(* extractStructuredData: the node that is taken, or 0.                    *)
Extracted(v, schema) == Search(v, <<1>>, schema)

(* How a node is reached, as the places of the nodes on the way.           *)
RECURSIVE Way(_, _)
Way(v, n) ==
    IF n = 1 THEN <<>>
    ELSE LET p == v.parent[n]
         IN Append(Way(v, p), IF v.kind[p] = "object" THEN IndexFirstSubSeq(<<n>>, ByKey(v, p)) ELSE n)
RECURSIVE Reachable(_, _)
Reachable(v, n) ==
    n = 1 \/ (Reachable(v, v.parent[n]) /\ (v.kind[v.parent[n]] = "text" => n \in Parsed(v, v.parent[n])))

(* The text that holds a value is as near as the value's wrapper.          *)
Place(v, n) == IF n # 1 /\ v.kind[v.parent[n]] = "text" THEN v.parent[n] ELSE n
Nearer(v, a, b) ==
    LET x == Way(v, Place(v, a))
        y == Way(v, Place(v, b))
    IN \/ Len(x) < Len(y)
       \/ Len(x) = Len(y) /\ \E i \in DOMAIN x : x[i] < y[i] /\ SubSeq(x, 1, i - 1) = SubSeq(y, 1, i - 1)

(* An answer is refused only if nothing in it fits, and of what fits, the  *)
(* nearest is taken, of several that are as near the one under the more    *)
(* telling key.  (What a text has after a piece that is no JSON is not     *)
(* reached.)                                                               *)
NearestIsTaken(v, schema) ==
    LET fitting == {n \in DOMAIN v.kind : v.kind[n] # "broken" /\ Reachable(v, n) /\ Fits(v, n, schema)}
        taken == Extracted(v, schema)
    IN /\ taken = 0 <=> fitting = {}
       /\ taken # 0 => taken \in fitting /\ \A n \in fitting \ {taken} : Nearer(v, taken, n)

----------------------------------------------------------------------------
(* A body that comes in events: each has a whole message, a part of one,   *)
(* a text, something else, or is no JSON.                                  *)
Content(event) == IF event.kind \in {"part", "text"} THEN event.says ELSE <<>>

(* parseSsePayload and extractMessageContent                               *)
(* Mutant: the parts are read before the whole message.                    *)
StreamedParts(events) ==
    LET parts == FlattenSeq([i \in DOMAIN events |-> Content(events[i])])
        whole == SelectSeq(events, LAMBDA e : e.kind = "whole")
    IN IF whole = <<>> THEN parts ELSE parts \o Last(whole).says

Streamed(events) ==
    LET whole == SelectSeq(events, LAMBDA e : e.kind = "whole")
    IN IF whole # <<>> THEN Last(whole).says
       ELSE FlattenSeq([i \in DOMAIN events |-> Content(events[i])])

(* A message is told as its parts or as a whole, and the same is read:     *)
(* parts that were sent before the whole are not read twice, and nothing   *)
(* that is no content changes it, wherever it comes.                       *)
StreamIsRead(says, split, noise) ==
    LET part(w) == [kind |-> "part", says |-> <<w>>]
        parts == [i \in DOMAIN says |-> part(says[i])]
        with(events) == SubSeq(events, 1, split) \o <<noise>> \o SubSeq(events, split + 1, Len(events))
        whole == <<[kind |-> "whole", says |-> says]>>
    IN /\ Streamed(with(parts)) = says
       /\ Streamed(with(parts \o whole)) = says

----------------------------------------------------------------------------
(* OpenAICompatibleProvider.runJson: what each attempt brings, "answer",   *)
(* "busy" (429, 503), "slow" (a timeout or another error of the server),   *)
(* "spent" (no quota or capacity) or "wrong", and whether the caller       *)
(* aborts before it or during it.                                          *)
Busy == {"busy", "slow"}

RECURSIVE Attempts(_, _, _)
Attempts(outcomes, n, retries) ==
    LET now == outcomes[n]
    IN IF now.aborted THEN IF now.when = "before" THEN [ends |-> "aborted", asks |-> n - 1]
                                                  ELSE [ends |-> "failed", asks |-> n]
       ELSE IF now.brings = "answer" THEN [ends |-> "answered", asks |-> n]
       ELSE IF n > retries \/ now.brings \notin Busy THEN [ends |-> "failed", asks |-> n]
       ELSE Attempts(outcomes, n + 1, retries)

(* isQuotaOrCapacityError: of the last attempt's failure.                  *)
MovesOn(outcomes, retries) ==
    LET run == Attempts(outcomes, 1, retries)
    IN run.ends = "failed" /\ ~outcomes[run.asks].aborted /\ outcomes[run.asks].brings \in {"busy", "spent"}

(* A request is repeated only after it was refused for now, never once it  *)
(* was aborted, and never once it was answered; an answer that comes in    *)
(* time is taken; and the role moves to another provider only when this    *)
(* one was asked as often as allowed, or has nothing left to give.         *)
RequestsAreSpared(outcomes, retries) ==
    LET run == Attempts(outcomes, 1, retries)
        refused(i) == outcomes[i].brings \in Busy /\ ~outcomes[i].aborted
    IN /\ run.asks <= retries + 1
       /\ \A i \in 1 .. run.asks - 1 : refused(i)
       /\ run.ends = "answered" <=>
            \E n \in 1 .. retries + 1 :
                /\ outcomes[n].brings = "answer" /\ ~outcomes[n].aborted
                /\ \A i \in 1 .. n - 1 : refused(i)
       /\ MovesOn(outcomes, retries) =>
            run.asks = retries + 1 \/ outcomes[run.asks].brings = "spent"
=============================================================================
