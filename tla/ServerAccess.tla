---------------------------- MODULE ServerAccess ----------------------------
(* Which request the server answers how: the tokens and what they may      *)
(* reach (security/token-policy.ts), the actor a request acts as           *)
(* (core/audit-log.ts, core/permissions.ts), the routes with the order of  *)
(* their checks (server-app.ts, server/routes, workers/worker-routes.ts),  *)
(* and the limit on requests (security/rate-limit.ts).                     *)
EXTENDS Integers, Sequences, FiniteSets, FiniteSetsExt, SequencesExt

----------------------------------------------------------------------------
(* Tokens and actors.                                                      *)

Rank == [viewer |-> 0, operator |-> 1, admin |-> 2]
AtLeast(role, needed) == Rank[role] >= Rank[needed]
Lower(role, cap) == IF AtLeast(role, cap) THEN cap ELSE role

(* resolveTokenRole: "set" names the tokens the server was given; a wrong  *)
(* token, or none, is refused as soon as there is one.                     *)
TokenRole(set, token) ==
    CASE set = {} -> "dashboard" [] token \in set -> token [] OTHER -> "refused"

(* maxActorRoleForToken                                                    *)
(* Mutant: the token of hermes is not capped.                              *)
CapUnset(token) == IF token = "worker" THEN "viewer" ELSE "admin"

Cap(token) == CASE token = "hermes" -> "operator" [] token = "worker" -> "viewer" [] OTHER -> "admin"

(* parseAuditActor: the rules know the actor, or the header says its role. *)
Claimed(ask) ==
    IF ask.mapped # "none" THEN ask.mapped
    ELSE IF ask.header # "none" THEN ask.header ELSE "viewer"

(* resolveRouteActor: without tokens, who says nothing is an operator.     *)
Actor(set, ask) ==
    IF set # {} THEN Lower(Claimed(ask), Cap(ask.token))
    ELSE IF ask.mapped = "none" /\ ask.header = "none" THEN "operator" ELSE Claimed(ask)

(* roleCan of a role that a route names, canPerformAction of an action     *)
(* that the rules may name a role for.                                     *)
MayAct(actor, needed) == needed = "none" \/ AtLeast(actor, needed)

----------------------------------------------------------------------------
(* The routes: what each checks, in its order, and what it changes.  A     *)
(* check is of the actor's role ("operator"), of an action of the rules    *)
(* ("action"), of the worker's session, of the body, of its fields, of the *)
(* directory it names, and of what it is about ("exists").                 *)

Route(name, checks, changes) == [name |-> name, checks |-> checks, changes |-> changes]

AdminRoutes ==
    {Route("GET projects", <<>>, "nothing"),
     Route("POST workspaces", <<"operator", "body", "fields", "cwd 400">>, "workspace"),
     Route("GET stats", <<"cwd">>, "nothing"),
     Route("POST lessons", <<"action", "body", "cwd", "fields">>, "lesson"),
     Route("POST queue", <<"action">>, "queue"),
     Route("GET audit", <<>>, "nothing"),
     Route("GET audit export", <<"operator">>, "nothing")}

(* Mutant: the role is asked for once the request is understood.           *)
JobRoutesLate ==
    {Route("POST run", <<"body", "fields", "operator", "action", "cwd">>, "job"),
     Route("POST jobs", <<"operator", "action", "body", "fields", "cwd">>, "job"),
     Route("GET jobs", <<"cwd">>, "nothing"),
     Route("GET job", <<"exists">>, "nothing")}

JobRoutes ==
    {Route("POST run", <<"operator", "action", "body", "fields", "cwd">>, "job"),
     Route("POST jobs", <<"operator", "action", "body", "fields", "cwd">>, "job"),
     Route("GET jobs", <<"cwd">>, "nothing"),
     Route("GET job", <<"exists">>, "nothing")}

JobDecisionRoutes ==
    {Route("POST job cancel", <<"action", "exists">>, "job"),
     Route("POST job approve", <<"action", "body", "exists">>, "job")}

JobFileRoutes ==
    {Route("GET job file", <<"cwd", "fields", "exists">>, "nothing"),
     Route("GET job artifact", <<"fields", "exists">>, "nothing"),
     Route("GET job manifest", <<"exists">>, "nothing")}

(* What goes wrong with a new configuration is always the server's fault.  *)
ConfigRoutes ==
    {Route("GET config", <<>>, "nothing"),
     Route("POST config", <<"action", "body 500", "exists">>, "config")}

RepoRoutes ==
    {Route("GET repos", <<>>, "nothing"),
     Route("POST repos", <<"action", "body", "fields", "cwd">>, "repo"),
     Route("GET repo", <<"exists">>, "nothing")}

ItemRoutes ==
    {Route("GET items", <<"cwd">>, "nothing"),
     Route("POST items", <<"action", "body", "cwd", "fields">>, "item"),
     Route("POST items dispatch", <<"action", "body", "cwd", "fields">>, "item"),
     Route("GET item", <<"fields", "cwd", "exists">>, "nothing")}

ItemActionRoutes == {Route("POST item action", <<"action", "fields", "body", "cwd", "exists">>, "item")}

WorkerAdminRoutes ==
    {Route("GET workers", <<>>, "nothing"),
     Route("POST workers", <<"body", "fields">>, "worker"),
     Route("GET worker", <<"exists">>, "nothing"),
     Route("POST worker status", <<"action", "exists">>, "worker")}

LeaseRoutes ==
    {Route("POST worker heartbeat", <<"session", "body", "exists">>, "lease"),
     Route("POST worker claim", <<"session", "exists">>, "lease")}

ReportRoutes ==
    {Route("POST job end", <<"body", "fields", "session", "exists 400">>, "lease"),
     Route("POST job start", <<"body", "fields", "session", "exists 400">>, "lease"),
     Route("POST job checkpoint", <<"body", "fields", "session", "exists 400">>, "lease"),
     Route("POST worker logs", <<"session", "body", "fields", "exists 400">>, "lease")}

RecoverRoutes == {Route("POST job recover", <<"action", "exists 400">>, "job")}

Routes ==
    AdminRoutes \cup JobRoutes \cup JobDecisionRoutes \cup JobFileRoutes \cup ConfigRoutes
      \cup RepoRoutes \cup ItemRoutes \cup ItemActionRoutes \cup WorkerAdminRoutes \cup LeaseRoutes \cup ReportRoutes \cup RecoverRoutes

(* canAccessRoute                                                          *)
(* Mutant: hermes may report on jobs.                                      *)
ReachesReports(token, name) ==
    CASE token = "hermes" ->
           name \notin {"POST config", "GET workers", "POST workers", "GET worker", "POST worker status",
                        "POST worker heartbeat", "POST worker claim", "POST worker logs", "POST queue"}
      [] token = "worker" ->
           name \in {"POST workers", "POST worker heartbeat", "POST worker claim", "POST worker logs",
                     "POST job start", "POST job end", "POST job checkpoint"}
      [] OTHER -> TRUE

Reaches(token, name) ==
    CASE token = "hermes" ->
           name \notin {"POST config", "GET workers", "POST workers", "GET worker", "POST worker status",
                        "POST worker heartbeat", "POST worker claim", "POST worker logs", "POST queue",
                        "POST job start", "POST job end", "POST job checkpoint"}
      [] token = "worker" ->
           name \in {"POST workers", "POST worker heartbeat", "POST worker claim", "POST worker logs",
                     "POST job start", "POST job end", "POST job checkpoint"}
      [] OTHER -> TRUE

(* resolveRequestedCwd: a directory that is not there counts as inside     *)
(* when its name is.                                                       *)
Inside(ask) == ask.place = "inside"

(* hasValidWorkerSession is asked of the worker token alone, and readJson- *)
(* Body takes no body for an empty one.                                    *)
SessionHolds(role, ask) == role # "worker" \/ ask.session
Readable(ask) == ask.body # "malformed"

(* Whether a check lets a request pass, and what it is answered if not.    *)
Passes(check, role, actor, needed, ask) ==
    CASE check = "operator" -> AtLeast(actor, "operator")
      [] check = "action" -> MayAct(actor, needed)
      [] check = "session" -> SessionHolds(role, ask)
      [] check \in {"body", "body 500"} -> Readable(ask)
      [] check = "fields" -> ask.body = "whole"
      [] check \in {"cwd", "cwd 400"} -> Inside(ask)
      [] OTHER -> ask.exists

Status(check) ==
    CASE check \in {"operator", "action", "cwd"} -> 403
      [] check = "session" -> 401
      [] check = "exists" -> 404
      [] check = "body 500" -> 500
      [] OTHER -> 400

(* The handler of the server.  What is asked of whom comes before what is  *)
(* asked of what.                                                          *)
Answer(set, needed, route, ask) ==
    LET role == TokenRole(set, ask.token)
        actor == Actor(set, ask)
        failing == SelectSeq(route.checks, LAMBDA c : ~Passes(c, role, actor, needed, ask))
    IN IF role = "refused" THEN [status |-> 401, at |-> "token", changes |-> "nothing"]
       ELSE IF ~Reaches(role, route.name) THEN [status |-> 403, at |-> "route", changes |-> "nothing"]
       ELSE IF failing # <<>> THEN [status |-> Status(failing[1]), at |-> failing[1], changes |-> "nothing"]
       ELSE [status |-> 200, at |-> "done", changes |-> route.changes]

Tokens == {"none", "server", "worker", "hermes", "wrong"}
Headers == {"none", "viewer", "operator", "admin"}
Contents == [body : {"whole", "partial", "malformed"}, place : {"inside", "outside"}, exists : BOOLEAN]

Ask(token, header, mapped, session, content) ==
    [token |-> token, header |-> header, mapped |-> mapped, session |-> session,
     body |-> content.body, place |-> content.place, exists |-> content.exists]

(* Who is refused for who it is is told nothing else: the answer is the    *)
(* same whatever the body says, wherever its directory is and whether what *)
(* it names exists, on every route (only the session of a worker is asked  *)
(* for after the body that names the worker).                              *)
RefusalIsBlind(set, needed, route) ==
    \A t \in Tokens, h \in Headers :
        LET answers == {Answer(set, needed, route, Ask(t, h, "none", TRUE, c)) : c \in Contents}
        IN (\E a \in answers : a.at \in {"token", "route", "operator", "action"})
             => Cardinality(answers) = 1

(* The role a client claims and the one its token allows: a higher one is  *)
(* served whatever a lower one is, a token below the server's never does   *)
(* more than with the role it is capped to, and what a lease says is       *)
(* changed with a worker's own session or the token of the server.         *)
RolesAreApart(set, needed, route) ==
    \A t \in Tokens, c \in Contents, s \in BOOLEAN, m \in {"none", "admin"} :
        LET as(h) == Answer(set, needed, route, Ask(t, h, m, s, c))
        IN /\ \A h, k \in Headers \ {"none"} :
                (AtLeast(k, h) /\ as(h).status = 200) => as(k).status = 200
           /\ (set # {} /\ t = "hermes") =>
                \A h \in Headers : as(h).changes # "nothing" => MayAct("operator", needed) \/ "action" \notin ToSet(route.checks)
           /\ \A h \in Headers : as(h).changes = "lease" =>
                t = "server" \/ set = {} \/ (t = "worker" /\ s)

(* With tokens set, who has none of them gets nothing, and two requests    *)
(* that differ in the token differ only in being refused more.             *)
TokensOnlyTakeAway(needed, route) ==
    \A t \in {"worker", "hermes", "wrong", "none"}, h \in Headers \ {"none"}, c \in Contents :
        LET all == {"server", "worker", "hermes"}
            less == Answer(all, needed, route, Ask(t, h, "none", TRUE, c))
        IN /\ t \in {"wrong", "none"} => less.status = 401
           /\ less.status = 200 => less = Answer(all, needed, route, Ask("server", h, "none", TRUE, c))

----------------------------------------------------------------------------
(* FixedWindowRateLimiter: the windows it keeps and when it next sweeps.   *)

NoWindows == [at |-> [k \in {} |-> 0], sweep |-> 0]

Expired(window, now) == window.reset <= now
Swept(state, now, length) ==
    IF now < state.sweep THEN state
    ELSE [at |-> [k \in {j \in DOMAIN state.at : ~Expired(state.at[j], now)} |-> state.at[k]],
          sweep |-> now + length]

(* Mutant: an old window is opened for longer, and its count kept.         *)
HitExtends(state, key, now, length) ==
    LET swept == Swept(state, now, length)
        fresh == [count |-> 0, reset |-> now + length]
        entry == IF key \in DOMAIN swept.at /\ ~Expired(swept.at[key], now)
                 THEN [swept.at[key] EXCEPT !.reset = now + length] ELSE fresh
    IN [swept EXCEPT !.at = [k \in DOMAIN swept.at \cup {key} |->
                                IF k = key THEN [entry EXCEPT !.count = @ + 1] ELSE swept.at[k]]]

Hit(state, key, now, length) ==
    LET swept == Swept(state, now, length)
        fresh == [count |-> 0, reset |-> now + length]
        entry == IF key \in DOMAIN swept.at /\ ~Expired(swept.at[key], now) THEN swept.at[key] ELSE fresh
    IN [swept EXCEPT !.at = [k \in DOMAIN swept.at \cup {key} |->
                                IF k = key THEN [entry EXCEPT !.count = @ + 1] ELSE swept.at[k]]]

(* The hits of keys at times that do not go back; what each was told.      *)
Allowed(hits, limit, length) ==
    LET state[n \in 0 .. Len(hits)] ==
          IF n = 0 THEN NoWindows ELSE Hit(state[n - 1], hits[n].key, hits[n].time, length)
    IN [n \in DOMAIN hits |-> state[n].at[hits[n].key].count <= limit]

(* A key is let through limit times in a window that its first request     *)
(* opens, and asked to wait for the rest of it and no longer, whatever     *)
(* other keys do and whenever windows are swept.                           *)
LimitIsKept(hits, limit, length) ==
    LET opened[n \in DOMAIN hits] ==
          LET before == {i \in 1 .. n - 1 : hits[i].key = hits[n].key}
          IN IF before = {} THEN hits[n].time
             ELSE LET last == Max(before)
                  IN IF opened[last] + length <= hits[n].time THEN hits[n].time ELSE opened[last]
        used(n) == Cardinality({i \in 1 .. n : hits[i].key = hits[n].key /\ opened[i] = opened[n]})
    IN \A n \in DOMAIN hits : Allowed(hits, limit, length)[n] = (used(n) <= limit)
=============================================================================
