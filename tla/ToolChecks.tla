----------------------------- MODULE ToolChecks -----------------------------
(* The command a tool check runs for a change (core/tool-scoping.ts,       *)
(* core/tool-adapters.ts) and the result it is given                       *)
(* (core/tool-executor.ts, core/tool-runner.ts).                           *)
(*                                                                         *)
(* A question t: the tool, its configuration [kind, append], the package   *)
(* manager, pnpm's workspace file, what the package.json of every package  *)
(* names ("changed", "files", "related": scripts that take the changed      *)
(* files, such as lint:changed; "affected": test:affected; "plain": the    *)
(* tool's own), the packages with a name, a tsconfig, an eslint script,    *)
(* whether tsc is there, the adapters in order, the changed files          *)
(* [pkg, ext].                                                             *)
EXTENDS Integers, Sequences, FiniteSets, SequencesExt

Standard == {"lint", "typecheck", "build", "test"}
Eslintable == {"ts"}

(* A command: who named it, the packages it runs over, the changed files   *)
(* it is given (when "scoped"), and the scope it is said to have.          *)
Command(by, dirs, scoped, files, scope) ==
    [by |-> by, dirs |-> dirs, scoped |-> scoped, files |-> files, scope |-> scope]

(* The changed files that a command looks at.                              *)
Looks(t, c) ==
    IF c.scoped THEN c.files ELSE {f \in t.changed : "root" \in c.dirs \/ f.pkg \in c.dirs}

PackagesOf(t) == {f.pkg : f \in t.changed}

(* Mutant: the package of some changed file is the scope.                  *)
PackageScopeOfOne(t) ==
    IF t.tool \in Standard THEN PackagesOf(t) \ {"root", "nowhere"} ELSE {}

(* detectPackageScopeContext: the one package below the root that all      *)
(* changed files are in, as a set.                                         *)
PackageScope(t) ==
    IF /\ t.tool \in Standard /\ Cardinality(PackagesOf(t)) = 1
       /\ PackagesOf(t) \cap {"root", "nowhere"} = {}
    THEN PackagesOf(t) ELSE {}

(* detectWorkspaceScopeContext: the packages of a change to several.       *)
WorkspaceScope(t) ==
    IF /\ t.tool \in Standard /\ t.manager = "pnpm" /\ t.workspace
       /\ Cardinality(PackagesOf(t)) > 1
       /\ PackagesOf(t) \cap {"root", "nowhere"} = {} /\ PackagesOf(t) \subseteq t.named
    THEN PackagesOf(t) ELSE {}

ScopedScript(t, p, script) ==
    IF script \notin t.scripts[p] THEN <<>>
    ELSE IF script # "affected" THEN <<Command("auto", {p}, TRUE, t.changed, "changed-files")>>
    ELSE <<Command("auto", {p}, FALSE, {}, IF p = "root" THEN "full" ELSE "package")>>

(* The package's script before the root's.                                 *)
PackageOrRoot(t, script) ==
    (IF PackageScope(t) = {} THEN <<>>
     ELSE ScopedScript(t, CHOOSE p \in PackageScope(t) : TRUE, script))
      \o ScopedScript(t, "root", script)

(* getScopedScriptCandidates (two of the three that take files).           *)
Candidates(t) ==
    CASE t.tool = "lint" -> PackageOrRoot(t, "changed") \o PackageOrRoot(t, "files")
      [] t.tool = "test" ->
           PackageOrRoot(t, "changed") \o PackageOrRoot(t, "related") \o PackageOrRoot(t, "affected")
      [] OTHER -> <<>>

(* resolveDirectPackageLintCommand: eslint, on what it can read.           *)
DirectLint(t) ==
    LET lintable == {f \in t.changed : f.ext \in Eslintable} IN
    IF t.tool = "lint" /\ PackageScope(t) \cap t.eslint # {} /\ lintable # {}
    THEN <<Command("eslint", PackageScope(t), TRUE, lintable, "changed-files")>> ELSE <<>>

(* resolveAutoScopedToolCommand: the candidates, then eslint.              *)
AutoScoped(t) == IF t.changed = {} THEN <<>> ELSE Candidates(t) \o DirectLint(t)

(* resolveWorkspaceToolCommand: when all the packages have the script.     *)
Workspace(t) ==
    IF WorkspaceScope(t) # {} /\ \A p \in WorkspaceScope(t) : "plain" \in t.scripts[p]
    THEN <<Command("workspace", WorkspaceScope(t), FALSE, {}, "workspace")>> ELSE <<>>

(* resolvePackageTypecheckCommand.                                         *)
PackageTypecheck(t) ==
    IF t.tool = "typecheck" /\ PackageScope(t) \cap t.tsconfig # {} /\ t.compiler
    THEN <<Command("tsc", PackageScope(t), FALSE, {}, "package")>> ELSE <<>>

PackageScript(t) ==
    IF PackageScope(t) # {} /\ \A p \in PackageScope(t) : "plain" \in t.scripts[p]
    THEN <<Command("package", PackageScope(t), t.config.append, t.changed, "package")>> ELSE <<>>

(* resolveToolScriptName at the root: a configured script or the tool's.   *)
RootScript(t) ==
    IF t.config.kind = "script" \/ "plain" \in t.scripts["root"]
    THEN <<Command("root", {"root"}, t.config.append, t.changed,
                   IF t.config.append THEN "changed-files" ELSE "full")>>
    ELSE <<>>

Handles(adapter, f) == adapter.exts = {} \/ f.ext \in adapter.exts

(* detectToolAdapterContexts: the adapters that a changed file concerns.   *)
Adapters(t) ==
    SelectSeq(t.adapters,
              LAMBDA a : t.changed = {} \/ a.exts = {} \/ \E f \in t.changed : Handles(a, f))

(* resolveAdapterToolCommand: the first adapter with a command.            *)
Adapter(t) ==
    LET with == SelectSeq(Adapters(t), LAMBDA a : t.tool \in a.tools)
    IN  IF with = <<>> THEN <<>>
        ELSE <<Command("adapter", {with[1].dir}, with[1].append,
                       {f \in t.changed : Handles(with[1], f)},
                       IF with[1].dir = "root" THEN "full" ELSE "package")>>

(* The end of resolveToolCommand: nothing for a change that is all an      *)
(* adapter's, else tsc for the whole repository.                           *)
RootTypecheck(t) ==
    IF /\ t.tool = "typecheck" /\ "root" \in t.tsconfig
       /\ ~(t.changed # {} /\ \A f \in t.changed :
              \E i \in DOMAIN Adapters(t) : Handles(Adapters(t)[i], f))
    THEN <<Command("tsc", {"root"}, FALSE, {}, "full")>> ELSE <<>>

(* resolveToolCommand, as the sequence of what it would come to: the first *)
(* is its answer.                                                          *)
Resolve(t) ==
    CASE t.config.kind = "off" -> <<>>
      [] t.config.kind = "command" ->
            <<Command("config", {"root"}, t.config.append, t.changed,
                      IF t.config.append THEN "changed-files" ELSE "full")>>
      [] t.config.kind = "script" -> RootScript(t)
      [] t.config.kind = "none" ->
            AutoScoped(t) \o Workspace(t) \o PackageTypecheck(t) \o PackageScript(t)
                \o RootScript(t) \o Adapter(t) \o RootTypecheck(t)

(* resolveFullScopeFallback, called without changed files: the root's      *)
(* script; or the command of an adapter that has a directory of its own,   *)
(* called "full".  The adapters are those found for the change.            *)
FullScope(t) ==
    IF RootScript(t) # <<>> THEN <<Command("root", {"root"}, FALSE, {}, "full")>>
    ELSE IF Adapter(t) # <<>> /\ Adapter(t)[1].scope # "full"
         THEN <<[Adapter(t)[1] EXCEPT !.scope = "full", !.scoped = FALSE, !.files = {}]>>
         ELSE <<>>

----------------------------------------------------------------------------
(* The result.  An attempt ends "passed" or "failed"; or is "missing", the *)
(* command not being there; or "quoted", it ran and failed with an output  *)
(* that says ENOENT or "failed to start".  The message of the error quotes *)
(* the output, so that looksLikeMissingExecutable tells the last two from  *)
(* "failed" and not from one another.                                      *)

LooksMissing == {"missing", "quoted"}

Result(status, issue, fallback) == [status |-> status, issue |-> issue, fallback |-> fallback]

(* Mutant: the issue of a scoped check is dropped when the full one passes.*)
CheckForgiving(t, docker, first, again) ==
    LET c == Resolve(t)[1]
        retried == (c.scoped \/ c.scope \in {"changed-files", "package"}) /\ FullScope(t) # <<>>
    IN  IF Resolve(t) = <<>> \/ ~docker \/ first \in LooksMissing THEN Result("unavailable", FALSE, FALSE)
        ELSE IF first = "passed" THEN Result("passed", FALSE, FALSE)
        ELSE IF retried /\ again = "passed" THEN Result("passed", FALSE, TRUE)
        ELSE Result("failed", TRUE, retried)

(* The loop of runToolChecks for one tool: whether docker and its image    *)
(* are there when the sandbox wants them, how the command ends, and how    *)
(* the second one ends.  The issue is pushed before the second is tried.   *)
Check(t, docker, first, again) ==
    LET c == Resolve(t)[1]
        retried == (c.scoped \/ c.scope \in {"changed-files", "package"}) /\ FullScope(t) # <<>>
    IN  IF Resolve(t) = <<>> \/ ~docker \/ first \in LooksMissing THEN Result("unavailable", FALSE, FALSE)
        ELSE IF first = "passed" THEN Result("passed", FALSE, FALSE)
        ELSE IF retried /\ again = "passed" THEN Result("passed", TRUE, TRUE)
        ELSE Result("failed", TRUE, retried)

(* A check of a change looks at all of it (resolveToolCommand): whichever  *)
(* of the seven ways its command is found, no changed file is outside the  *)
(* packages it runs over or left out of the files it is given.  eslint     *)
(* reads what it can; a command of the configuration and an adapter, which *)
(* is for the files of one language, are as their authors wrote them.      *)
CheckCoversChange(t) ==
    Resolve(t) # <<>> =>
        LET c == Resolve(t)[1] IN
        CASE c.by \in {"config", "adapter"} -> TRUE
          [] c.by = "eslint" -> \A f \in t.changed : f.ext \in Eslintable => f \in Looks(t, c)
          [] OTHER -> t.changed \subseteq Looks(t, c)

(* A check whose command ran and failed is failed, with its issue, unless  *)
(* a second run that looks at all that the first one looked at passes: it  *)
(* is called passed then and keeps its issue.  It is excused in no other   *)
(* way but one: a command whose output quotes ENOENT passes for one that   *)
(* is missing, and is neither run again nor given an issue                 *)
(* (runToolChecks, resolveFullScopeFallback).  Where the second run is the *)
(* command of an adapter with a directory of its own it may look at less.  *)
FailureIsExcusedByMore(t, docker, first, again) ==
    LET r == Check(t, docker, first, again) IN
    (Resolve(t) # <<>> /\ docker /\ first \in {"failed", "quoted"}) =>
        \/ r.status = "failed" /\ r.issue /\ ~(r.fallback /\ again = "passed")
        \/ /\ r.status = "passed" /\ r.issue /\ r.fallback /\ again = "passed"
           /\ RootScript(t) # <<>> => Looks(t, Resolve(t)[1]) \subseteq Looks(t, FullScope(t)[1])
        \/ r.status = "unavailable" /\ first = "quoted" /\ ~r.issue /\ ~r.fallback
=============================================================================
