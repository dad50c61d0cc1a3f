------------------------------ MODULE Settings ------------------------------
(* Which provider serves which role: the layers of the configuration, the  *)
(* environment and the routing of a run (core/orchestrator-runtime.ts,     *)
(* utils/config.ts, core/config-workflow.ts); and what saving a            *)
(* configuration or the .env file keeps (server/routes/config.ts,          *)
(* security/secret-redaction.ts).  "none" is a field that is not there.    *)
EXTENDS Integers, Sequences, FiniteSets, SequencesExt

----------------------------------------------------------------------------
(* Providers.  An entry has a type, the command it runs, a model and the   *)
(* retries its role was given, which stand for all ROUTING_CONTROL_KEYS.   *)

Roles == <<"planner", "reviewer", "generator", "fixer">>
RoleSet == {Roles[i] : i \in 1 .. 4}

(* The entries in the order of rules.json.                                 *)
Entries == Roles \o <<"claude", "example">>

Entry(type, command, model, retries) ==
    [type |-> type, command |-> command, model |-> model, retries |-> retries]
Unset == Entry("none", "none", "none", "none")

BaseProviders ==
    [planner |-> Entry("agy-cli", "agy", "none", "two"),
     reviewer |-> Entry("agy-cli", "agy", "none", "two"),
     generator |-> Entry("codex-cli", "codex", "none", "one"),
     fixer |-> Entry("codex-cli", "codex", "none", "one"),
     claude |-> Entry("claude-cli", "claude", "none", "one"),
     example |-> Entry("openai-compatible", "none", "hosted", "two")]

(* DEFAULT_PROVIDER_COMMANDS                                               *)
CommandOf(type) ==
    CASE type = "agy-cli" -> "agy" [] type = "claude-cli" -> "claude"
      [] type = "codex-cli" -> "codex" [] OTHER -> "none"

(* A layer: what a file says of providers and routing, and its profile.    *)
Layer(providers, routing, profile) ==
    [providers |-> providers, routing |-> routing, profile |-> profile]
NoLayer == Layer([r \in RoleSet |-> Unset], "none", "none")

(* PROJECT_CONFIG_PRESETS and getProjectConfigPreset                       *)
PresetTypes(name) ==
    CASE name = "codex-all" -> <<"codex-cli", "codex-cli", "codex-cli", "codex-cli">>
      [] name = "hybrid" -> <<"agy-cli", "agy-cli", "codex-cli", "codex-cli">>
      [] name = "safe-review" -> <<"agy-cli", "claude-cli", "codex-cli", "codex-cli">>
Preset(name) ==
    IF name = "none" THEN NoLayer
    ELSE Layer([r \in RoleSet |->
                  LET i == CHOOSE k \in 1 .. 4 : Roles[k] = r
                  IN [Unset EXCEPT !.type = PresetTypes(name)[i]]],
               IF name = "hybrid" THEN "on" ELSE "off", "none")

(* mergeConfig: field by field, what the override has.                     *)
Over(value, override) == IF override = "none" THEN value ELSE override
MergeEntry(entry, override) == [f \in DOMAIN entry |-> Over(entry[f], override[f])]
Merge(base, layer) ==
    [routing |-> Over(base.routing, layer.routing),
     providers |-> [n \in DOMAIN base.providers |->
         IF n \in RoleSet THEN MergeEntry(base.providers[n], layer.providers[n])
         ELSE base.providers[n]]]

(* resolveProviderTemplate: of the entries of a type the first that runs   *)
(* the type's own command, or else the first; a role's own entry is last.  *)
Candidates(ps, role, type) ==
    SelectSeq(Entries, LAMBDA n : n # role /\ ps[n].type = type)
      \o (IF ps[role].type = type THEN <<role>> ELSE <<>>)
Template(ps, role, type) ==
    LET found == Candidates(ps, role, type)
        own == SelectSeq(found, LAMBDA n : ps[n].command = CommandOf(type))
    IN IF found = <<>> THEN Unset
       ELSE IF CommandOf(type) # "none" /\ own # <<>> THEN ps[own[1]] ELSE ps[found[1]]

(* buildRoutedProviderConfig                                               *)
(* Mutant: the template's controls come with it.                           *)
RoutedWithControls(original, template, type) == [template EXCEPT !.type = type]

Routed(original, template, type) ==
    [template EXCEPT !.type = type, !.retries = Over(template.retries, original.retries)]

(* buildProviderConfigForType                                              *)
(* Mutant: only the type changes.                                          *)
ServedByName(ps, role, type) == [ps EXCEPT ![role] = [@ EXCEPT !.type = type]]

Served(ps, role, type) ==
    LET template == Template(ps, role, type)
    IN IF template = Unset THEN [ps EXCEPT ![role] = [@ EXCEPT !.type = type]]
       ELSE [ps EXCEPT ![role] = Routed(ps[role], template, type)]

(* One role after the other, each on what the ones before it left.         *)
EachRole(step(_, _), ps) == FoldLeft(step, ps, Roles)

(* normalizeAllProviderConfigs                                             *)
Normalized(ps) == EachRole(LAMBDA acc, r : Served(acc, r, acc[r].type), ps)

(* loadRules: the roles that the project's own file names are locked.      *)
(* Mutant: the global file is read over the project's preset.              *)
LayeredGlobalLast(global, project) ==
    Merge(Merge(Merge(Merge([providers |-> BaseProviders, routing |-> "on"], Preset(global.profile)),
                      Preset(project.profile)), global), project)

Layered(global, project) ==
    Merge(Merge(Merge(Merge([providers |-> BaseProviders, routing |-> "on"], Preset(global.profile)),
                      global), Preset(project.profile)), project)

(* Mutant: the roles of the preset are locked too.                         *)
LockedByPreset(project) ==
    IF project.profile = "none" THEN {r \in RoleSet : project.providers[r] # Unset} ELSE RoleSet

Locked(project) == {r \in RoleSet : project.providers[r] # Unset}

Loaded(global, project) ==
    LET merged == Layered(global, project)
    IN [providers |-> Normalized(merged.providers), routing |-> merged.routing,
        locked |-> Locked(project)]

(* applySimpleProviderEnv                                                  *)
Generic(ps, provider) ==
    CASE provider = "none" -> ps
      [] provider = "local" ->
           EachRole(LAMBDA acc, r : Served(acc, r,
                        IF r \in {"planner", "reviewer"} THEN "agy-cli" ELSE "codex-cli"), ps)
      [] OTHER -> EachRole(LAMBDA acc, r : Served(acc, r, provider), ps)

(* applyDynamicProviderRouting: not of a role that is locked, that the     *)
(* environment names, or for which there is no template.                   *)
(* Mutant: the lock is not asked for.                                      *)
RoutedUnlocked(rules, env, targets) ==
    IF rules.routing = "off" THEN rules.providers
    ELSE EachRole(LAMBDA acc, r :
           IF env.roles[r] # "none" \/ Template(acc, r, targets[r]) = Unset
           THEN acc ELSE [acc EXCEPT ![r] = Routed(acc[r], Template(acc, r, targets[r]), targets[r])],
           rules.providers)

RoutedRoles(rules, env, targets) ==
    IF rules.routing = "off" THEN rules.providers
    ELSE EachRole(LAMBDA acc, r :
           IF r \in rules.locked \/ env.roles[r] # "none" \/ Template(acc, r, targets[r]) = Unset
           THEN acc ELSE [acc EXCEPT ![r] = Routed(acc[r], Template(acc, r, targets[r]), targets[r])],
           rules.providers)

(* applyProviderOverride and applyOpenAICompatibleOverride                 *)
Controlled(entry, env) == [entry EXCEPT !.retries = Over(entry.retries, env.retries)]
Connected(entry, env) ==
    IF entry.type = "openai-compatible" THEN [entry EXCEPT !.model = Over(entry.model, env.model)] ELSE entry

(* applyExplicitEnvOverrides                                               *)
ExplicitType(ps, env, r) == IF env.roles[r] = "none" THEN ps ELSE Served(ps, r, env.roles[r])
Explicit(ps, env) ==
    LET typed == EachRole(LAMBDA acc, r : ExplicitType(acc, env, r), ps)
    IN [n \in DOMAIN typed |->
          IF n \in RoleSet THEN Connected(Controlled(typed[n], env), env) ELSE typed[n]]

(* prepareRuntimeRules, which every stage of a run applies to the rules    *)
(* that the stage before it left (rerouteRuntimeForPlan).                  *)
Prepared(rules, env, targets) ==
    LET generic == [rules EXCEPT !.providers = Generic(rules.providers, env.provider)]
    IN [rules EXCEPT !.providers = Explicit(RoutedRoles(generic, env, targets), env)]

Run(global, project, env, planning, implementation) ==
    Prepared(Prepared(Loaded(global, project), env, planning), env, implementation)

(* A provider chosen for a role serves it in both stages: the one that the *)
(* environment names for it, or else the one of the project's file unless  *)
(* the environment names one for all.                                      *)
ChoiceIsServed(global, project, env, planning, implementation) ==
    LET after == Run(global, project, env, planning, implementation).providers
    IN \A r \in RoleSet :
         /\ env.roles[r] # "none" => after[r].type = env.roles[r]
         /\ env.roles[r] = "none" /\ env.provider = "none" /\ project.providers[r].type # "none"
              => after[r].type = project.providers[r].type

(* Whoever serves a role, it keeps the retries it was given.               *)
ControlsAreKept(global, project, env, planning, implementation) ==
    LET given == Layered(global, project).providers
        after == Run(global, project, env, planning, implementation).providers
    IN \A r \in RoleSet : after[r].retries = Over(given[r].retries, env.retries)

(* A role that the layers match with the command of its type, or could     *)
(* match because some entry of the type runs it, is never routed to one    *)
(* provider with the command of another (an environment that names a type  *)
(* no entry has left makes such a pair, and so do layers that give a type  *)
(* to other roles than all those that ran its command).                    *)
CommandIsOfType(ps, r) ==
    CommandOf(ps[r].type) = "none" \/ ps[r].command = CommandOf(ps[r].type)
CommandsAreMatched(global, project, env, planning, implementation) ==
    LET given == Layered(global, project).providers
        loaded == Loaded(global, project).providers
        after == Run(global, project, env, planning, implementation).providers
        matchable(r) == \E n \in DOMAIN given :
            given[n].type = given[r].type /\ given[n].command = CommandOf(given[r].type)
    IN /\ \A r \in RoleSet : matchable(r) => CommandIsOfType(loaded, r)
       /\ (env.provider = "none" /\ \A r \in RoleSet : env.roles[r] = "none")
            => ((\A r \in RoleSet : CommandIsOfType(loaded, r))
                  => \A r \in RoleSet : CommandIsOfType(after, r))

----------------------------------------------------------------------------
(* The commands that write the project's file.                             *)

(* writeProjectPreset                                                      *)
WithPreset(project, name) == Layer(NoLayer.providers, "none", name)

(* applySetupChoices: "auto" leaves a role to the layers below.            *)
(* Mutant: the profile stays.                                              *)
WithChoicesKept(project, choices, routing) ==
    Layer([r \in RoleSet |-> IF choices[r] = "auto" THEN Unset
                             ELSE [Unset EXCEPT !.type = choices[r]]], routing, project.profile)

WithChoices(project, choices, routing) ==
    Layer([r \in RoleSet |-> IF choices[r] = "auto" THEN Unset
                             ELSE [Unset EXCEPT !.type = choices[r]]], routing, "none")

(* What was chosen is what loads, whatever the project's file said before  *)
(* and the global one says: the preset's types, unlocked; or the types of  *)
(* the setup, locked, and those of the global file for the others.         *)
CommandsTakeEffect(global, project, name, choices) ==
    LET preset == Loaded(global, WithPreset(project, name))
        setup == Loaded(global, WithChoices(project, choices, "on"))
        below == Loaded(global, NoLayer)
    IN /\ \A i \in 1 .. 4 : preset.providers[Roles[i]].type = PresetTypes(name)[i]
       /\ preset.locked = {} /\ preset.routing = Preset(name).routing
       /\ setup.locked = {r \in RoleSet : choices[r] # "auto"} /\ setup.routing = "on"
       /\ \A r \in RoleSet : setup.providers[r].type =
            IF choices[r] = "auto" THEN below.providers[r].type ELSE choices[r]

(* buildToolCommandsConfig: a tool's command is enabled, may name a script *)
(* and may say more; only "auto" keeps what else it says.                  *)
Command(enabled, script, more) == [enabled |-> enabled, script |-> script, more |-> more]
NoCommand == Command("none", "none", "none")

Selected(current, mode, script) ==
    CASE mode = "none" -> current
      [] mode = "auto" -> Command("yes", "none", current.more)
      [] mode = "disabled" -> Command("no", "none", "none")
      [] mode = "script" -> Command("yes", script, "none")

(* A tool runs as it was chosen last: a script chosen earlier for the      *)
(* project is gone with "auto" and with another script, and comes back     *)
(* only from the global file.                                              *)
ToolRunsAsChosen(global, current, first, second) ==
    LET saved == Selected(Selected(current, first, "s1"), second, "s2")
        runs == MergeEntry(global, saved)
    IN /\ second # "none" => (runs.enabled = "yes" <=> second # "disabled")
       /\ second = "script" => runs.script = "s2"
       /\ second \in {"auto", "disabled"} => runs.script = global.script
       /\ second = "auto" => saved.more = Selected(current, first, "s1").more

----------------------------------------------------------------------------
(* The configuration as the dashboard reads and saves it.  A file has one  *)
(* secret, one plain field, and a list of hooks with a secret each.        *)

Hook(url, secret) == [url |-> url, secret |-> secret]
File(key, plain, hooks) == [key |-> key, plain |-> plain, hooks |-> hooks]
NoHooks == [set |-> FALSE, list |-> <<>>]

(* mergeConfig, with a list.                                               *)
MergeFile(base, over) ==
    File(Over(base.key, over.key), Over(base.plain, over.plain),
         IF over.hooks.set THEN over.hooks ELSE base.hooks)

(* maskSecretFields                                                        *)
MaskOf(secret) == IF secret = "none" THEN "none" ELSE "mask"
Masked(file) ==
    LET list == file.hooks.list
    IN File(MaskOf(file.key), file.plain,
            [set |-> file.hooks.set,
             list |-> [i \in DOMAIN list |-> Hook(list[i].url, MaskOf(list[i].secret))]])

(* restoreMaskedSecrets: a field that is masked is the one that is there,  *)
(* in a list the one at the same place, or is dropped.                     *)
(* Mutant: a mask with nothing behind it stays.                            *)
RestoredLoosely(incoming, existing) ==
    LET back(value, old) == IF value = "mask" /\ old # "none" THEN old ELSE value
        list == incoming.hooks.list
        there == existing.hooks.list
    IN File(back(incoming.key, existing.key), incoming.plain,
            [set |-> incoming.hooks.set,
             list |-> [i \in DOMAIN list |->
                Hook(list[i].url, back(list[i].secret, IF i \in DOMAIN there THEN there[i].secret ELSE "none"))]])

Restored(incoming, existing) ==
    LET back(value, old) == IF value = "mask" THEN old ELSE value
        list == incoming.hooks.list
        there == existing.hooks.list
    IN File(back(incoming.key, existing.key), incoming.plain,
            [set |-> incoming.hooks.set,
             list |-> [i \in DOMAIN list |->
                Hook(list[i].url, back(list[i].secret, IF i \in DOMAIN there THEN there[i].secret ELSE "none"))]])

(* POST /config, of what GET /config answered and an edit changed.         *)
SavedFile(project, payload) == MergeFile(project, Restored(payload, project))

Edited(file, edit) ==
    CASE edit = "plain" -> [file EXCEPT !.plain = "new"]
      [] edit = "key" -> [file EXCEPT !.key = "new"]
      [] edit = "append" -> [file EXCEPT !.hooks = [set |-> TRUE, list |-> Append(@.list, Hook("u9", "new"))]]
      [] OTHER -> file

SecretsOf(file) == {file.key} \cup {file.hooks.list[i].secret : i \in DOMAIN file.hooks.list}

(* Saving back what was read loses no secret and changes nothing but what  *)
(* was edited, although the answer has the lower layers in it and the      *)
(* secrets not.  Only the list of hooks that the project's file did not    *)
(* have itself comes back without them, since a list is replaced whole.    *)
SavingKeepsSecrets(global, project, edit) ==
    LET before == MergeFile(global, project)
        saved == SavedFile(project, Edited(Masked(before), edit))
        after == MergeFile(global, saved)
        wanted == Edited(before, edit)
    IN /\ "mask" \notin SecretsOf(saved)
       /\ after.key = wanted.key /\ after.plain = wanted.plain
       /\ (project.hooks.set \/ global.hooks.list = <<>>) => after.hooks.list = wanted.hooks.list

----------------------------------------------------------------------------
(* The .env file: its lines as "K=v", "export K=v", "K = v" or a comment.  *)

Line(key, shape, value) == [key |-> key, shape |-> shape, value |-> value]

(* upsertEnvFile: a change is a value, "remove" or "keep".                 *)
(* Mutant: a key that is there twice is written once.                      *)
Matches(line, keys) == line.shape \in {"plain", "export"} /\ line.key \in keys

Rewritten(line, changes) ==
    IF ~Matches(line, DOMAIN changes) \/ changes[line.key] = "keep" THEN <<line>>
    ELSE IF changes[line.key] = "remove" THEN <<>>
    ELSE <<Line(line.key, "plain", changes[line.key])>>

UpsertedFirst(lines, changes) ==
    LET first(i) == \A j \in 1 .. i - 1 : ~Matches(lines[j], {lines[i].key})
    IN FlattenSeq([i \in DOMAIN lines |-> IF first(i) THEN Rewritten(lines[i], changes) ELSE <<lines[i]>>])
         \o FlattenSeq([i \in 1 .. Len(SetToSeq(DOMAIN changes)) |->
                LET k == SetToSeq(DOMAIN changes)[i]
                IN IF changes[k] \in {"keep", "remove"} \/ \E j \in DOMAIN lines : Matches(lines[j], {k})
                   THEN <<>> ELSE <<Line(k, "plain", changes[k])>>])

Upserted(lines, changes) ==
    FlattenSeq([i \in DOMAIN lines |-> Rewritten(lines[i], changes)])
      \o FlattenSeq([i \in 1 .. Len(SetToSeq(DOMAIN changes)) |->
             LET k == SetToSeq(DOMAIN changes)[i]
             IN IF changes[k] \in {"keep", "remove"} \/ \E j \in DOMAIN lines : Matches(lines[j], {k})
                THEN <<>> ELSE <<Line(k, "plain", changes[k])>>])

(* parseEnvContent: the last line of a key is the one that counts, and     *)
(* what quoteEnvValue escaped in a value stays escaped.                    *)
ReadBack(value) == IF value = "quoted" THEN "escaped" ELSE value
Parsed(lines, key) ==
    LET found == SelectSeq(lines, LAMBDA l : l.shape # "comment" /\ l.key = key)
    IN IF found = <<>> THEN "none" ELSE ReadBack(found[Len(found)].value)

(* loadEnvironment: what the process was started with comes first.         *)
Environment(process, lines, key) == IF process = "none" THEN Parsed(lines, key) ELSE process

(* The next start sees what was changed, whichever way and however often   *)
(* the key was written before, and everything else as it was (a key is     *)
(* removed only from lines without blanks before the sign).                *)
EnvIsUpdated(process, lines, changes) ==
    LET saved == Upserted(lines, changes)
        spaced(k) == \E i \in DOMAIN lines : lines[i].shape = "spaced" /\ lines[i].key = k
    IN /\ \A k \in DOMAIN changes :
            Environment(process, saved, k) =
              IF process # "none" \/ changes[k] = "keep" THEN Environment(process, lines, k)
              ELSE IF changes[k] = "remove" THEN IF spaced(k) THEN Environment(process, saved, k) ELSE "none"
              ELSE IF (\E i \in DOMAIN lines : Matches(lines[i], {k})) /\ spaced(k)
              THEN Environment(process, saved, k) ELSE ReadBack(changes[k])
       /\ LET kept(seq) == SelectSeq(seq, LAMBDA l : ~Matches(l, DOMAIN changes))
          IN kept(saved) = kept(lines)
       /\ Upserted(saved, changes) = saved
=============================================================================
