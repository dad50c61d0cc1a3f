----------------------------- MODULE CommandLine -----------------------------
(* How the words of a command line are read (cli/arg-parser.ts) and what   *)
(* the mode of a run makes of what they leave open                         *)
(* (core/workflow-modes.ts).  A word is a string; what starts with a dash  *)
(* is in Dashed.                                                           *)
EXTENDS Integers, Sequences, FiniteSets, SequencesExt

(* A command: its words, and whether a target follows: "none", "any" word, *)
(* or a "word" that must not start with a dash.                            *)
Pattern(words, target) == [words |-> words, target |-> target]
Plain(heads, subs, target) == {Pattern(<<h, s>>, target) : h \in heads, s \in subs}

SoloPatterns ==
    {Pattern(<<"apply", "--from-artifact">>, "any"), Pattern(<<"job", "list">>, "none"),
     Pattern(<<"job", "show">>, "any"), Pattern(<<"job", "logs">>, "any"), Pattern(<<"undo">>, "any")}
SavedPatterns ==
    {Pattern(<<"commit">>, "word"), Pattern(<<"retry">>, "word"), Pattern(<<"fix", "--from-run">>, "any")}
ToolPatterns ==
    {Pattern(<<c>>, "none") : c \in {"doctor", "fix-checks", "explain-routing", "setup"}}
      \cup {Pattern(<<"setup", "--check">>, "none"), Pattern(<<"runs", "show">>, "any"),
            Pattern(<<"config", "show">>, "none"), Pattern(<<"config", "use">>, "any")}
      \cup Plain({"runs"}, {"latest", "list"}, "none")
WorkPatterns ==
    Plain({"work"}, {"create", "show", "branch", "commit", "pr", "from-issue", "from-pr"}, "any")
      \cup Plain({"work"}, {"list", "schedule", "metrics"}, "none")
      \cup {Pattern(<<"work", "inbox", "sync">>, "none")}
      \cup {Pattern(<<"work", "worktree", s>>, "any") : s \in {"create", "remove"}}
      \cup {Pattern(<<"work", "ci", s>>, "any") : s \in {"watch", "fix"}}
Patterns == SoloPatterns \cup SavedPatterns \cup ToolPatterns \cup WorkPatterns

(* What must be a command once its first word is there.                    *)
Heads == {p.words[1] : p \in Patterns} \ {"fix"}

Modes == {"implement", "review", "fix"}
Solos == {"run", "quick", "safe"}

Switches ==
    {"--dry-run", "--json", "--help", "--global", "--chat", "--interactive", "--pause-after-plan",
     "--pause-after-generate", "--manual-review", "--staged", "--failing-checks", "--force",
     "--allow-dirty", "--stash", "--worktree", "--resume-last", "--9router"}
Valued == {"--save", "--files", "--cwd", "--config", "--provider", "--resume", "--stage", "--base"}
Dashed == Switches \cup Valued
            \cup {"--job", "--fix-verification", "--max-parallel", "--write", "--server", "--token",
                  "--once", "--check", "--from-run", "--from-artifact", "--push"}

(* What is read so far: "at" is the next word.                             *)
Start ==
    [at |-> 1, command |-> <<>>, mode |-> "standard", solo |-> "none", worker |-> FALSE,
     switches |-> {}, values |-> {}, words |-> <<>>, error |-> FALSE]
Failed(opts) == [opts EXCEPT !.error = TRUE]
Past(opts, n) == [opts EXCEPT !.at = opts.at + n]

Word(args, i) == IF i \in DOMAIN args THEN args[i] ELSE "none"
Follows(args, i, words) ==
    i + Len(words) - 1 <= Len(args) /\ \A k \in DOMAIN words : args[i + k - 1] = words[k]

(* The longest pattern that begins here.                                   *)
Begun(args, i) == {p \in Patterns : Follows(args, i, p.words)}
Longest(patterns) == CHOOSE p \in patterns : \A q \in patterns : Len(q.words) <= Len(p.words)

ReadPattern(args, opts, p) ==
    LET n == Len(p.words)
        target == Word(args, opts.at + n)
        command == [opts EXCEPT !.command = Append(p.words, IF p.target = "none" THEN "none" ELSE target),
                                !.mode = IF p.words[1] = "fix" THEN "fix" ELSE opts.mode]
    IN IF p.target = "none" THEN Past(command, n)
       ELSE IF target = "none" \/ (p.target = "word" /\ target \in Dashed) THEN Failed(opts)
       ELSE Past(command, n + 1)

(* continue and work dispatch read the flags of their own that follow at   *)
(* once; "own" gives for each how many words it takes.                     *)
OwnFlags(head) == IF head = "continue" THEN [f \in {"--job", "--fix-verification"} |-> IF f = "--job" THEN 2 ELSE 1]
                  ELSE [f \in {"--max-parallel", "--write", "--server"} |-> IF f = "--write" THEN 1 ELSE 2]
ReadOwn(args, from, own) ==
    LET end[i \in from .. Len(args) + 2] ==
            IF Word(args, i) \in DOMAIN own THEN end[i + own[Word(args, i)]] ELSE i
    IN end[from]
Incomplete(args, from, to, own) ==
    to > Len(args) + 1
      \/ ("--job" \in DOMAIN own /\ \E i \in from .. to - 1 : args[i] = "--job" /\ args[i + 1] \in Dashed)

ReadWithOwn(args, opts, words) ==
    LET from == opts.at + Len(words)
        to == ReadOwn(args, from, OwnFlags(words[1]))
        taken == IF to > Len(args) + 1 THEN <<>> ELSE SubSeq(args, from, to - 1)
    IN IF Incomplete(args, from, to, OwnFlags(words[1])) THEN Failed(opts)
       ELSE [opts EXCEPT !.command = words \o taken, !.at = to]

(* diff explain: a target it names "last" is left for the task.            *)
ReadExplain(args, opts) ==
    LET next == Word(args, opts.at + 2)
        target == IF next = "none" \/ next \in Dashed THEN "last" ELSE next
    IN IF Word(args, opts.at + 1) # "explain" THEN Failed(opts)
       ELSE Past([opts EXCEPT !.command = <<"diff", "explain", target>>], IF target = "last" THEN 2 ELSE 3)

ReadSolo(args, opts) ==
    IF opts.command # <<>> THEN Failed(opts)
    ELSE Past([opts EXCEPT !.command = <<args[opts.at], "none">>, !.solo = args[opts.at]], 1)

(* A flag of a worker, which takes no other words.                         *)
ReadWorkerFlag(args, opts) ==
    LET flag == args[opts.at]
    IN CASE flag = "--once" -> Past([opts EXCEPT !.command = Append(opts.command, flag)], 1)
         [] flag = "--token" /\ Word(args, opts.at + 1) # "none" ->
              Past([opts EXCEPT !.command = opts.command \o <<flag, args[opts.at + 1]>>], 2)
         [] OTHER -> Failed(opts)

(* A value replaces the one before it, but paths are collected.            *)
(* Mutant: the value is left for the task.                                 *)
ReadFlagAlone(args, opts) ==
    Past([opts EXCEPT !.values = {v \in opts.values : v[1] # args[opts.at]} \cup {<<args[opts.at], "yes">>}], 1)

ReadValue(args, opts) ==
    LET flag == args[opts.at]
        value == Word(args, opts.at + 1)
        old == IF flag = "--files" THEN opts.values ELSE {v \in opts.values : v[1] # flag}
    IN IF value = "none" \/ (flag = "--files" /\ value \in Dashed) THEN Failed(opts)
       ELSE Past([opts EXCEPT !.values = old \cup {<<flag, value>>}], 2)

(* A step of parseArgs.                                                    *)
(* Mutant: a mode starts the switches anew.                                *)
ReadModeAnew(args, opts) == Past([opts EXCEPT !.mode = args[opts.at], !.switches = {}], 1)

ReadMode(args, opts) == Past([opts EXCEPT !.mode = args[opts.at]], 1)

ReadWord(args, opts) ==
    LET w == args[opts.at]
    IN IF w = "--" THEN Past(opts, 1)
       ELSE IF w \in Solos THEN ReadSolo(args, opts)
       ELSE IF w = "continue" THEN ReadWithOwn(args, opts, <<"continue">>)
       ELSE IF w = "work" /\ Word(args, opts.at + 1) = "dispatch" THEN ReadWithOwn(args, opts, <<"work", "dispatch">>)
       ELSE IF w = "diff" THEN ReadExplain(args, opts)
       ELSE IF w = "worker"
       THEN IF Word(args, opts.at + 1) # "start" THEN Failed(opts)
            ELSE Past([opts EXCEPT !.command = <<"worker", "start">>, !.worker = TRUE], 2)
       ELSE IF Begun(args, opts.at) # {} THEN ReadPattern(args, opts, Longest(Begun(args, opts.at)))
       ELSE IF w \in Heads THEN Failed(opts)
       ELSE IF w \in Modes THEN ReadMode(args, opts)
       ELSE IF w \in {"--save", "--files"} THEN ReadValue(args, opts)
       ELSE IF w \in {"--help", "--failing-checks"} THEN Past([opts EXCEPT !.switches = @ \cup {w}], 1)
       ELSE IF opts.worker THEN IF w \in Dashed THEN ReadWorkerFlag(args, opts) ELSE Failed(opts)
       ELSE IF w \in Valued THEN ReadValue(args, opts)
       ELSE IF w \in Switches THEN Past([opts EXCEPT !.switches = @ \cup {w}], 1)
       ELSE Past([opts EXCEPT !.words = Append(@, w)], 1)

Read(args) ==
    FoldLeft(LAMBDA opts, i : IF opts.error \/ opts.at > Len(args) \/ opts.at # i THEN opts
                              ELSE ReadWord(args, opts),
             Start, [i \in DOMAIN args |-> i])

(* What is refused once all is read.                                       *)
HasValue(opts, flag) == \E v \in opts.values : v[1] = flag
Refused(opts) ==
    \/ opts.error
    \/ opts.solo # "none" /\ opts.words = <<>>
    \/ HasValue(opts, "--save") /\ "--json" \notin opts.switches
    \/ HasValue(opts, "--stage") /\ (opts.command = <<>> \/ opts.command[1] # "retry")

(* workflowModeDefaults and applyWorkflowModeDefaults: a mode says what no *)
(* flag says.                                                              *)
Flags(opts) ==
    LET manual == "--manual-review" \in opts.switches
    IN [dryRun |-> "--dry-run" \in opts.switches \/ opts.mode = "review",
        interactive |-> manual \/ "--interactive" \in opts.switches \/ opts.mode \in {"review", "fix"},
        afterPlan |-> manual \/ "--pause-after-plan" \in opts.switches,
        afterGenerate |-> manual \/ "--pause-after-generate" \in opts.switches \/ opts.mode = "review"]

(* parseArgs                                                               *)
Options(args) ==
    LET opts == Read(args)
    IN IF Refused(opts) THEN [refused |-> TRUE]
       ELSE [refused |-> FALSE, command |-> opts.command, mode |-> opts.mode, words |-> opts.words,
             switches |-> opts.switches, values |-> opts.values, flags |-> Flags(opts)]

(* Whoever asks for a dry run gets one, or an error, wherever the words     *)
(* around it stand, unless a word before it takes it for its value.        *)
Takers ==
    Valued \cup {Last(p.words) : p \in {q \in Patterns : q.target = "any"}}
      \cup {"--job", "--max-parallel", "--server", "--token"}
DryRunIsKept(args) ==
    (\E i \in DOMAIN args : args[i] = "--dry-run" /\ (i = 1 \/ args[i - 1] \notin Takers))
      => (Refused(Read(args)) \/ Flags(Read(args)).dryRun)

(* Flags may stand anywhere: what is asked by a command and a flag after   *)
(* it is what is asked by the flag and the command after it (a worker's    *)
(* command takes no flags but its own after it; and the flags of continue  *)
(* and of work dispatch count only right after them).                      *)
FlagsCommute(command, flag) == Options(command \o flag) = Options(flag \o command)

(* No word is passed over, and none is read twice.                         *)
AllIsRead(args) == LET opts == Read(args) IN ~opts.error => opts.at = Len(args) + 1
=============================================================================
