SPECIFICATION Spec
SYMMETRY Sym
CHECK_DEADLOCK FALSE
CONSTANTS
    Executors = {w1, w2}
    Roots = {r1, r2}
    PhaseCount = 2
    MaxClaims = 2
    Procs = {w1, w2, p3}
    NoOwner = none
    LockTtl = 1
    MaxWrites = 4
    RegJobs = {j1, j2}
    NoRegJob = none
    MaxChanges = 2
    SoloFiles = {"a", "b"}
    SoloRuns = {w1, w2}
    MaxSoloEdits = 2
    Retries = 2
    Sources = {"a", "b"}
    MaxClock = 2
    Settings = {"small", "large"}
    MemoryRuns = {"r1", "r2", "r3", "r4"}
    MaxEntries = 2
    ProviderTypes = {"agy-cli", "claude-cli", "codex-cli"}
    SafeType = "agy-cli"
    Calls = {w1, w2, p3}
    Iterations = 2
    Appliers = {w1, w2}
    MaxResumes = 1
    Askers = {w1, w2, p3, p4}
    RepoIds = {i1, i2}
    KeptDays = 0
    ReadLimit = 2
    LastDay = 1
INVARIANTS
    WorkRules CodeRules ExecutionIsSound LockIsSafe RecordsAreTrue UserWorkIsKept
    CommandIsContained KnowledgeIsTrue CallsAreServed
PROPERTIES
    StepsAreSound
