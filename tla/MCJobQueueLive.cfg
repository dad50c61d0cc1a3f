CONSTANTS
    sync = sync
    A = A
    B = B
    p1 = p1
    p2 = p2
    a1 = a1
    a2 = a2
    c1 = c1
    c2 = c2
    NoPass = NoPass
    Jobs <- TwoJobs
    Syncs <- NoSyncs
    Workspaces <- MCWorkspaces
    Workspace <- TwoWorkspaces
    Passes <- TwoPasses
    Approvers <- Nobody
    Cancellers <- Nobody
    Concurrency = 1
    MaxAsks = 0
    MaxFaults = 1
    MaxPauses = 1
    MaxRestarts = 1
SPECIFICATION LiveSpec
PROPERTIES QueuedIsRun
