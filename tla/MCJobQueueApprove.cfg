CONSTANTS
    sync = sync
    A = A
    B = B
    p1 = p1
    p2 = p2
    a1 = a1
    a2 = a2
    c1 = c1
    c2 = c2
    NoPass = NoPass
    Jobs <- OneJob
    Syncs <- NoSyncs
    Workspaces <- MCWorkspaces
    Workspace <- OneWorkspace
    Passes <- OnePass
    Approvers <- OneApprover
    Cancellers <- OneCanceller
    Concurrency = 1
    MaxAsks = 1
    MaxFaults = 0
    MaxPauses = 0
    MaxRestarts = 0
SPECIFICATION Spec
PROPERTIES CancelledForever
