CONSTANTS
    w1 = w1
    w2 = w2
    NoWorker = NoWorker
    Workers <- MCWorkers
    Jobs <- OneJob
    Eligible <- AllEligible
    Chatty <- MCWorkers
    LeaseTtl = 1
    MaxAttempts = 2
    MaxLeases = 2
SYMMETRY WorkerSymmetry
SPECIFICATION Spec
INVARIANTS TypeOK LeaseShape MutatedWorkIsFenced AckedIsFinished
PROPERTIES OnlyLogsReopen ImplementsLifecycle
