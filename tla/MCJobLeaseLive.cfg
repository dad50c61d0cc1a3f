CONSTANTS
    w1 = w1
    w2 = w2
    NoWorker = NoWorker
    Workers <- MCWorkers
    Jobs <- OneJob
    Eligible <- AllEligible
    Chatty <- Silent
    LeaseTtl = 1
    MaxAttempts = 2
    MaxLeases = 4
SPECIFICATION FairSpec
PROPERTIES ClaimedIsSettled QueuedIsClaimed
