CONSTANTS
    w1 = w1
    w2 = w2
    NoWorker = NoWorker
    Workers <- MCWorkers
    Jobs <- OneJob
    Eligible <- AllEligible
    Chatty <- OneChatty
    LeaseTtl = 1
    MaxAttempts = 1
    MaxLeases = 1
SPECIFICATION Spec
PROPERTY FinishedForever
