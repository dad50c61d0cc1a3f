SPECIFICATION LiveSpec
CONSTANTS
    MaxIterations = 2
    MaxRetries = 3
    MaxCandidates = 6
    MaxAttempts = 2
    MaxFaults = 2
INVARIANTS TypeOK WrittenIsVouched PausedIsResumable
PROPERTIES CompletedIsWritten AcceptedIsKept RunEnds
CHECK_DEADLOCK FALSE
