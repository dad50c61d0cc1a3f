SPECIFICATION Spec
CONSTANTS
    MaxIterations = 2
    MaxRetries = 3
    MaxCandidates = 6
    MaxAttempts = 2
    MaxFaults = 2
INVARIANT FailedIsResumable
CHECK_DEADLOCK FALSE
