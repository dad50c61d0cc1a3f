SPECIFICATION RegSpec
CONSTANTS
    j1 = j1
    j2 = j2
    RegJobs <- TwoJobs
    NoRegJob = NoRegJob
    MaxChanges = 1
PROPERTY DrainedTakesNothing
