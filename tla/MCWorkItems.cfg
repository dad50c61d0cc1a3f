CONSTANTS
    s1 = s1
    s2 = s2
    Sessions <- MCSessions
    NodeCount = 2
    MaxJobs = 3
    MaxOps = 4
    MaxMishaps = 1
SYMMETRY SessionSymmetry
SPECIFICATION Spec
INVARIANTS TypeOK WorkIsEarned UndisturbedIsExact
PROPERTIES ProgressIsKept
CHECK_DEADLOCK FALSE
