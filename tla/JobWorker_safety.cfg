SPECIFICATION Spec
CONSTANTS
    j1 = j1
    j2 = j2
    w1 = w1
    w2 = w2
    Jobs <- TwoJobs
    Workers <- TwoWorkers
    MaxAttempts = 2
    DrainLimit = 2
    MaxFaults = 1
    MaxOverwrites = 1
SYMMETRY Symmetry
INVARIANTS
    TypeOK
    EveryJobHasItsPlace
    AttemptsAreAccounted
PROPERTIES
    NeverOvertaken
    ImplementsJobQueue
