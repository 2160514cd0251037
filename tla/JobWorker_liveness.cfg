SPECIFICATION FairSpec
CONSTANTS
    j1 = j1
    j2 = j2
    w1 = w1
    w2 = w2
    Jobs <- TwoJobs
    Workers <- TwoWorkers
    MaxAttempts = 2
    DrainLimit = 1
    MaxFaults = 1
    MaxOverwrites = 0
PROPERTIES
    SettledOrStranded
