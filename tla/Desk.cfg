SPECIFICATION FairSpec
CONSTANTS
    q1 = q1
    q2 = q2
    w1 = w1
    r1 = r1
    r2 = r2
    Request <- MCRequest
    Worker <- MCWorker
    Task <- MCTask
    Maker <- MCMaker
    Owner <- MCOwner
    Reviewer <- MCReviewer
    Shifts <- MCShifts
    Subject = {s1, s2}
    NoOwner = NoOwner
    NoScope = NoScope
    Mailbox = {m1}
    Blank = Blank
    Jobs = {j1}
    MaxAttempts = 2
    Item = {i1}
    MaxWork = 2
    MaxFaults = 2
    MaxRestarts = 1
INVARIANTS
    TypeOK
    RequestsAreHonoured
    ReadsAreOwned
    HandedOutOnce
PROPERTIES
    EveryTaskEnds
CHECK_DEADLOCK FALSE
