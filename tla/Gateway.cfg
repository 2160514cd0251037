SPECIFICATION Spec
CONSTANTS
    r1 = r1
    r2 = r2
    h1 = h1
    h2 = h2
    alice = alice
    bob = bob
    None = None
    Subjects = {alice, bob}
    Requests <- TwoRequests
    Handshakes <- TwoHandshakes
    Second = 2
    WindowSeconds = 2
    TtlSeconds = 1
    Limit = 1
    MaxTime = 6
    MaxSkew = 1
    MaxFaults = 1
SYMMETRY Symmetry
CHECK_DEADLOCK FALSE
INVARIANTS
    TypeOK
    LimitIsKept
    NothingPilesUp
PROPERTIES
    TicketsAdmitOnce
