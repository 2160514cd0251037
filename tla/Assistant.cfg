SPECIFICATION FairSpec
CONSTANTS
    r1 = r1
    r2 = r2
    Requests <- TwoRequests
    Conversations = {c1}
    NoConversation = NoConversation
    Hidden = Hidden
    NoValue = NoValue
    Confidence = {0, 1}
    MinConfidence = 1
    MaxTurns = 4
    MaxFaults = 1
CHECK_DEADLOCK FALSE
INVARIANTS
    TypeOK
    TurnsAreInOrder
    RepliesAreHonest
PROPERTIES
    TurnsAreOnlyAppended
    EveryRequestEnds
