SPECIFICATION Spec
CONSTANTS
    s1 = s1
    s2 = s2
    Sockets <- TwoSockets
    NoSocket = NoSocket
    Kinds = {"ask", "ask_in_conversation", "invalid", "oversize"}
    MaxQuestions = 2
    MaxConnections = 2
    MaxPieces = 1
    MAX_ATTEMPTS = 1
    MaxDrops = 1
SYMMETRY Symmetry
INVARIANTS
    TypeOK
    RegistryIsExact
    AnswersReachTheirQuestion
    WaitingIsTimed
