SPECIFICATION FairSpec
CONSTANTS
    s1 = s1
    s2 = s2
    Sockets <- TwoSockets
    NoSocket = NoSocket
    Kinds = {"ask", "oversize"}
    MaxQuestions = 2
    MaxConnections = 1
    MaxPieces = 0
    MAX_ATTEMPTS = 1
    MaxDrops = 0
PROPERTIES
    NothingIsLeftBehind
    GivesUpInAnOutage
