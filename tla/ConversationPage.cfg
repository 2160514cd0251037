SPECIFICATION FairSpec
CONSTANTS
    c1 = c1
    c2 = c2
    c3 = c3
    Conversation = {c1, c2, c3}
    None = None
    Status = {401, 404}
    MAX_ENTRIES = 2
    StoredIndex <- MCIndex
    MaxQuestions = 2
    MaxSockets = 2
    MaxMoves = 3
INVARIANTS
    TypeOK
    WaitingIsBacked
    ScreenShowsOneConversation
PROPERTIES
    NothingIsTakenBack
    EveryQuestionSettles
CHECK_DEADLOCK FALSE
