SPECIFICATION FairSpec
CONSTANTS
    priced = priced
    odd = odd
    Model = {priced, odd}
    LLMUsage <- MCUsage
    Price <- MCPrice
    Prose = {odd}
    Omitted = Omitted
    MAX_SERIES = 1
    web = web
    socket = socket
    Tasks = {web, socket}
    HttpTasks = {web}
    NoSpan = NoSpan
    MaxQuestions = 2
    MAX_CALLS <- MCCalls
    MaxDeltas = 2
INVARIANTS
    TypeOK
    TracesAreRequests
    CallsAreCountedOnce
    OnlyTransientFailuresAreRetryable
PROPERTIES
    EveryRequestIsRecorded
CHECK_DEADLOCK FALSE
