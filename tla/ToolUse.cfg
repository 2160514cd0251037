SPECIFICATION FairSpec
CONSTANTS
    x = x
    y = y
    z = z
    Names <- ThreeNames
    Literal = Literal
    NoStep = NoStep
    MAX_STEPS = 2
    MaxSteps = 3
    MaxToolCalls = 2
CHECK_DEADLOCK FALSE
INVARIANTS
    TypeOK
    SpendsItsBudget
    RunsFollowTheDefinition
PROPERTIES
    EveryRunEnds
