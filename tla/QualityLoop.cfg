SPECIFICATION FairSpec
CONSTANTS
    r = r
    x = x
    y = y
    None = None
    Jobs <- MCJobs
    Kind <- MCKind
    Scenarios <- MCScenarios
    Tokens <- MCTokens
    StructuralStop = 2
    MaxReworks = 1
INVARIANTS
    ServedIsBest
    EscalationEarned
PROPERTIES
    GoodWhatKept
    JobsSettle
CHECK_DEADLOCK FALSE
