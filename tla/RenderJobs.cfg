SPECIFICATION FairSpec
CONSTANTS
    None = None
    Stub = Stub
    c1 = c1
    c2 = c2
    v1 = v1
    Contents = {c1, c2}
    Viewers = {v1}
    MaxInflight = 1
    MaxJobs = 3
    MaxEdits = 1
    MaxFaults = 1
    MaxRestarts = 1
INVARIANT InflightBounded
INVARIANT SingleFlight
INVARIANT FailedMeansNoJob
PROPERTY JobsEnd
PROPERTY FreshWhenViewed
CHECK_DEADLOCK FALSE
