SPECIFICATION FairSpec
CONSTANTS
    None = None
    r1 = r1
    a1 = a1
    a2 = a2
    Regions = {r1}
    Appliers = {a1, a2}
    Posts = {}
    Policy = "gate-except-additions"
    Enabled = {"race", "kill", "crash", "absent", "reapply"}
    MaxRequests = 1
    MaxTrail = 3
    MaxEdits = 0
    MaxVersions = 2
    MaxKills = 1
    MaxCrashes = 1
INVARIANT ToldOnce
INVARIANT AppliedHasVersion
INVARIANT NewestIsCurrent
INVARIANT AlertPerApply
PROPERTY PromiseKept
CHECK_DEADLOCK FALSE
