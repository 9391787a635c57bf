SPECIFICATION Spec
CONSTANTS
    None = None
    r1 = r1
    r2 = r2
    a1 = a1
    p1 = p1
    Regions = {r1, r2}
    Appliers = {a1}
    Posts = {p1}
    Policy = "gate-all"
    Enabled = {"reapply"}
    MaxRequests = 2
    MaxTrail = 3
    MaxEdits = 1
    MaxVersions = 3
    MaxKills = 0
    MaxCrashes = 0
INVARIANT OneCurrent
INVARIANT ChangeRecorded
PROPERTY HumanTextKept
 
SYMMETRY Symmetry
CHECK_DEADLOCK FALSE
