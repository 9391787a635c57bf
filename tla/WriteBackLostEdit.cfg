SPECIFICATION Spec
CONSTANTS
    None = None
    r1 = r1
    a1 = a1
    p1 = p1
    Regions = {r1}
    Appliers = {a1}
    Posts = {p1}
    Policy = "gate-all"
    Enabled = {"race"}
    MaxRequests = 1
    MaxTrail = 2
    MaxEdits = 1
    MaxVersions = 2
    MaxKills = 0
    MaxCrashes = 0
PROPERTY HumanTextKept
CHECK_DEADLOCK FALSE
