SPECIFICATION FairSpec
CONSTANTS
    MaxRuns = 2
    MaxConcurrent = 1
    Interactive = {}
    Written = {"completed"}
    Enabled <- LivelyOps
    MaxContinues = 0
    MaxCrashes = 1
PROPERTY OutputHarvested
PROPERTY IdleRunFlagged
PROPERTY RateLimitedResumes
 
CHECK_DEADLOCK FALSE
