SPECIFICATION Spec
CONSTANTS
    MaxRuns = 3
    MaxConcurrent = 2
    Interactive = {}
    Written = {"completed"}
    Enabled <- QueueOps
    MaxContinues = 0
    MaxCrashes = 1
INVARIANT SuccessHasOutput
PROPERTY LaunchesWithinCap
PROPERTY RecoveryLeavesNoGhost
CHECK_DEADLOCK FALSE
