SPECIFICATION Spec
CONSTANTS
    MaxRuns = 2
    MaxConcurrent = 1
    Interactive = {2}
    Written = {"completed", "malformed"}
    Enabled <- OrderlyOps
    MaxContinues = 1
    MaxCrashes = 0
INVARIANT SessionAccounted
INVARIANT RateLimitedHasTimer
 
CHECK_DEADLOCK FALSE
