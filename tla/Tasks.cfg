SPECIFICATION Spec
CONSTANTS
    Slugs = {a, b}
    Dirs = {d, e}
    Families = {f, g}
    Threads = {t1, t2}
    TaskIds = {1, 2, 3}
    Runs = {r1, r2, r3}
    None = None
    Scenarios <- MCScenarios
INVARIANTS
    
    
    BoardCurrent
    OneRun
CHECK_DEADLOCK FALSE
