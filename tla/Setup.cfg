\* The installer, run again after kills, beside people's edits, hooks and servers.
SPECIFICATION Spec
CONSTANTS
    NoSuch = NoSuch
    Cast = Cast
    Stale = Stale
    Cli = Cli
    s1 = s1
    s2 = s2
    Servers = {s1, s2}
    Keep = 2
    Scenarios <- MCScenarios
INVARIANTS
    
    ReadyWhenDone
CHECK_DEADLOCK FALSE
