\* Hooks, delegated runs, the forest of /runs and parents that wait.
SPECIFICATION FairSpec
CONSTANTS
    None = None
    alpha = alpha
    beta = beta
    s1 = s1
    s2 = s2
    t1 = t1
    t2 = t2
    UserSessions = {s1, s2}
    Terminals = {t1, t2}
    Agents = {alpha, beta}
    May <- MCMay
    MaxDepth = 3
    TreeCap = 2
    PerPage = 1
    EscalateAt = 2
    IdleLimit = 1
    MaxBeats = 2
    Scenarios <- MCScenarios
INVARIANTS
    AttributedToItsActor
    FailureShows
PROPERTIES
    ParentHears
CHECK_DEADLOCK FALSE
