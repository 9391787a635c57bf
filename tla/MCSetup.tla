-------------------------------- MODULE MCSetup --------------------------------
EXTENDS Setup, TLC

CONSTANTS s1, s2

MCScenarios == {
    \* files of people's in every place, runs that are killed
    [places |-> Places \X {"body"}, config |-> FALSE, ports |-> {"other"}, files |-> {NoFile}, modes |-> {"full"},
     edits |-> 1, runs |-> 3, kills |-> 2, starts |-> 0, hooks |-> 0],
    [places |-> {"generated", "skill"} \X Slots, config |-> FALSE, ports |-> {"http"}, files |-> {NoFile},
     modes |-> {"full", "dry"}, edits |-> 2, runs |-> 3, kills |-> 1, starts |-> 0, hooks |-> 0],
    \* the configuration
    [places |-> {}, config |-> TRUE, ports |-> {"other"}, files |-> {NoFile}, modes |-> {"full", "silent"},
     edits |-> 3, runs |-> 2, kills |-> 1, starts |-> 0, hooks |-> 0],
    \* hooks
    [places |-> {<<"root", "body">>}, config |-> FALSE, ports |-> {"other"}, files |-> {NoFile}, modes |-> {"upgrade"},
     edits |-> 3, runs |-> 1, kills |-> 0, starts |-> 0, hooks |-> 3],
    \* the database and the servers
    [places |-> {}, config |-> FALSE, ports |-> {"free", "http"}, files |-> {NoFile, OldFile}, modes |-> {"full"},
     edits |-> 0, runs |-> 2, kills |-> 2, starts |-> 3, hooks |-> 0]}

===============================================================================
