-------------------------------- MODULE MCTasks --------------------------------
EXTENDS Tasks, TLC

One == {CHOOSE s \in Slugs : TRUE}

MCScenarios == {
    \* two goals that share projects, one of which is removed
    [goals |-> Slugs, dirs |-> Dirs, statuses |-> {"accepted"}, phases |-> {}, focus |-> FALSE, threads |-> {},
     kills |-> 0, removals |-> 1, tasks |-> 0, runs |-> 0],
    \* a goal that moves to a project while a workflow is recorded
    [goals |-> One, dirs |-> {CHOOSE d \in Dirs : TRUE}, statuses |-> {"idea", "accepted"}, phases |-> {},
     focus |-> TRUE, threads |-> {CHOOSE th \in Threads : TRUE}, kills |-> 1, removals |-> 1, tasks |-> 0,
     runs |-> 0],
    \* two workflows recorded at once
    [goals |-> One, dirs |-> {CHOOSE d \in Dirs : TRUE}, statuses |-> {"accepted"}, phases |-> {},
     focus |-> FALSE, threads |-> Threads, kills |-> 0, removals |-> 0, tasks |-> 0, runs |-> 0],
    \* a goal that takes its board from project to project
    [goals |-> One, dirs |-> Dirs, statuses |-> {"accepted"}, phases |-> {}, focus |-> FALSE,
     threads |-> {}, kills |-> 0, removals |-> 1, tasks |-> 1, runs |-> 0],
    \* a goal's tasks
    [goals |-> One, dirs |-> {}, statuses |-> {"accepted", "completed"}, phases |-> {"plan"}, focus |-> FALSE,
     threads |-> {}, kills |-> 1, removals |-> 0, tasks |-> 3, runs |-> 0],
    \* subtasks of another goal's tasks
    [goals |-> Slugs, dirs |-> {}, statuses |-> {"accepted"}, phases |-> {}, focus |-> FALSE, threads |-> {},
     kills |-> 0, removals |-> 0, tasks |-> 3, runs |-> 0],
    \* the runs of a task
    [goals |-> One, dirs |-> {CHOOSE d \in Dirs : TRUE}, statuses |-> {"accepted"}, phases |-> {}, focus |-> FALSE,
     threads |-> {}, kills |-> 1, removals |-> 0, tasks |-> 1, runs |-> 2]}

===============================================================================
