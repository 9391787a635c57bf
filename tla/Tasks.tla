--------------------------------- MODULE Tasks ---------------------------------
(* The tasks of the goals (services/task_service.py, task_suggestion_service.py *)
(* and routes/api_tasks.py), the board tasks.md that lists them, the            *)
(* suggestions, and the agent runs started from the board.  Composed with Goals: *)
(* a goal that is created or accepted gets its starter tasks, and a goal that is *)
(* routed takes its board with it.  Every handler here runs on the event loop.   *)
EXTENDS Goals

CONSTANTS
    TaskIds,   \* bound: 1..n
    Runs       \* bound: agent runs with a task

TaskStatuses == {"pending", "in_progress", "completed", "suggested", "declined"}
TaskRows == [goal : Slugs, parent : TaskIds \cup {None}, status : TaskStatuses]

ASSUME TaskConstants ==
    /\ TaskIds \subseteq Nat \ {0}
    /\ None \notin TaskIds /\ None \notin TaskRows

VARIABLES
    task,      \* tasks: goal, parent and status, or None
    board,     \* per goal and place: the tasks tasks.md lists, or None
    behind,    \* goals whose last change was never rendered
    run        \* runs: task, status, and how they came to run; or None

taskVars == <<task, board, behind, run>>
vars == <<goalVars, taskVars>>

Hidden == {"suggested", "declined"}

Init ==
    /\ GoalInit
    /\ task = [t \in TaskIds |-> None]
    /\ board = [s \in Slugs |-> [p \in Places |-> None]]
    /\ behind = {}
    /\ run = [r \in Runs |-> None]

TasksOf(tasks, s) == {t \in TaskIds : tasks[t] # None /\ tasks[t].goal = s}

\* _rerender_tasks_md lists what is neither suggested nor declined, and a subtask
\* under its parent: so only where its parent is listed, and of the same goal.
Listed(tasks, s) ==
    LET shown == {t \in TasksOf(tasks, s) : tasks[t].status \notin Hidden}
        top == {t \in shown : tasks[t].parent = None} IN
    {[id |-> t, under |-> tasks[t].parent, status |-> tasks[t].status] :
        t \in top \cup {u \in shown : tasks[u].parent \in top}}

\* Seeded fault: the board is written at home wherever the goal is.
BoardAtHome(s) == Home

BoardPlace(s) == Place(s)

\* The rows are committed and the board written anew, or the server is killed between.
Rendered(s) ==
    \/ /\ board' = IF row[s] = None THEN board
                   ELSE [board EXCEPT ![s][BoardPlace(s)] = Listed(task', s)]
       /\ behind' = behind \ {s}
       /\ UNCHANGED goalVars
    \/ /\ KillGoals
       /\ behind' = behind \cup {s}
       /\ UNCHANGED board

\* The rows are committed and the board is left as it is.
NotRendered(s) ==
    /\ behind' = IF Listed(task', s) = Listed(task, s) THEN behind ELSE behind \cup {s}
    /\ UNCHANGED <<goalVars, board>>

-------------------------------------------------------------------------------
(* Tasks and suggestions.                                                  *)

Next1 == {t \in TaskIds : task[t] = None /\ \A u \in TaskIds : u < t => task[u] # None}
MayAdd == Cardinality({t \in TaskIds : task[t] # None}) < scenario.tasks
New(s, parent, status) == [goal |-> s, parent |-> parent, status |-> status]

\* create_task: a subtask has a parent that is none itself; the parent may be a task of
\* another goal.  A suggestion is not rendered.
Create(s, parent, status) ==
    /\ Free /\ row[s] # None /\ MayAdd
    /\ parent # None => task[parent] # None /\ task[parent].parent = None
    /\ \E t \in Next1 : task' = [task EXCEPT ![t] = New(s, parent, status)]
    /\ IF status = "suggested" THEN NotRendered(s) ELSE Rendered(s)
    /\ UNCHANGED run

Moves(ts, status) ==
    task' = [t \in TaskIds |-> IF t \in ts THEN [task[t] EXCEPT !.status = status] ELSE task[t]]

Has(t) == Free /\ task[t] # None

\* update_task_status takes any status; complete_task sets "completed".
UpdateTaskStatus(t, status) ==
    /\ Has(t)
    /\ Moves({t}, status)
    /\ Rendered(task[t].goal)
    /\ UNCHANGED run

\* update_task: what is edited is not in the model, and the board is written anew.
UpdateTask(t) ==
    /\ Has(t)
    /\ UNCHANGED <<task, run>>
    /\ Rendered(task[t].goal)

\* approve_suggestion leaves a pending task alone and sets any other to pending.
Approve(t) ==
    /\ Has(t) /\ task[t].status # "pending"
    /\ UpdateTaskStatus(t, "pending")

Suggested(ts) == {t \in ts : task[t].status = "suggested"}
Children(t) == {u \in TaskIds : task[u] # None /\ task[u].parent = t}

\* approve_suggestion_group
ApproveGroup(t) ==
    /\ Has(t)
    /\ Moves(Suggested({t} \cup Children(t)), "pending")
    /\ Rendered(task[t].goal)
    /\ UNCHANGED run

\* approve_parent_only: the children that are still suggestions lose their parent.
ApproveParentOnly(t) ==
    /\ Has(t)
    /\ task' = [u \in TaskIds |->
          IF u \in Suggested({t}) THEN [task[u] EXCEPT !.status = "pending"]
          ELSE IF u \in Suggested(Children(t)) THEN [task[u] EXCEPT !.parent = None]
          ELSE task[u]]
    /\ Rendered(task[t].goal)
    /\ UNCHANGED run

\* decline_suggestion and decline_suggestion_group decline whatever the task is.
Decline(t) ==
    /\ Has(t)
    /\ Moves({t}, "declined")
    /\ NotRendered(task[t].goal)
    /\ UNCHANGED run

DeclineGroup(t) ==
    /\ Has(t)
    /\ Moves({t} \cup Suggested(Children(t)), "declined")
    /\ NotRendered(task[t].goal)
    /\ UNCHANGED run

-------------------------------------------------------------------------------
(* Runs.                                                                   *)

\* Seeded fault: a run that waits for the night does not count.
ActiveIfStarted == {"running", "pending"}

\* get_active_run_for_task
ActiveStatuses == {"running", "pending", "scheduled"}

RunsOf(t) == {r \in Runs : run[r] # None /\ run[r].task = t}
Active(r) == run[r].status \in ActiveStatuses
Startable(t) == Has(t) /\ row[task[t].goal] # None /\ row[task[t].goal].ext \in there

NewRun(t, status, asked) ==
    \E r \in Runs :
        /\ run[r] = None /\ Cardinality({q \in Runs : run[q] # None}) < scenario.runs
        /\ run' = [run EXCEPT ![r] = [task |-> t, status |-> status, asked |-> asked, again |-> FALSE]]

\* run_agent_for_task: not while a run of the task is active; the task is in progress
\* then, unless the server is killed before it says so.
RunAgent(t, status) ==
    /\ Startable(t)
    /\ \A r \in RunsOf(t) : ~Active(r)
    /\ NewRun(t, status, TRUE)
    /\ \/ Moves({t}, "in_progress") /\ Rendered(task[t].goal)
       \/ KillGoals /\ UNCHANGED <<task, board, behind>>

\* POST /api/agents/{name}/trigger with a task_id asks nothing of the task.
Trigger(t) ==
    /\ Startable(t)
    /\ NewRun(t, "pending", FALSE)
    /\ UNCHANGED <<goalVars, task, board, behind>>

RunMoves == {<<"scheduled", "pending">>, <<"scheduled", "ended">>, <<"pending", "running">>,
             <<"pending", "ended">>, <<"running", "rate_limited">>, <<"running", "ended">>,
             <<"rate_limited", "running">>, <<"rate_limited", "ended">>}

\* The dispatcher, the monitor and the people who cancel (AgentRuns).
RunStep(r) ==
    /\ run[r] # None
    /\ \E to \in {m[2] : m \in {n \in RunMoves : n[1] = run[r].status}} :
          run' = [run EXCEPT ![r] = [@ EXCEPT !.status = to,
                                              !.again = run[r].again \/ run[r].status = "rate_limited"]]
    /\ UNCHANGED <<goalVars, task, board, behind>>

\* continue_agent_run: back to running, whatever it was.
Continue(r) ==
    /\ run[r] # None /\ run[r].status \in {"running", "rate_limited", "ended"}
    /\ run' = [run EXCEPT ![r] = [@ EXCEPT !.status = "running", !.again = TRUE]]
    /\ UNCHANGED <<goalVars, task, board, behind>>

-------------------------------------------------------------------------------
(* Goals and their tasks.                                                  *)

\* _create_starter_tasks, unless the goal has a task already; all of them stand as
\* one.  approve_suggestion makes the goal an idea after that.
StarterTasks(s) ==
    LET w == writer["loop"]
        makes == TasksOf(task, s) = {} IN
    /\ w.at = "tasks" /\ w.goal = s
    /\ \/ /\ row' = [row EXCEPT ![s] = With(@, w.fields)]
          /\ writer' = [writer EXCEPT !["loop"] = Idle]
          /\ IF makes
             THEN /\ \E t \in Next1 : task' = [task EXCEPT ![t] = New(s, None, "pending")]
                  /\ board' = [board EXCEPT ![s][BoardPlace(s)] = Listed(task', s)]
                  /\ behind' = behind \ {s}
             ELSE UNCHANGED <<task, board, behind>>
          /\ UNCHANGED <<scenario, file, cast, there, torn, gone, kills, removals>>
       \/ /\ makes /\ KillGoals
          /\ \E t \in Next1 : task' = [task EXCEPT ![t] = New(s, None, "pending")]
          /\ UNCHANGED <<board, behind>>
    /\ UNCHANGED run

\* update_config moves the board with the rest of the goal's files.
Route(s, d) ==
    /\ UpdateConfig(s, d)
    /\ board' = [board EXCEPT ![s] = IF row[s].folder # d THEN Moved(@, row[s].folder, d) ELSE @]
    /\ UNCHANGED <<task, behind, run>>

Remove(d) ==
    /\ RemoveDir(d)
    /\ board' = [s \in Slugs |-> [board[s] EXCEPT ![d] = None]]
    /\ UNCHANGED <<task, behind, run>>

GoalNext(s) ==
    \/ \E status \in scenario.statuses \cap {"accepted", "idea"} : CreateGoal(s, status)
    \/ \E target \in scenario.statuses : UpdateStatus(s, target)
    \/ \E target \in scenario.phases : UpdatePhase(s, target)
    \/ scenario.focus /\ ToggleFocus(s)
    \/ \E w \in scenario.threads, f \in Families \cup {None} : RouteGoal(w, s, f)
    \/ LaunchLink(s)

TaskNext(t) ==
    \/ \E status \in TaskStatuses : UpdateTaskStatus(t, status)
    \/ UpdateTask(t)
    \/ Approve(t) \/ ApproveGroup(t) \/ ApproveParentOnly(t)
    \/ Decline(t) \/ DeclineGroup(t)
    \/ \E status \in {"pending", "scheduled"} : RunAgent(t, status)
    \/ Trigger(t)

Next ==
    \/ \E s \in scenario.goals : GoalNext(s) /\ UNCHANGED taskVars
    \/ \E w \in Writers : (ReadFile(w) \/ WriteFile(w)) /\ UNCHANGED taskVars
    \/ KillGoals /\ UNCHANGED taskVars
    \/ \E s \in scenario.goals : StarterTasks(s) \/ \E d \in scenario.dirs : Route(s, d)
    \/ \E d \in scenario.dirs : Remove(d)
    \/ \E s \in scenario.goals, p \in TaskIds \cup {None}, status \in {"pending", "suggested"} :
          Create(s, p, status)
    \/ \E t \in {u \in TaskIds : u <= scenario.tasks} : TaskNext(t)
    \/ \E r \in Runs : RunStep(r) \/ Continue(r)

Spec == Init /\ [][Next]_vars

-------------------------------------------------------------------------------
(* Properties.                                                             *)

\* However the tasks were suggested, approved, nested, started and completed, and
\* wherever the goal was routed meanwhile, the tasks.md of the goal lists its tasks as
\* they are ("Read-only render of DB state"), unless its last change was a decline or
\* met a kill, neither of which is rendered.
BoardCurrent ==
    \A s \in Slugs :
        row[s] # None /\ s \notin behind \cup torn \cup gone /\ AtRest(s) =>
            board[s][row[s].folder] = Listed(task, s)

\* The button of a task never starts a second run beside one that it has started and
\* that waits, is pending or runs (run_agent_for_task: "concurrent guard"), but for
\* runs that were paused by a rate limit or continued.
OneRun ==
    \A t \in TaskIds :
        Cardinality({r \in RunsOf(t) : run[r].status \in {"scheduled", "pending", "running"}
                                       /\ run[r].asked /\ ~run[r].again}) <= 1

===============================================================================
