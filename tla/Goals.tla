--------------------------------- MODULE Goals ---------------------------------
(* Goals (services/goal_service.py, suggestion_service.py and                  *)
(* workflow_router_service.py): the row of a goal, the goal.yaml that mirrors  *)
(* it, the project directory it may be routed to and the links kept there.     *)
(* The handlers of the event loop run one at a time; a workflow is recorded by *)
(* a worker thread at any moment.  Tasks composes this with the goal's tasks.  *)
EXTENDS Naturals, FiniteSets

CONSTANTS
    Slugs,      \* goals, by the slug of their title
    Dirs,       \* external project directories
    Families,   \* WORKFLOW_FAMILIES
    Threads,    \* bound: requests to record a workflow that run at once
    Scenarios,  \* bounds that go together: goals, projects, statuses, phases, threads,
                \* kills and removals there may be, and the tasks and runs of Tasks
    None

\* Where goal.yaml and tasks.md may be: the goal's own directory under GOALS_DIR, or
\* docs/goal/<slug> of a project.
Home == "home"
Places == {Home} \cup Dirs

Statuses == {"idea", "accepted", "inactive", "completed", "declined"}
Phases == {"requirements", "exploration", "plan", "execution"}

\* The columns of a goal a change may touch, and what goal.yaml mirrors of them.
Rows == [status : Statuses, phase : Phases, focus : BOOLEAN, ext : Dirs \cup {None}, folder : Places,
         family : Families \cup {None}]
Files == [status : Statuses, phase : Phases, focus : BOOLEAN, ext : Dirs \cup {None},
          family : Families \cup {None}]

ASSUME GoalConstants ==
    /\ Home \notin Dirs /\ "loop" \notin Threads
    /\ Scenarios \subseteq [goals : SUBSET Slugs, dirs : SUBSET Dirs, statuses : SUBSET Statuses,
                           phases : SUBSET Phases, focus : BOOLEAN, threads : SUBSET Threads, kills : Nat,
                           removals : Nat, tasks : Nat, runs : Nat]
    /\ None \notin Slugs \cup Dirs \cup Families \cup {TRUE, FALSE}
    /\ None \notin Rows /\ None \notin Files

VARIABLES
    scenario,
    row,       \* goals: the columns a change may touch, or None
    file,      \* per goal and place: goal.yaml, or None
    cast,      \* per project: its .cast, a single link or a directory of links
    there,     \* project directories that exist
    writer,    \* per handler of goals: the mirror it has yet to write
    torn,      \* goals whose goal.yaml was written over what another had written, two of
               \* whose handlers changed one column at once, whose handler was killed
               \* half-way, or that were created again after a routing or while one was at
               \* work
    gone,      \* goals whose project directory was removed from under them
    kills, removals

goalVars == <<scenario, row, file, cast, there, writer, torn, gone, kills, removals>>

Idle == [at |-> "idle", goal |-> None, fields |-> None, place |-> None, seen |-> None]
Writers == {"loop"} \cup Threads

\* .cast is not there or a directory of links, or a link of its own.
NoLinks == [legacy |-> FALSE, links |-> {}]
Legacy == [legacy |-> TRUE, links |-> {}]

GoalInit ==
    /\ scenario \in Scenarios
    /\ row = [s \in Slugs |-> None]
    /\ file = [s \in Slugs |-> [p \in Places |-> None]]
    /\ cast \in [Dirs -> {NoLinks, Legacy}]
    /\ \A d \in Dirs \ scenario.dirs : cast[d] = NoLinks
    /\ there = scenario.dirs
    /\ writer = [w \in Writers |-> Idle]
    /\ torn = {} /\ gone = {}
    /\ kills = 0 /\ removals = 0

\* The loop is free: a handler runs to its end.
Free == writer["loop"] = Idle
AtRest(s) == \A w \in Writers : writer[w].goal # s

NewRow == [status |-> "accepted", phase |-> "requirements", focus |-> FALSE,
           ext |-> None, folder |-> Home, family |-> None]
Mirrored == {"status", "phase", "focus", "ext", "family"}
NewFile == [f \in Mirrored |-> NewRow[f]]

\* _resolve_goal_dir: where the row says, or at home when that is no longer there.
Place(s) ==
    IF row[s] # None /\ row[s].folder \in there THEN row[s].folder ELSE Home

With(old, fields) == [f \in DOMAIN old |-> IF f \in DOMAIN fields THEN fields[f] ELSE old[f]]

\* Another handler has yet to mirror a column that is changed again.
Meets(s, fields) ==
    \E x \in Writers : writer[x].goal = s /\ DOMAIN writer[x].fields \cap DOMAIN fields # {}

\* The row is committed; goal.yaml is still to be brought up to date.
Changes(w, s, fields) ==
    /\ row' = [row EXCEPT ![s] = With(@, fields)]
    /\ writer' = [writer EXCEPT ![w] =
          [at |-> "read", goal |-> s, fields |-> fields, place |-> None, seen |-> None]]
    /\ torn' = IF Meets(s, fields) THEN torn \cup {s} ELSE torn
    /\ UNCHANGED <<scenario, file, cast, there, gone, kills, removals>>

\* Seeded fault: the mirror is looked for at home wherever the goal is.
ReadPlaceHome(s) == Home

ReadPlace(s) == Place(s)

\* A goal that is created or accepted has its starter tasks made last, and one that
\* was suggested is an idea only then.
ToTasks(s, fields) == [Idle EXCEPT !.at = "tasks", !.goal = s, !.fields = fields]
Done(w) ==
    IF DOMAIN writer[w].fields = {"status", "phase"}
    THEN ToTasks(writer[w].goal, writer[w].fields) ELSE Idle

\* _update_goal_yaml_fields reads the file; without one it gives up.
ReadFile(w) ==
    LET s == writer[w].goal
        p == ReadPlace(s) IN
    /\ writer[w].at = "read"
    /\ writer' = [writer EXCEPT ![w] =
          IF file[s][p] = None THEN Done(w)
          ELSE [@ EXCEPT !.at = "write", !.place = p, !.seen = file[s][p]]]
    /\ UNCHANGED <<scenario, row, file, cast, there, torn, gone, kills, removals>>

\* ... and writes it anew, over whatever has happened to it since.
WriteFile(w) ==
    LET s == writer[w].goal
        p == writer[w].place IN
    /\ writer[w].at = "write"
    /\ file' = IF p = Home \/ p \in there
               THEN [file EXCEPT ![s][p] = With(writer[w].seen, writer[w].fields)] ELSE file
    /\ torn' = IF file[s][p] = writer[w].seen THEN torn ELSE torn \cup {s}
    /\ writer' = [writer EXCEPT ![w] = Done(w)]
    /\ UNCHANGED <<scenario, row, cast, there, gone, kills, removals>>

-------------------------------------------------------------------------------
(* The handlers.                                                           *)

\* create_goal, for itself and for approve_suggestion: INSERT OR REPLACE, whatever row
\* and file the slug had.
CreateGoal(s, status) ==
    /\ Free
    /\ row' = [row EXCEPT ![s] = NewRow]
    /\ file' = [file EXCEPT ![s][Home] = NewFile]
    /\ torn' = IF AtRest(s) /\ \A p \in Dirs : file[s][p] = None THEN torn ELSE torn \cup {s}
    /\ writer' = [writer EXCEPT !["loop"] = ToTasks(s, [status |-> status])]
    /\ UNCHANGED <<scenario, cast, there, gone, kills, removals>>

Transitions == [idea |-> {"accepted", "declined"}, accepted |-> {"inactive", "completed"},
                inactive |-> {"accepted"}, completed |-> {}, declined |-> {}]

Accepts(s, target) == row[s].status = "idea" /\ target = "accepted"

UpdateStatus(s, target) ==
    /\ Free /\ row[s] # None
    /\ target \in Transitions[row[s].status]
    /\ Changes("loop", s, IF Accepts(s, target)
                          THEN [status |-> target, phase |-> "requirements"]
                          ELSE [status |-> target])

UpdatePhase(s, target) ==
    /\ Free /\ row[s] # None
    /\ row[s].status \notin {"completed", "declined"}
    /\ Changes("loop", s, [phase |-> target])

ToggleFocus(s) ==
    /\ Free /\ row[s] # None
    /\ Changes("loop", s, [focus |-> ~row[s].focus])

\* record_routing_decision, in a worker thread; what is recorded already is not recorded
\* again.
RecordRouting(w, s, family) ==
    /\ writer[w] = Idle /\ row[s] # None
    /\ row[s].family # family
    /\ Changes(w, s, [family |-> family])

\* route_goal: the family that is asked for, or the one that is recorded; without
\* either nothing is.
RouteGoal(w, s, asked) ==
    LET family == IF asked = None /\ row[s] # None THEN row[s].family ELSE asked IN
    /\ family \in Families
    /\ RecordRouting(w, s, family)

\* ensure_cast_symlink: a .cast that is a link of its own gives way to a directory.
Linked(c, s) == [legacy |-> FALSE, links |-> c.links \cup {s}]

\* Seeded fault: .cast is removed with the links of the other goals in it.
UnlinkedAll(c, s) == NoLinks

\* remove_cast_symlink: a .cast that is a link of its own is all that is removed.
Unlinked(c, s) ==
    IF c.legacy THEN NoLinks ELSE [c EXCEPT !.links = @ \ {s}]

Relink(s, d, dirs) ==
    [e \in Dirs |->
        IF e = d /\ d \in dirs THEN Linked(cast[e], s)
        ELSE IF e # d /\ e = row[s].ext /\ e \in dirs THEN Unlinked(cast[e], s)
        ELSE cast[e]]

\* What is moved from one place to another: only what is not there already.
Moved(files, old, new) ==
    IF files[new] = None /\ (old = Home \/ old \in there)
    THEN [files EXCEPT ![new] = files[old], ![old] = None]
    ELSE files

Stamped(files, p, d) == IF files[p] = None THEN files ELSE [files EXCEPT ![p].ext = d]

\* update_config with a project directory: goal.yaml is updated at home, if it is
\* there; the goal's files are moved to the project, whose docs/goal/<slug> is made,
\* and its link with them.  An empty directory changes nothing.
UpdateConfig(s, d) ==
    LET old == row[s].folder
        moves == old # d
        dirs == IF moves THEN there \cup {d} ELSE there
        home == Stamped(file[s], Home, d) IN
    /\ Free /\ row[s] # None
    /\ row' = [row EXCEPT ![s] = [@ EXCEPT !.ext = d, !.folder = IF moves THEN d ELSE old]]
    /\ file' = [file EXCEPT ![s] = IF moves THEN Stamped(Moved(home, old, d), d, d) ELSE home]
    /\ there' = dirs
    /\ cast' = Relink(s, d, dirs)
    /\ UNCHANGED <<scenario, writer, torn, gone, kills, removals>>

\* An agent is launched: the link is made again.
LaunchLink(s) ==
    /\ Free /\ row[s] # None /\ row[s].ext \in there
    /\ cast' = [cast EXCEPT ![row[s].ext] = Linked(@, s)]
    /\ UNCHANGED <<scenario, row, file, there, writer, torn, gone, kills, removals>>

-------------------------------------------------------------------------------
(* What goes wrong.                                                        *)

\* The server is killed: what its handlers had still to mirror is not.
KillGoals ==
    /\ kills < scenario.kills
    /\ kills' = kills + 1
    /\ torn' = torn \cup {writer[w].goal : w \in {x \in Writers : writer[x] # Idle}}
    /\ writer' = [w \in Writers |-> Idle]
    /\ UNCHANGED <<scenario, row, file, cast, there, gone, removals>>

\* A project directory is removed with all that was in it.
RemoveDir(d) ==
    /\ d \in there /\ removals < scenario.removals
    /\ removals' = removals + 1
    /\ there' = there \ {d}
    /\ gone' = gone \cup {s \in Slugs : row[s] # None /\ row[s].folder = d}
    /\ file' = [s \in Slugs |-> [file[s] EXCEPT ![d] = None]]
    /\ cast' = [cast EXCEPT ![d] = NoLinks]
    /\ UNCHANGED <<scenario, row, writer, torn, kills>>

-------------------------------------------------------------------------------
(* Properties.                                                             *)

GoalTypeOK ==
    /\ \A s \in Slugs : row[s] # None => row[s] \in Rows
    /\ there \subseteq Dirs /\ gone \cup torn \subseteq Slugs
    /\ \A w \in Writers :
          writer[w] # Idle => writer[w].goal \in Slugs /\ writer[w].at \in {"read", "write", "tasks"}

\* goal.yaml is where the goal is, over any number of routings, and agrees with the
\* row ("Read-only render of DB state") once the handlers are done: except of a goal
\* that two of them wrote at once, that a kill caught half-way or that was created
\* again after a routing, of one whose directory was removed, and of an idea.
FileMirrorsRow ==
    \A s \in Slugs :
        row[s] # None /\ s \notin torn \cup gone /\ AtRest(s) =>
            LET seen == file[s][row[s].folder] IN
            /\ seen # None
            /\ \A f \in Mirrored :
                  seen[f] = row[s][f] \/ (f = "status" /\ row[s].status = "idea")

\* The project of a goal has its link, whatever goals have come and gone there, as
\* long as it was not removed (remove_cast_symlink: "leaving any sibling goals'
\* symlinks intact").
LinkedWhereRouted ==
    \A s \in Slugs :
        row[s] # None /\ row[s].ext # None /\ s \notin gone => s \in cast[row[s].ext].links

===============================================================================
