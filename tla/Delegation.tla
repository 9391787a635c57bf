------------------------------ MODULE Delegation ------------------------------
(***************************************************************************)
(* Who works for whom.  Runs are rows of agent_runs; what they stand for   *)
(* are actors inside Claude sessions: the main loop of a session (a slash  *)
(* command the user typed, or the agent the dispatcher launched in a       *)
(* terminal) and the subagents it starts.  The server learns of the        *)
(* former only from hooks, short-lived processes that post and forget      *)
(* (cli/hook_handlers.py): posts wait in order on the wire while the event *)
(* loop is busy and are lost when the server is down.  From them           *)
(* subagent_invocation_service and user_invocation_service keep the rows,  *)
(* their parents and the skills used; trigger_agent adds the runs agents   *)
(* delegate; get_runs_tree shows the forest; error_memory_service blocks   *)
(* agents that keep failing; and the parent of a delegated run waits for   *)
(* its output file (agents/_shared/polling.py).                            *)
(*                                                                         *)
(* Every handler is an async def that never awaits, so one step each.  The *)
(* row of a hook is inserted and gets its started_at in a second commit; a *)
(* crash between the two leaves a running row that the next start fails    *)
(* before anything can read it, so the pair is one step here.  The slots   *)
(* of the dispatcher and the monitor's reading of panes are AgentRuns'.    *)
(***************************************************************************)
EXTENDS Naturals, Sequences, FiniteSets, FiniteSetsExt

CONSTANTS
    UserSessions,   \* Claude sessions people type in
    Terminals,      \* Claude sessions the dispatcher opens, each for one run
    Agents,         \* names of cast-* agents
    May,            \* <<a, b>>: b is among the allowed_delegations of a
    MaxDepth,       \* MAX_DELEGATION_DEPTH
    TreeCap,        \* _TREE_DEPTH_CAP
    PerPage,        \* root runs on a page of /runs
    EscalateAt,     \* occurrences that escalate an error
    IdleLimit,      \* idle polls a parent waits
    MaxBeats,       \* bound: writes of one child to its output file
    None,
    Scenarios       \* bounds: rows, actors, posts on the wire, errors of an output, agents, sessions, writes to output files, operations

ASSUME DelegationAssumption ==
    /\ UserSessions \cap Terminals = {}
    /\ {MaxDepth, TreeCap, PerPage, EscalateAt, IdleLimit, MaxBeats} \subseteq Nat
    /\ PerPage > 0 /\ TreeCap > 0 /\ EscalateAt > 1
    /\ May \subseteq Agents \X Agents
    /\ None \notin UserSessions \cup Terminals
    /\ Scenarios \subseteq [runs : Nat, actors : Nat, wire : Nat, errors : Nat, agents : SUBSET Agents,
                           sessions : SUBSET UserSessions,
                           writes : SUBSET {"empty", "torn", "working", "completed", "partial", "failed"},
                           ops : SUBSET {"subagents", "skills", "plain", "lose", "hour", "restart", "dispatch",
                                         "stuck", "operator", "poll", "cancel"}]

VARIABLES
    scenario,   \* the bounds of this behaviour
    run,        \* agent_runs, in order of creation; a deleted row keeps its place
    actors,     \* every actor there ever was: where it runs and who started it
    live,       \* session -> its live actors, numbered as they appeared
    wire,       \* posts the server has not served yet
    orderly,    \* sessions whose posts told the whole story (see AttributedToItsActor)
    memory,     \* agent_error_memories: agent -> its recurring error
    file,       \* run -> its output file
    poll        \* run -> what the parent that waits for it knows

server == <<run, memory>>
claude == <<actors, live>>
waiting == <<file, poll>>
vars == <<scenario, run, actors, live, wire, orderly, memory, file, poll>>

Sessions == UserSessions \cup Terminals
Runs == 1 .. Len(run)
On(op) == op \in scenario.ops
Exists(r) == r \in Runs /\ run[r].status # "deleted"

-----------------------------------------------------------------------------
(* The actors and the rows that stand for them. *)

\* the main loop of a session is its oldest actor
Main(s) == Min(live[s])
Innermost(s) == Max(live[s])

\* the nearest actor the server keeps rows for: a subagent that is not cast-* has none
Owner(a) ==
    LET up[x \in 0 .. Len(actors)] ==
            IF x = 0 \/ actors[x].cast THEN x ELSE up[actors[x].by]
    IN up[a]

RowOf(a) == IF \E r \in Runs : run[r].actor = a /\ a # 0
            THEN CHOOSE r \in Runs : run[r].actor = a ELSE 0

Told(s) == \E i \in 1 .. Len(wire) : wire[i].s = s      \* posts of s are on the wire
Busy(s) == live[s] # {} \/ Told(s)
Where(r) == IF run[r].actor = 0 THEN None ELSE actors[run[r].actor].session

\* the server does not know yet which session a launched run has
Undiscovered(s) == s \in Terminals /\ run[RowOf(Main(s))].session # s

Now == 1 + Max({run[r].started : r \in Runs} \cup {0})

Row(kind, agent, parent, session, status, actor, goal) ==
    [kind |-> kind, agent |-> agent, parent |-> parent, session |-> session, status |-> status,
     started |-> IF status = "running" THEN Now ELSE 0, actor |-> actor, goal |-> goal,
     skills |-> {}, old |-> FALSE]

SystemOps == "system-ops"
GoalOf(parent) == IF parent = 0 THEN SystemOps ELSE run[parent].goal

-----------------------------------------------------------------------------
(* Hooks: what happens in a session, and what is posted of it. *)

\* a post reaches the server's queue, or nobody serves it within two seconds
Post(m, broken) ==
    \/ /\ Len(wire) < scenario.wire
       /\ wire' = Append(wire, m)
       /\ orderly' = IF broken THEN orderly \ {m.s} ELSE orderly
    \/ /\ On("lose")
       /\ orderly' = orderly \ {m.s}
       /\ UNCHANGED wire

NoPost(s, broken) ==
    /\ orderly' = IF broken THEN orderly \ {s} ELSE orderly
    /\ UNCHANGED wire

Appears(s, by, cast) ==
    /\ Len(actors) < scenario.actors
    /\ actors' = Append(actors, [session |-> s, by |-> by, cast |-> cast, used |-> FALSE])
    /\ live' = [live EXCEPT ![s] = @ \cup {Len(actors) + 1}]

UserPromptStart(s, cast) ==
    /\ s \in UserSessions /\ live[s] = {}
    /\ cast \/ On("plain")
    /\ Appears(s, 0, cast)
    /\ IF cast THEN Post([op |-> "command", s |-> s, a |-> Len(actors) + 1], FALSE)
       ELSE NoPost(s, FALSE)
    /\ UNCHANGED <<scenario, server, waiting>>

\* the turn ends; subagents that still run are gone without a word
UserPromptStop(s) ==
    /\ s \in UserSessions /\ live[s] # {}
    /\ live' = [live EXCEPT ![s] = {}]
    /\ Post([op |-> "stop", s |-> s, a |-> Main(s)], live[s] # {Main(s)})
    /\ UNCHANGED <<scenario, server, actors, waiting>>

SubagentStart(s, by, cast) ==
    LET broken == by # Innermost(s) \/ Undiscovered(s) IN
    /\ On("subagents")
    /\ cast \/ On("plain")
    /\ Appears(s, by, cast)
    /\ IF cast THEN Post([op |-> "start", s |-> s, a |-> Len(actors) + 1], broken)
       ELSE NoPost(s, broken)
    /\ UNCHANGED <<scenario, server, waiting>>

SubagentStop(s, a) ==
    /\ a # Main(s)
    /\ live' = [live EXCEPT ![s] = @ \ {a}]
    /\ Post([op |-> "done", s |-> s, a |-> a], a # Innermost(s))
    /\ UNCHANGED <<scenario, server, actors, waiting>>

SkillInvoke(s, by) ==
    /\ On("skills") /\ ~actors[by].used
    /\ actors' = [actors EXCEPT ![by].used = TRUE]
    /\ Post([op |-> "skill", s |-> s, a |-> by], by # Innermost(s) \/ Undiscovered(s))
    /\ UNCHANGED <<scenario, server, live, waiting>>

-----------------------------------------------------------------------------
(* The server serves the next post. *)

Serving(op) == wire # <<>> /\ Head(wire).op = op
Served == wire' = Tail(wire) /\ UNCHANGED <<scenario, claude, orderly, memory, waiting>>

\* Seeded fault: a row that has ended is still the most recent
MostRecentEver(s) ==
    LET rows == {r \in Runs : run[r].session = s /\ Exists(r)}
    IN IF rows = {} THEN 0 ELSE CHOOSE r \in rows : \A q \in rows : run[q].started <= run[r].started

\* resolve_parent_for_subagent, and the row record_skill appends to
MostRecent(s) ==
    LET running == {r \in Runs : run[r].session = s /\ run[r].status = "running"}
    IN IF running = {} THEN 0
       ELSE CHOOSE r \in running : \A q \in running : run[q].started <= run[r].started

OpenCommand ==
    /\ Serving("command") /\ Len(run) < scenario.runs
    /\ \E g \in scenario.agents :
          run' = Append(run, Row("command", g, 0, Head(wire).s, "running", Head(wire).a, SystemOps))
    /\ Served

CloseCommands ==
    /\ Serving("stop")
    /\ run' = [r \in Runs |->
                 IF /\ run[r].kind = "command" /\ run[r].session = Head(wire).s
                    /\ run[r].status = "running" /\ ~run[r].old
                 THEN [run[r] EXCEPT !.status = "completed"] ELSE run[r]]
    /\ Served

OpenSubagent ==
    LET parent == MostRecent(Head(wire).s) IN
    /\ Serving("start") /\ Len(run) < scenario.runs
    /\ \E g \in scenario.agents :
          run' = Append(run, Row("subagent", g, parent, Head(wire).s, "running", Head(wire).a, GoalOf(parent)))
    /\ Served

\* claude_agent_id names the subagent; a row already closed is left alone
CloseSubagent ==
    /\ Serving("done")
    /\ run' = [r \in Runs |->
                 IF run[r].kind = "subagent" /\ run[r].actor = Head(wire).a /\ run[r].status = "running"
                 THEN [run[r] EXCEPT !.status = "completed"] ELSE run[r]]
    /\ Served

RecordSkill ==
    LET r == MostRecent(Head(wire).s) IN
    /\ Serving("skill")
    /\ run' = IF r = 0 THEN run ELSE [run EXCEPT ![r].skills = @ \cup {Owner(Head(wire).a)}]
    /\ Served

\* the turn of a command has lasted an hour: its stop will not find the row
HourPasses ==
    LET long == {r \in Runs : run[r].kind = "command" /\ run[r].status = "running" /\ ~run[r].old} IN
    /\ On("hour") /\ long # {}
    /\ run' = [r \in Runs |-> [run[r] EXCEPT !.old = @ \/ r \in long]]
    /\ orderly' = orderly \ {Where(r) : r \in long}
    /\ UNCHANGED <<scenario, claude, wire, memory, waiting>>

-----------------------------------------------------------------------------
(* Runs the dispatcher starts, alone or for a parent. *)

\* the parents above r, counted until one is missing
Depth(r) ==
    LET d[x \in 0 .. Len(run)] ==
            IF ~Exists(x) \/ run[x].parent = 0 THEN 0 ELSE 1 + d[run[x].parent]
    IN Min({d[r], MaxDepth + 2})

TriggerAgent(parent, agent) ==
    /\ On("dispatch") /\ Len(run) < scenario.runs
    /\ parent # 0 => /\ Exists(parent)
                     /\ <<run[parent].agent, agent>> \in May
                     /\ Depth(parent) < MaxDepth
    /\ run' = Append(run, Row("dispatched", agent, parent, None, "pending", 0, "goal"))
    /\ poll' = IF parent # 0 /\ On("poll")
               THEN [poll EXCEPT ![Len(run) + 1].state = "waiting"] ELSE poll
    /\ UNCHANGED <<scenario, claude, wire, orderly, memory, file>>

Escalated(agent) == memory[agent].status = "escalated"

\* the dispatcher fails a run whose agent has an escalated error, and launches any other
Refuse(r) ==
    /\ run[r].status = "pending" /\ Escalated(run[r].agent)
    /\ run' = [run EXCEPT ![r].status = "failed"]
    /\ UNCHANGED <<scenario, claude, wire, orderly, memory, waiting>>

Unopened == {t \in Terminals : \A i \in 1 .. Len(actors) : actors[i].session # t}

Launch(r) ==
    /\ run[r].status = "pending" /\ ~Escalated(run[r].agent)
    /\ Unopened # {}
    /\ Appears(CHOOSE t \in Unopened : TRUE, 0, TRUE)
    /\ run' = [run EXCEPT ![r].status = "running", ![r].started = Now, ![r].actor = Len(actors) + 1]
    /\ UNCHANGED <<scenario, wire, orderly, memory, waiting>>

\* a monitor tick finds the session that mentions the run
DiscoverSession(r) ==
    /\ On("subagents") /\ run[r].kind = "dispatched" /\ run[r].status = "running" /\ run[r].session = None
    /\ run' = [run EXCEPT ![r].session = Where(r)]
    /\ UNCHANGED <<scenario, claude, wire, orderly, memory, waiting>>

\* a row that ends while its session is busy leaves the story there
Ended(r) == IF Where(r) # None /\ Busy(Where(r)) THEN orderly \ {Where(r)} ELSE orderly

\* extract_and_store_error, with `found` occurrences of the agent's error in one output
Remembered(agent, found) ==
    LET count == Min({memory[agent].count + found, EscalateAt}) IN
    IF found = 0 THEN memory[agent]
    ELSE [count |-> count, status |-> IF count >= EscalateAt THEN "escalated" ELSE "unresolved"]

Terminal == {"completed", "partial", "failed"}

\* a file that is not an answer, a heartbeat included, is a failure to _finalize_run
StatusOf(r) == IF file[r].kind \in Terminal THEN file[r].kind ELSE "failed"

\* the monitor finds the agent at its prompt and its output file there
Finalize(r) ==
    /\ run[r].kind = "dispatched" /\ run[r].status = "running"
    /\ live[Where(r)] # {} /\ file[r].mtime # 0
    /\ run' = [run EXCEPT ![r].status = StatusOf(r)]
    /\ orderly' = Ended(r)
    /\ \E found \in IF StatusOf(r) = "completed" THEN {0} ELSE 0 .. scenario.errors :
          memory' = [memory EXCEPT ![run[r].agent] = Remembered(run[r].agent, found)]
    /\ UNCHANGED <<scenario, claude, wire, waiting>>

\* the agent sits at its prompt for long and there is no file
Stuck(r) ==
    /\ On("stuck") /\ run[r].kind = "dispatched" /\ run[r].status = "running"
    /\ live[Where(r)] # {} /\ file[r].mtime = 0
    /\ run' = [run EXCEPT ![r].status = "stuck"]
    /\ orderly' = Ended(r)
    /\ UNCHANGED <<scenario, claude, wire, memory, waiting>>

TerminalEnds(t) ==
    /\ live[t] # {}
    /\ live' = [live EXCEPT ![t] = {}]
    /\ orderly' = IF live[t] # {Main(t)} THEN orderly \ {t} ELSE orderly
    /\ UNCHANGED <<scenario, server, actors, wire, waiting>>

\* fail_run, from the page; the session is left alone
FailRun(r) ==
    /\ On("operator") /\ run[r].status \notin {"completed", "failed", "deleted"}
    /\ run' = [run EXCEPT ![r].status = "failed"]
    /\ orderly' = Ended(r)
    /\ UNCHANGED <<scenario, claude, wire, memory, waiting>>

DeleteRun(r) ==
    /\ On("operator") /\ run[r].status \notin {"running", "pending", "deleted"}
    /\ run' = [run EXCEPT ![r].status = "deleted"]
    /\ orderly' = Ended(r)
    /\ UNCHANGED <<scenario, claude, wire, memory, waiting>>

ResolveMemory(agent) ==
    /\ memory[agent].count > 0 /\ memory[agent].status # "resolved"
    /\ memory' = [memory EXCEPT ![agent].status = "resolved"]
    /\ UNCHANGED <<scenario, run, claude, wire, orderly, waiting>>

\* the server stops with what it had not served, and its next start closes every running row
\* that has no terminal: by its output file, else as failed; no row of a hook has either
Restart ==
    LET lost == {r \in Runs : /\ run[r].status = "running"
                              /\ run[r].kind = "dispatched" => live[Where(r)] = {}}
        failing(agent) == {r \in lost : run[r].agent = agent /\ file[r].mtime # 0 /\ StatusOf(r) # "completed"} IN
    /\ On("restart")
    /\ run' = [r \in Runs |-> IF r \in lost THEN [run[r] EXCEPT !.status = StatusOf(r)] ELSE run[r]]
    /\ \E found \in 0 .. scenario.errors :
          memory' = [g \in Agents |-> Remembered(g, found * Cardinality(failing(g)))]
    /\ orderly' = {s \in orderly : ~Told(s) /\ \A r \in lost : Where(r) # s}
    /\ wire' = <<>>
    /\ UNCHANGED <<scenario, claude, waiting>>

-----------------------------------------------------------------------------
(* The output file of a run and the parent that polls for it. *)

\* the child touches the file, renames its answer into place or, against the contract, writes
\* the file where it is, so that a parent may see half of it
ChildWrites(r, kind) ==
    /\ run[r].kind = "dispatched" /\ run[r].actor # 0 /\ live[Where(r)] # {}
    /\ file[r].mtime < MaxBeats
    /\ file' = [file EXCEPT ![r] = [kind |-> kind, mtime |-> @.mtime + 1]]
    /\ UNCHANGED <<scenario, server, claude, wire, orderly, poll>>

Hears(r, verdict) == poll' = [poll EXCEPT ![r] = [@ EXCEPT !.state = verdict]]

\* Seeded fault: the mtime seen is not kept
ProgressAlways(r) == file[r].mtime # 0

Progress(r) == file[r].mtime # 0 /\ file[r].mtime # poll[r].seen

\* what one look at the file gives: torn JSON, the child's answer, or nothing to go by
Read(r) == CASE file[r].kind = "torn" -> "malformed"
             [] file[r].kind \in Terminal -> file[r].kind
             [] OTHER -> None

\* one turn of the loop: read, note progress, give up or sleep
PollStep(r) ==
    LET idle == IF Progress(r) THEN 0 ELSE poll[r].idle IN
    /\ poll[r].state = "waiting"
    /\ \/ Read(r) # None /\ Hears(r, Read(r))
       \/ /\ Read(r) = None
          /\ \/ On("cancel") /\ Hears(r, "cancelled")
             \/ idle > IdleLimit /\ Hears(r, "idle")
             \/ /\ idle <= IdleLimit
                /\ poll' = [poll EXCEPT ![r] = [state |-> "waiting", seen |-> file[r].mtime, idle |-> idle + 1]]
    /\ UNCHANGED <<scenario, server, claude, wire, orderly, file>>

\* the parent's own session ends, and the loop with it
ParentGone(r) ==
    LET a == run[run[r].parent].actor IN
    /\ poll[r].state = "waiting" /\ a # 0
    /\ a \notin live[actors[a].session]
    /\ Hears(r, "gone")
    /\ UNCHANGED <<scenario, server, claude, wire, orderly, file>>

-----------------------------------------------------------------------------
(* The forest of runs as /runs shows it. *)

Severity == [completed |-> 0, scheduled |-> 1, pending |-> 2, running |-> 3,
             rate_limited |-> 4, stuck |-> 5, failed |-> 6]
SeverityOf(status) == IF status \in DOMAIN Severity THEN Severity[status] ELSE 0

Children(r) == {c \in Runs : Exists(c) /\ run[c].parent = r}

\* the recursive query: r and what is at most TreeCap below it
Tree(r) ==
    LET level[d \in 0 .. TreeCap] ==
            IF d = 0 THEN {r} ELSE UNION {Children(x) : x \in level[d - 1]}
    IN UNION {level[d] : d \in 0 .. TreeCap}

\* children of one agent beyond the first are reworks
Reworks(children) == Cardinality(children) - Cardinality({run[c].agent : c \in children})

\* Seeded fault: what children gathered from below is not handed up
RollupOneLevel(r) ==
    LET below == Children(r) \cap Tree(r) IN
    [count |-> Cardinality(below),
     failed |-> Cardinality({c \in below : run[c].status \in {"failed", "stuck"}}),
     severity |-> Max({SeverityOf(run[x].status) : x \in below \cup {r}}),
     reworks |-> Reworks(below)]

\* _compute_rollups and _propagate_rework on the tree of r
Rollup(r) ==
    LET up[x \in Tree(r)] ==
            LET below == Children(x) \cap Tree(r) IN
            [count |-> SumFunction([c \in below |-> 1 + up[c].count]),
             failed |-> SumFunction([c \in below |-> up[c].failed + (IF run[c].status \in {"failed", "stuck"} THEN 1 ELSE 0)]),
             severity |-> Max({SeverityOf(run[x].status)} \cup {up[c].severity : c \in below}),
             reworks |-> Reworks(below) + SumFunction([c \in below |-> up[c].reworks])]
    IN up[r]

StatusRollup(r) == CHOOSE status \in DOMAIN Severity : Severity[status] = Rollup(r).severity

Roots == {r \in Runs : Exists(r) /\ run[r].parent = 0}
Pages == 1 .. Max({1, (Cardinality(Roots) + PerPage - 1) \div PerPage})
RootsOn(page) == {r \in Roots : Cardinality({q \in Roots : q > r}) \div PerPage = page - 1}

\* the filter looks at the rolled-up status, on the roots of one page
RunsTree(filter, page) ==
    {r \in RootsOn(page) : filter = "all" \/ StatusRollup(r) = filter}

-----------------------------------------------------------------------------
Init ==
    /\ scenario \in Scenarios
    /\ run = <<>> /\ actors = <<>> /\ wire = <<>>
    /\ live = [s \in Sessions |-> {}]
    /\ orderly = Sessions
    /\ memory = [a \in Agents |-> [count |-> 0, status |-> "unresolved"]]
    /\ file = [r \in 1 .. scenario.runs |-> [kind |-> "empty", mtime |-> 0]]
    /\ poll = [r \in 1 .. scenario.runs |-> [state |-> "off", seen |-> 0, idle |-> 0]]

Hooks ==
    \/ \E s \in scenario.sessions, cast \in BOOLEAN : UserPromptStart(s, cast)
    \/ \E s \in UserSessions : UserPromptStop(s)
    \/ \E s \in Sessions : \E a \in live[s] :
          \/ \E cast \in BOOLEAN : SubagentStart(s, a, cast)
          \/ SubagentStop(s, a)
          \/ SkillInvoke(s, a)

Serves == OpenCommand \/ CloseCommands \/ OpenSubagent \/ CloseSubagent \/ RecordSkill

Dispatched(r) ==
    \/ Refuse(r) \/ Launch(r) \/ DiscoverSession(r) \/ Finalize(r) \/ Stuck(r)
    \/ \E kind \in scenario.writes : ChildWrites(r, kind)

Next ==
    \/ Hooks \/ Serves \/ HourPasses \/ Restart
    \/ \E parent \in 0 .. Len(run), g \in scenario.agents : TriggerAgent(parent, g)
    \/ \E r \in Runs : Dispatched(r) \/ FailRun(r) \/ DeleteRun(r) \/ PollStep(r) \/ ParentGone(r)
    \/ \E t \in Terminals : TerminalEnds(t)
    \/ \E g \in Agents : ResolveMemory(g)

Spec == Init /\ [][Next]_vars

\* a parent that waits keeps polling: the loop does nothing else
FairSpec == Spec /\ \A r \in 1 .. Max({x.runs : x \in Scenarios}) : WF_vars(r \in Runs /\ PollStep(r))

-----------------------------------------------------------------------------
(* Properties. *)

\* In a session whose posts told the whole story, that is: none was lost, no row ended under an
\* actor that was still at work, a launched run was discovered before its first post, a turn
\* stayed under an hour, and among the live actors only the innermost posted: every subagent's
\* row hangs under the row of the nearest cast-* actor that started it, every skill is recorded
\* on the row of the nearest cast-* actor that used it, and a row is running exactly while its
\* actor is live or its end is still on the wire.  Whatever happens in the other sessions.
AttributedToItsActor ==
    \A r \in Runs : Where(r) \in orderly /\ run[r].kind # "dispatched" =>
        LET a == run[r].actor IN
        /\ run[r].kind = "subagent" => run[r].parent = RowOf(Owner(actors[a].by))
        /\ run[r].skills \subseteq {a}
        /\ run[r].status = "running" <=>
              \/ a \in live[Where(r)]
              \/ \E i \in 1 .. Len(wire) : wire[i].op \in {"done", "stop"} /\ wire[i].a = a

\* the root above r and the steps to it; 0 when a row on the way was deleted
RootOf(r) ==
    LET up[x \in 0 .. Len(run)] ==
            IF ~Exists(x) THEN 0 ELSE IF run[x].parent = 0 THEN x ELSE up[run[x].parent]
    IN up[r]

Steps(r) ==
    LET n[x \in 0 .. Len(run)] ==
            IF ~Exists(x) \/ run[x].parent = 0 THEN 0 ELSE 1 + n[run[x].parent]
    IN n[r]

\* Filtering the pages of /runs by "failed" lists exactly the roots that have a failed run at
\* most TreeCap below them with no deleted row in between, and a root counts exactly the failed
\* and stuck runs down there, whatever ended first and however the runs came to be.
FailureShows ==
    LET shown(status) == {r \in Runs : RootOf(r) # 0 /\ Steps(r) <= TreeCap /\ run[r].status \in status} IN
    /\ UNION {RunsTree("failed", p) : p \in Pages} = {RootOf(r) : r \in shown({"failed"})}
    /\ \A x \in Roots :
          Rollup(x).failed = Cardinality({r \in shown({"failed", "stuck"}) \ {x} : RootOf(r) = x})

\* A parent that waits for a run it delegated is told something in the end: the child's answer,
\* or a failure when the child tears the file, goes idle, was never launched or was refused.
ParentHears ==
    \A r \in 1 .. Max({x.runs : x \in Scenarios}) :
        (r \in Runs /\ poll[r].state = "waiting") ~> (r \in DOMAIN poll /\ poll[r].state # "waiting")

===============================================================================
