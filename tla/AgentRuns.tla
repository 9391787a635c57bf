------------------------------- MODULE AgentRuns -------------------------------
(***************************************************************************)
(* The life of agent runs: the dispatcher loop, the monitor loop, the      *)
(* delayed session clean-ups, the operations of the HTTP API, the agent    *)
(* processes in their tmux sessions, and a crash and restart of the server *)
(* (services/agent_service.py with routes/api_agents.py).                  *)
(*                                                                         *)
(* Every route and both loops run on one asyncio event loop and none       *)
(* suspends in the middle of its work, so a handler is one action.  Agent  *)
(* processes run outside that loop and move between any two actions; a     *)
(* crash may come anywhere, in the middle of a launch in particular.       *)
(***************************************************************************)
EXTENDS Naturals, FiniteSets

CONSTANTS
    MaxRuns,        \* bound: how many rows are ever created
    MaxConcurrent,  \* MAX_CONCURRENT_AGENTS
    Interactive,    \* the runs whose agent config says interactive
    Written,        \* what the output files of agents may say
    Enabled,        \* which optional operations and accidents may happen
    MaxContinues,   \* bound: continue and complete requests, all runs together
    MaxCrashes      \* bound: crashes of the server

Accidents == {"ask", "limit", "exit", "close", "typing", "crash", "leak"}
Requests  == {"schedule", "invoke", "cancel", "delete", "fail", "continue",
              "complete", "recheck"}

ASSUME AgentRunsAssumption ==
    /\ MaxRuns \in Nat
    /\ MaxConcurrent \in Nat
    /\ Interactive \subseteq 1 .. MaxRuns
    /\ Written \subseteq {"completed", "partial", "failed", "malformed"}
    /\ Enabled \subseteq Accidents \cup Requests
    /\ MaxContinues \in Nat
    /\ MaxCrashes \in Nat

\* A run is named by its place in the order of created_at.
Runs == 1 .. MaxRuns

VARIABLES
    status,     \* agent_runs.status of each row
    origin,     \* who opened the row: the queue, invoke_agent or a hook
    pane,       \* the tmux session of the run and what its pane shows
    output,     \* the file .agent-<id>.output.json
    idle,       \* _idle_since, as the age of its entry
    cooldown,   \* _cooldown_until, as whether its entry has passed
    cleanup,    \* the delayed clean-ups that have not fired
    server,     \* whether the server process runs
    continues,  \* requests counted against MaxContinues
    crashes     \* crashes so far

memory == <<idle, cooldown, cleanup>>
vars   == <<status, origin, pane, output, memory, server, continues, crashes>>

Finished == {"completed", "partial", "failed"}
Watched  == {"running", "rate_limited"}
Active   == {"running", "pending", "scheduled"}
Statuses == {"none", "stuck", "deleted"} \cup Finished \cup Watched \cup Active

ClaudePanes == {"working", "idle", "asking", "limited"}
Panes       == {"none", "shell"} \cup ClaudePanes

\* The ages _idle_since is compared at: absent, young, past the warning
\* threshold, past the stuck threshold.
Absent == 0
Young  == 1
Stale  == 3

TypeOK ==
    /\ status \in [Runs -> Statuses]
    /\ origin \in [Runs -> {"queue", "invoke", "hook"}]
    /\ pane \in [Runs -> Panes]
    /\ output \in [Runs -> {"none"} \cup Written]
    /\ idle \in [Runs -> Absent .. Stale]
    /\ cooldown \in [Runs -> {"none", "set", "expired"}]
    /\ cleanup \in [Runs -> Nat]
    /\ server \in {"up", "down"}
    /\ continues \in 0 .. MaxContinues
    /\ crashes \in 0 .. MaxCrashes

WithStatus(S) == {r \in Runs : status[r] \in S}
Rows          == {r \in Runs : status[r] \notin {"none", "deleted"}}

Init ==
    /\ status = [r \in Runs |-> "none"]
    /\ origin = [r \in Runs |-> "queue"]
    /\ pane = [r \in Runs |-> "none"]
    /\ output = [r \in Runs |-> "none"]
    /\ idle = [r \in Runs |-> Absent]
    /\ cooldown = [r \in Runs |-> "none"]
    /\ cleanup = [r \in Runs |-> 0]
    /\ server = "up"
    /\ continues = 0
    /\ crashes = 0

-------------------------------------------------------------------------------
(* New rows.                                                               *)

Fresh(r) ==
    /\ status[r] = "none"
    /\ \A q \in Runs : q < r => status[q] # "none"

\* trigger_agent: the row waits for the dispatcher, or for its scheduled_at.
TriggerAgent(r, st) ==
    /\ server = "up"
    /\ Fresh(r)
    /\ st = "pending" \/ "schedule" \in Enabled
    /\ status' = [status EXCEPT ![r] = st]
    /\ UNCHANGED <<origin, pane, output, memory, server, continues, crashes>>

\* A row that is born running: no dispatcher, no cap.
BornRunning(r, by, session) ==
    /\ server = "up"
    /\ "invoke" \in Enabled
    /\ Fresh(r)
    /\ status' = [status EXCEPT ![r] = "running"]
    /\ origin' = [origin EXCEPT ![r] = by]
    /\ pane' = [pane EXCEPT ![r] = session]
    /\ UNCHANGED <<output, memory, server, continues, crashes>>

\* invoke_agent: the agent runs in the caller's terminal; one that may delegate
\* also gets a session with a plain shell.
InvokeAgent(r) == \E session \in {"none", "shell"} : BornRunning(r, "invoke", session)

\* The UserPromptSubmit and SubagentStart hooks.
RegisterInvocation(r) == BornRunning(r, "hook", "none")

-------------------------------------------------------------------------------
(* The dispatcher.                                                         *)

\* Seeded faults: the running rows are not subtracted; one slot too few.
SlotsNotSubtracted ==
    IF Cardinality(WithStatus({"running"})) < MaxConcurrent THEN MaxConcurrent ELSE 0

SlotsOneShort ==
    IF Cardinality(WithStatus({"running"})) + 1 < MaxConcurrent
    THEN MaxConcurrent - Cardinality(WithStatus({"running"})) - 1
    ELSE 0

\* ORDER BY created_at ASC LIMIT slots, over the rows in S.
Oldest(S, slots) ==
    {batch \in SUBSET S :
        /\ \/ Cardinality(batch) = slots
           \/ batch = S /\ Cardinality(S) < slots
        /\ \A r \in batch, q \in S \ batch : r < q}

Slots == IF Cardinality(WithStatus({"running"})) < MaxConcurrent
         THEN MaxConcurrent - Cardinality(WithStatus({"running"}))
         ELSE 0

\* What a launch comes to.  "refused": blocked by an escalated error memory, or
\* an exception that leaves no new session behind (a session of that name
\* already exists, no terminal, claude not ready).  "abandoned": an exception
\* after claude was ready, which leaves the session.
LaunchEnds == {"started", "refused"} \cup
              (IF "leak" \in Enabled THEN {"abandoned"} ELSE {})

\* The batch is launched one run after another; status and pane after it,
\* when launch r came to outcome[r] and the runs in due were promoted.
Launched(batch, due, outcome) ==
    /\ \A r \in batch :
          outcome[r] \in {"started", "abandoned", "interrupted"} => pane[r] = "none"
    /\ status' = [r \in Runs |->
          IF r \in batch /\ outcome[r] = "started" THEN "running"
          ELSE IF r \in batch /\ outcome[r] \in {"refused", "abandoned"} THEN "failed"
          ELSE IF r \in due THEN "pending"
          ELSE status[r]]

\* _promote_scheduled_runs: the scheduled rows whose scheduled_at has passed.
DueRuns == SUBSET WithStatus({"scheduled"})

\* One iteration of _dispatcher_loop: promote the scheduled runs that are due,
\* count the running rows, launch the oldest pending ones into the free slots.
DispatcherTick ==
    /\ server = "up"
    /\ \E due \in DueRuns :
       \E batch \in Oldest(WithStatus({"pending"}) \cup due, Slots) :
       \E outcome \in [batch -> LaunchEnds] :
          /\ Launched(batch, due, outcome)
          /\ pane' = [r \in Runs |->
                IF r \in batch /\ outcome[r] = "started" THEN "working"
                ELSE IF r \in batch /\ outcome[r] = "abandoned" THEN "idle"
                ELSE pane[r]]
    /\ UNCHANGED <<origin, output, memory, server, continues, crashes>>

ForgetMemory ==
    /\ idle' = [r \in Runs |-> Absent]
    /\ cooldown' = [r \in Runs |-> "none"]
    /\ cleanup' = [r \in Runs |-> 0]

CrashServer ==
    /\ server = "up"
    /\ "crash" \in Enabled
    /\ crashes < MaxCrashes
    /\ crashes' = crashes + 1
    /\ server' = "down"
    /\ ForgetMemory

\* The server dies while it launches r: the runs of the batch before r are
\* done, r has no session yet or one with claude starting, ready or prompted and
\* a row that still says pending, those after r are untouched.
CrashInLaunch ==
    /\ CrashServer
    /\ \E due \in DueRuns :
       \E batch \in Oldest(WithStatus({"pending"}) \cup due, Slots) :
       \E r \in batch :
       \E outcome \in [batch -> LaunchEnds \cup {"interrupted", "untouched"}] :
       \E left \in {"none", "shell", "idle", "working"} :
          /\ \A q \in batch :
                /\ (q < r) <=> (outcome[q] \in LaunchEnds)
                /\ (q = r) <=> (outcome[q] = "interrupted")
          /\ Launched(batch, due, outcome)
          /\ pane' = [q \in Runs |->
                IF q = r THEN left
                ELSE IF q \in batch /\ outcome[q] = "started" THEN "working"
                ELSE IF q \in batch /\ outcome[q] = "abandoned" THEN "idle"
                ELSE pane[q]]
    /\ UNCHANGED <<origin, output, continues>>

\* The server dies between two handlers.
Crash ==
    /\ CrashServer
    /\ UNCHANGED <<status, origin, pane, output, continues>>

\* AgentOutput rejects a malformed file, which fails the run.
StatusOf(verdict) == IF verdict = "malformed" THEN "failed" ELSE verdict

\* Seeded fault: a watched row is believed.
RecoveredOnTrust(r) ==
    IF status[r] = "pending" /\ output[r] # "none" THEN StatusOf(output[r]) ELSE status[r]

\* What the startup recovery makes of a row.  A row whose session is alive is
\* left to the monitor; a rate-limited row is never rechecked, because
\* recheck_failed_run declines that status.
Recovered(r) ==
    IF status[r] \in {"pending", "running"} /\ output[r] # "none"
       /\ (status[r] = "running" => pane[r] = "none")
    THEN StatusOf(output[r])
    ELSE IF status[r] \in Watched /\ pane[r] = "none" THEN "failed"
    ELSE status[r]

\* The server starts: recover_stale_runs, then both loops.
Start ==
    /\ server = "down"
    /\ server' = "up"
    /\ status' = [r \in Runs |-> Recovered(r)]
    /\ UNCHANGED <<origin, pane, output, memory, continues, crashes>>

-------------------------------------------------------------------------------
(* The monitor.                                                            *)

\* The pane is captured only when its command is claude (or unknown), and
\* detect_agent_state answers UNKNOWN for a pane without content before it
\* looks at the command: a pane back at the shell reads as UNKNOWN.
PaneContent(r) == IF pane[r] \in ClaudePanes THEN pane[r] ELSE "empty"

DetectState(r) ==
    IF PaneContent(r) = "empty" THEN "UNKNOWN"
    ELSE IF pane[r] = "shell" THEN "SHELL_RETURNED"
    ELSE PaneContent(r)

\* Seeded fault: the clean-up of the session is forgotten.
FinalizeOnly(r) ==
    /\ status' = [status EXCEPT ![r] = StatusOf(output[r])]
    /\ idle' = [idle EXCEPT ![r] = Absent]
    /\ cooldown' = [cooldown EXCEPT ![r] = "none"]
    /\ UNCHANGED <<pane, cleanup>>

\* _finalize_run_from_monitor: the verdict of the output file becomes the
\* status, the memory of the run goes, its session will be closed in 30 s.
Finalize(r) ==
    /\ status' = [status EXCEPT ![r] = StatusOf(output[r])]
    /\ idle' = [idle EXCEPT ![r] = Absent]
    /\ cooldown' = [cooldown EXCEPT ![r] = "none"]
    /\ cleanup' = [cleanup EXCEPT ![r] = @ + 1]
    /\ UNCHANGED pane

SeeWorking(r) ==
    /\ idle' = [idle EXCEPT ![r] = Absent]
    /\ UNCHANGED <<status, pane, cooldown, cleanup>>

\* Seeded faults: an agent at rest is taken to be done; every tick restarts the
\* idle timer.
SeeIdleAsDone(r) ==
    /\ status' = [status EXCEPT ![r] = "completed"]
    /\ UNCHANGED <<pane, idle, cooldown, cleanup>>

SeeIdleAnew(r) ==
    /\ idle' = [idle EXCEPT ![r] = IF r \in Interactive THEN Absent ELSE Young]
    /\ status' = [status EXCEPT ![r] = IF idle'[r] = Stale THEN "stuck" ELSE @]
    /\ UNCHANGED <<pane, cooldown, cleanup>>

\* Idle without an output: the idle timer runs, except for interactive runs.
SeeIdle(r) ==
    /\ idle' = [idle EXCEPT ![r] =
          IF r \in Interactive THEN Absent ELSE IF @ = Absent THEN Young ELSE @]
    /\ status' = [status EXCEPT ![r] = IF idle'[r] = Stale THEN "stuck" ELSE @]
    /\ UNCHANGED <<pane, cooldown, cleanup>>

\* A [y/n] prompt.
SeeAsking(r) ==
    /\ status' = [status EXCEPT ![r] = "stuck"]
    /\ UNCHANGED <<pane, idle, cooldown, cleanup>>

\* Seeded fault: no cooldown is noted.
SeeLimitUntimed(r) ==
    /\ status[r] = "running"
    /\ status' = [status EXCEPT ![r] = "rate_limited"]
    /\ UNCHANGED <<pane, idle, cooldown, cleanup>>

\* The limit is first seen: the run pauses until the parsed reset time.
SeeLimitFirst(r) ==
    /\ status[r] = "running"
    /\ status' = [status EXCEPT ![r] = "rate_limited"]
    /\ cooldown' = [cooldown EXCEPT ![r] = "set"]
    /\ UNCHANGED <<pane, idle, cleanup>>

\* The cooldown has passed: Enter wakes claude, unless the limit still holds.
SeeLimitOver(r) ==
    /\ status[r] = "rate_limited"
    /\ cooldown[r] = "expired"
    /\ status' = [status EXCEPT ![r] = "running"]
    /\ cooldown' = [cooldown EXCEPT ![r] = "none"]
    /\ \E woken \in {"working", "limited"} : pane' = [pane EXCEPT ![r] = woken]
    /\ UNCHANGED <<idle, cleanup>>

\* Seeded fault: rate-limited rows are not watched.
VisitRunningOnly(r) ==
    /\ server = "up"
    /\ status[r] = "running"
    /\ \/ DetectState(r) = "working" /\ SeeWorking(r)
       \/ DetectState(r) = "idle" /\ output[r] # "none" /\ Finalize(r)
       \/ DetectState(r) = "idle" /\ output[r] = "none" /\ SeeIdle(r)
       \/ DetectState(r) = "asking" /\ SeeAsking(r)
       \/ DetectState(r) = "limited" /\ (SeeLimitFirst(r) \/ SeeLimitOver(r))
    /\ UNCHANGED <<origin, output, server, continues, crashes>>

\* One row of a tick of _check_all_agents.  The visits of one tick commute with
\* the handlers of other rows, so the tick is not a step of its own.
MonitorVisit(r) ==
    /\ server = "up"
    /\ status[r] \in Watched
    /\ \/ DetectState(r) = "working" /\ SeeWorking(r)
       \/ DetectState(r) \in {"idle", "SHELL_RETURNED"} /\ output[r] # "none" /\ Finalize(r)
       \/ DetectState(r) = "idle" /\ output[r] = "none" /\ SeeIdle(r)
       \/ DetectState(r) = "asking" /\ SeeAsking(r)
       \/ DetectState(r) = "limited" /\ (SeeLimitFirst(r) \/ SeeLimitOver(r))
    /\ UNCHANGED <<origin, output, server, continues, crashes>>

\* _cleanup_parent_session, 30 s after it was scheduled: whatever the row says
\* by now, the session is killed.
CleanupFires(r) ==
    /\ server = "up"
    /\ cleanup[r] > 0
    /\ cleanup' = [cleanup EXCEPT ![r] = @ - 1]
    /\ pane' = [pane EXCEPT ![r] = "none"]
    /\ UNCHANGED <<status, origin, output, idle, cooldown, server, continues, crashes>>

-------------------------------------------------------------------------------
(* Requests of users and agents.                                           *)

\* The session is killed, the row fails, the memory of the run is cleared.
CancelRun(r) ==
    /\ server = "up"
    /\ "cancel" \in Enabled
    /\ status[r] \in Active
    /\ status' = [status EXCEPT ![r] = "failed"]
    /\ pane' = [pane EXCEPT ![r] = "none"]
    /\ idle' = [idle EXCEPT ![r] = Absent]
    /\ cooldown' = [cooldown EXCEPT ![r] = "none"]
    /\ UNCHANGED <<origin, output, cleanup, server, continues, crashes>>

\* Refuses running, pending and scheduled rows only.
DeleteRun(r) ==
    /\ server = "up"
    /\ "delete" \in Enabled
    /\ r \in Rows
    /\ status[r] \notin Active
    /\ status' = [status EXCEPT ![r] = "deleted"]
    /\ UNCHANGED <<origin, pane, output, memory, server, continues, crashes>>

\* Refuses completed and failed rows only; the session is left alone.
FailRun(r) ==
    /\ server = "up"
    /\ "fail" \in Enabled
    /\ r \in Rows
    /\ status[r] \notin {"completed", "failed"}
    /\ status' = [status EXCEPT ![r] = "failed"]
    /\ idle' = [idle EXCEPT ![r] = Absent]
    /\ cooldown' = [cooldown EXCEPT ![r] = "none"]
    /\ UNCHANGED <<origin, pane, output, cleanup, server, continues, crashes>>

\* Seeded fault: the session is not looked for.
ContinueUnchecked(r) ==
    /\ server = "up"
    /\ "continue" \in Enabled
    /\ continues < MaxContinues
    /\ continues' = continues + 1
    /\ r \in Rows
    /\ status' = [status EXCEPT ![r] = "running"]
    /\ pane' = [pane EXCEPT ![r] = IF @ = "idle" THEN "working" ELSE @]
    /\ UNCHANGED <<origin, output, memory, server, crashes>>

\* The message reaches a claude that waits; the row runs again.  Neither the
\* output of the earlier turn nor a scheduled clean-up is touched.
ContinueRun(r) ==
    /\ server = "up"
    /\ "continue" \in Enabled
    /\ continues < MaxContinues
    /\ continues' = continues + 1
    /\ r \in Rows
    /\ pane[r] # "none"
    /\ status' = [status EXCEPT ![r] = "running"]
    /\ pane' = [pane EXCEPT ![r] = IF @ = "idle" THEN "working" ELSE @]
    /\ UNCHANGED <<origin, output, memory, server, crashes>>

\* POST /runs/{id}/complete: whatever the status was.
CompleteRun(r) ==
    /\ server = "up"
    /\ "complete" \in Enabled
    /\ continues < MaxContinues
    /\ continues' = continues + 1
    /\ r \in Rows
    /\ status' = [status EXCEPT ![r] = "completed"]
    /\ cleanup' = [cleanup EXCEPT ![r] = @ + 1]
    /\ UNCHANGED <<origin, pane, output, idle, cooldown, server, crashes>>

\* The Stop and SubagentStop hooks close an invocation row that still runs (Stop
\* every such row of its Claude session; their order does not matter).
CompleteInvocation(r) ==
    /\ server = "up"
    /\ origin[r] = "hook"
    /\ status[r] = "running"
    /\ status' = [status EXCEPT ![r] = "completed"]
    /\ UNCHANGED <<origin, pane, output, memory, server, continues, crashes>>

\* recheck_failed_run: the verdict of the output, no clean-up scheduled.
RecheckRun(r) ==
    /\ server = "up"
    /\ "recheck" \in Enabled
    /\ status[r] \in {"failed", "running", "pending"}
    /\ output[r] # "none"
    /\ status' = [status EXCEPT ![r] = StatusOf(output[r])]
    /\ UNCHANGED <<origin, pane, output, memory, server, continues, crashes>>

-------------------------------------------------------------------------------
(* Agent processes, terminals and time: code outside the repository.       *)

MovePane(r, from, to) ==
    /\ pane[r] \in from
    /\ pane' = [pane EXCEPT ![r] = to]
    /\ UNCHANGED <<status, origin, output, memory, server, continues, crashes>>

AgentWrites(r, verdict) ==
    /\ pane[r] = "working" \/ origin[r] = "invoke"
    /\ output' = [output EXCEPT ![r] = verdict]
    /\ UNCHANGED <<status, origin, pane, memory, server, continues, crashes>>

AgentIdles(r)     == MovePane(r, {"working"}, "idle")
AgentAsks(r)      == "ask" \in Enabled /\ MovePane(r, {"working"}, "asking")
AgentLimited(r)   == "limit" \in Enabled /\ MovePane(r, {"working"}, "limited")
AgentExits(r)     == "exit" \in Enabled /\ MovePane(r, ClaudePanes, "shell")
UserTypes(r)      == "typing" \in Enabled /\ MovePane(r, ClaudePanes \ {"working"}, "working")
SessionCloses(r)  == "close" \in Enabled /\ MovePane(r, Panes \ {"none"}, "none")

IdleElapses(r) ==
    /\ idle[r] \in Young .. Stale - 1
    /\ idle' = [idle EXCEPT ![r] = @ + 1]
    /\ UNCHANGED <<status, origin, pane, output, cooldown, cleanup, server, continues, crashes>>

CooldownElapses(r) ==
    /\ cooldown[r] = "set"
    /\ cooldown' = [cooldown EXCEPT ![r] = "expired"]
    /\ UNCHANGED <<status, origin, pane, output, idle, cleanup, server, continues, crashes>>

-------------------------------------------------------------------------------

Request(r) ==
    \/ \E st \in {"pending", "scheduled"} : TriggerAgent(r, st)
    \/ InvokeAgent(r)
    \/ RegisterInvocation(r)
    \/ CancelRun(r)
    \/ DeleteRun(r)
    \/ FailRun(r)
    \/ ContinueRun(r)
    \/ CompleteRun(r)
    \/ CompleteInvocation(r)
    \/ RecheckRun(r)

Environment(r) ==
    \/ \E verdict \in Written : AgentWrites(r, verdict)
    \/ AgentIdles(r)
    \/ AgentAsks(r)
    \/ AgentLimited(r)
    \/ AgentExits(r)
    \/ UserTypes(r)
    \/ SessionCloses(r)
    \/ IdleElapses(r)
    \/ CooldownElapses(r)

Next ==
    \/ DispatcherTick
    \/ CrashInLaunch
    \/ Crash
    \/ Start
    \/ \E r \in Runs :
          \/ MonitorVisit(r)
          \/ CleanupFires(r)
          \/ Request(r)
          \/ Environment(r)

Spec == Init /\ [][Next]_vars

\* Both loops keep ticking, scheduled clean-ups fire, time passes, and a server
\* that is down is started again.  Nothing is assumed of agents and users.
Fairness ==
    /\ WF_vars(DispatcherTick)
    /\ WF_vars(Start)
    /\ \A r \in Runs :
          /\ WF_vars(MonitorVisit(r))
          /\ WF_vars(CleanupFires(r))
          /\ WF_vars(IdleElapses(r))
          /\ WF_vars(CooldownElapses(r))

FairSpec == Spec /\ Fairness

\* Agents that work also come to rest, and some day the rate limits end and users
\* stop waking agents up.
Resting ==
    \A r \in Runs :
        /\ SF_vars(AgentIdles(r))
        /\ <>[](pane[r] # "limited")
        /\ <>[][~UserTypes(r)]_vars

-------------------------------------------------------------------------------
(* Safety.                                                                 *)

Waiting == {"scheduled", "pending"}

\* A waiting run that had no session starts to run: the dispatcher launched it.
LaunchedNow(r) == status[r] \in Waiting /\ pane[r] = "none" /\ status'[r] = "running"

\* The dispatcher never launches past MAX_CONCURRENT_AGENTS: after a launch, no
\* more rows are running than that, whatever invocations, continued or resumed
\* runs took the slots before (_dispatcher_loop counts the rows it has itself
\* promoted and launched in the tick).
LaunchesWithinCap ==
    [][(\E r \in Runs : LaunchedNow(r))
         => Cardinality({r \in Runs : status'[r] = "running"}) <= MaxConcurrent]_vars

\* No run is launched ahead of an older one that is left waiting for a slot,
\* also when the older one was scheduled and became due in this very tick, and
\* also when the server dies in the middle of the batch.
OldestFirst ==
    [][\A r, q \in Runs : LaunchedNow(r) /\ q < r => status'[q] # "pending"]_vars

\* A run that has left the queue never gets back into it: no crash, recovery,
\* recheck or continue makes the dispatcher launch the same work again.
NeverRequeued ==
    [][\A r \in Runs : status[r] \notin Waiting \cup {"none"}
         => status'[r] \notin Waiting \cup {"none"}]_vars

\* A finished run runs again only in a session it still has.
RevivedInItsSession ==
    [][\A r \in Runs : status[r] \in Finished /\ status'[r] = "running"
         => pane[r] # "none"]_vars

\* Unless a user deletes, fails or rechecks a run, or the server crashes or
\* loses a launch, every session belongs to a row the monitor watches or that
\* waits for a human as stuck, or will be closed by a scheduled clean-up.
SessionAccounted ==
    \A r \in Runs : pane[r] # "none"
        => status[r] \in Watched \cup {"stuck"} \/ cleanup[r] > 0

\* Until the server crashes, a rate-limited run has a cooldown that will end.
RateLimitedHasTimer ==
    crashes = 0 => \A r \in Runs : status[r] = "rate_limited" => cooldown[r] # "none"

\* A dispatched run is completed or partial only with an output file to show
\* for it, unless someone posts /complete.
SuccessHasOutput ==
    "complete" \notin Enabled =>
        \A r \in Runs : origin[r] = "queue" /\ status[r] \in {"completed", "partial"}
            => output[r] # "none"

\* After a restart the monitor watches no run whose session is gone.
RecoveryLeavesNoGhost ==
    [][server = "down" /\ server' = "up"
         => \A r \in Runs : status'[r] \in Watched => pane[r] # "none"]_vars

\* MAX_CONCURRENT_AGENTS bounds the dispatched runs that run at one time.
CapHolds ==
    Cardinality({r \in WithStatus({"running"}) : origin[r] = "queue"}) <= MaxConcurrent

\* A clean-up scheduled when a run finished never kills the session of a run
\* that has since been continued.
CleanupSparesContinued ==
    [][\A r \in Runs : cleanup'[r] < cleanup[r] /\ server' = "up" /\ status[r] = "running"
         => pane'[r] = pane[r]]_vars

-------------------------------------------------------------------------------
(* Liveness.                                                               *)

\* A watched run whose agent rests with its output written gets its verdict.
OutputHarvested ==
    \A r \in Runs : status[r] \in Watched /\ pane[r] = "idle" /\ output[r] # "none"
        ~> status[r] \notin Watched \/ pane[r] # "idle"

\* An agent that rests without an output does not hold its slot for ever.
IdleRunFlagged ==
    \A r \in Runs \ Interactive :
        status[r] \in Watched /\ pane[r] = "idle" /\ output[r] = "none"
            ~> status[r] \notin Watched \/ pane[r] # "idle" \/ output[r] # "none"

\* If the agents and users let go of the slots, every pending run is launched or
\* otherwise leaves the queue.
PendingServed ==
    Resting => \A r \in Runs : status[r] = "pending" ~> status[r] # "pending"

\* Until the server crashes, a rate-limited run whose pane still shows the limit
\* is woken.
RateLimitedResumes ==
    \A r \in Runs : status[r] = "rate_limited" /\ pane[r] = "limited"
        ~> status[r] # "rate_limited" \/ pane[r] # "limited" \/ crashes > 0

===============================================================================
