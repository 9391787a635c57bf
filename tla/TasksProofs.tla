------------------------------ MODULE TasksProofs ------------------------------
(* Proofs about Goals and Tasks, for any goals, projects, workflows, tasks and *)
(* runs, and any number of handlers, kills and removals.                       *)
EXTENDS Tasks, FiniteSetTheorems, TLAPS

-------------------------------------------------------------------------------
(* Type correctness.                                                       *)

\* What a handler may have changed and has yet to mirror: the loop a status, a phase
\* or the focus, a thread the workflow.
Changed(w) ==
    IF w = "loop"
    THEN [status : Statuses] \cup [status : {"accepted"}, phase : Phases] \cup [phase : Phases]
            \cup [focus : BOOLEAN]
    ELSE [family : Families]

\* What a goal is left with when it is new or accepted.
Starting == [status : {"accepted", "idea"}] \cup [status : {"accepted"}, phase : Phases]

\* The columns a change may touch.
Fielded(c) ==
    /\ DOMAIN c \subseteq {"status", "phase", "focus", "family"}
    /\ "status" \in DOMAIN c => c["status"] \in Statuses
    /\ "phase" \in DOMAIN c => c["phase"] \in Phases
    /\ "focus" \in DOMAIN c => c["focus"] \in BOOLEAN
    /\ "family" \in DOMAIN c => c["family"] \in Families

\* A handler that has something left to do is one of a goal.
Reading(w) == [at : {"read"}, goal : Slugs, fields : Changed(w), place : {None}, seen : {None}]
Writing(w) == [at : {"write"}, goal : Slugs, fields : Changed(w), place : Places, seen : Files]
Seeding(w) ==
    IF w = "loop" THEN [at : {"tasks"}, goal : Slugs, fields : Starting, place : {None}, seen : {None}] ELSE {}
HandlerStates(w) == {Idle} \cup Reading(w) \cup Writing(w) \cup Seeding(w)

GoalTyping ==
    /\ scenario \in Scenarios
    /\ row \in [Slugs -> Rows \cup {None}]
    /\ file \in [Slugs -> [Places -> Files \cup {None}]]
    /\ cast \in [Dirs -> [legacy : BOOLEAN, links : SUBSET Slugs]]
    /\ there \subseteq Dirs
    /\ torn \subseteq Slugs /\ gone \subseteq Slugs
    /\ DOMAIN writer = Writers
    /\ \A w \in Writers : writer[w] \in HandlerStates(w)

\* What a step does to the goals, whatever else it does.
Starts(s) ==
    LET w == writer["loop"] IN
    /\ w.at = "tasks" /\ w.goal = s
    /\ row' = [row EXCEPT ![s] = With(@, w.fields)]
    /\ writer' = [writer EXCEPT !["loop"] = Idle]
    /\ UNCHANGED <<scenario, file, cast, there, torn, gone, kills, removals>>

Change(w, s, c) == writer[w] = Idle /\ row[s] # None /\ Changes(w, s, c)

\* A goal is created or changed, or its mirror written, where the goal is.
QuietStep ==
    \/ UNCHANGED goalVars
    \/ \E s \in Slugs, status \in {"accepted", "idea"} : CreateGoal(s, status)
    \/ \E w \in Writers : \E s \in Slugs, c \in Changed(w) : Change(w, s, c)
    \/ \E w \in Writers : ReadFile(w)
    \/ \E w \in Writers : WriteFile(w)
    \/ \E s \in Slugs : LaunchLink(s)
    \/ KillGoals

GoalStep ==
    \/ QuietStep
    \/ \E s \in Slugs, d \in Dirs : UpdateConfig(s, d)
    \/ \E d \in Dirs : RemoveDir(d)
    \/ \E s \in Slugs : Starts(s)

LEMMA ChangedIsFielded ==
    ASSUME NEW w, NEW c \in Changed(w) PROVE Fielded(c)
  BY DEF Changed, Fielded, Statuses, Phases

LEMMA StartingIsFielded ==
    ASSUME NEW c \in Starting PROVE Fielded(c)
  BY DEF Starting, Fielded, Statuses, Phases

\* A row that is changed has the new columns and keeps the others.
LEMMA WithRow ==
    ASSUME NEW old \in Rows, NEW c, Fielded(c)
    PROVE  /\ With(old, c) \in Rows
           /\ \A f \in Mirrored \cup {"folder"} : With(old, c)[f] = IF f \in DOMAIN c THEN c[f] ELSE old[f]
  BY DEF Rows, With, Fielded, Mirrored

LEMMA WithFile ==
    ASSUME NEW old \in Files, NEW c, Fielded(c)
    PROVE  /\ With(old, c) \in Files
           /\ \A f \in Mirrored : With(old, c)[f] = IF f \in DOMAIN c THEN c[f] ELSE old[f]
  BY DEF Files, With, Fielded, Mirrored

LEMMA NewTyped == NewRow \in Rows /\ NewFile \in Files /\ \A f \in Mirrored : NewFile[f] = NewRow[f]
  BY DEF NewRow, NewFile, Rows, Files, Mirrored, Statuses, Phases, Places

\* What a handler's state says of it.
LEMMA Handler ==
    ASSUME NEW w, NEW x \in HandlerStates(w)
    PROVE  /\ x.at \in {"idle", "read", "write", "tasks"}
           /\ x.at = "idle" <=> x = Idle
           /\ x # Idle => x.goal \in Slugs
           /\ x.at \in {"read", "write"} => x.fields \in Changed(w)
           /\ x.at = "write" => x.place \in Places /\ x.seen \in Files
           /\ x.at = "tasks" => w = "loop" /\ x.fields \in Starting
  BY GoalConstants DEF HandlerStates, Idle, Reading, Writing, Seeding

Lines == [id : TaskIds, under : TaskIds \cup {None}, status : TaskStatuses]
RunRows == [task : TaskIds, status : {"scheduled", "pending", "running", "rate_limited", "ended"},
            asked : BOOLEAN, again : BOOLEAN]

TaskTyping ==
    /\ task \in [TaskIds -> TaskRows \cup {None}]
    /\ board \in [Slugs -> [Places -> (SUBSET Lines) \cup {None}]]
    /\ behind \subseteq Slugs

RunTyping == run \in [Runs -> RunRows \cup {None}]

-------------------------------------------------------------------------------
(* The inductive invariant.                                                *)

Mirroring(w) == writer[w].at \in {"read", "write"}

\* Whatever a handler does is done to a goal there is, and the row has what the handler
\* has yet to mirror; two handlers of a goal do not have the same column to mirror.
Agrees(w) ==
    LET s == writer[w].goal
        fields == writer[w].fields IN
    writer[w] # Idle =>
        /\ row[s] # None
        /\ s \notin torn \cup gone =>
              /\ Mirroring(w) =>
                    /\ \A f \in DOMAIN fields : row[s][f] = fields[f]
                    /\ \A x \in Writers \ {w} :
                          Mirroring(x) /\ writer[x].goal = s => DOMAIN writer[x].fields \cap DOMAIN fields = {}
              /\ writer[w].at = "tasks" =>
                    /\ row[s].status = "accepted"
                    /\ "phase" \in DOMAIN fields => row[s].phase = fields["phase"]

\* A goal whose project was not removed is where its row says, and linked there.
Housed(s) ==
    row[s] # None /\ s \notin gone =>
        /\ row[s].folder \in there \cup {Home}
        /\ row[s].folder = IF row[s].ext = None THEN Home ELSE row[s].ext
        /\ row[s].ext # None => s \in cast[row[s].ext].links

Linking == \A d \in Dirs : cast[d].legacy => cast[d].links = {}

\* The files of a goal are in one place.
FileInOnePlace(s) ==
    /\ row[s] = None => \A p \in Places : file[s][p] = None
    /\ row[s] # None /\ s \notin torn \cup gone =>
          /\ file[s][row[s].folder] # None
          /\ \A p \in Places \ {row[s].folder} : file[s][p] = None

BoardInOnePlace(s) ==
    /\ row[s] = None => \A p \in Places : board[s][p] = None
    /\ row[s] # None /\ s \notin torn \cup gone => \A p \in Places \ {row[s].folder} : board[s][p] = None

\* goal.yaml lacks only what a handler has yet to mirror.
AllButPending(s) ==
    row[s] # None /\ s \notin torn \cup gone =>
        \A f \in Mirrored :
            \/ file[s][row[s].folder][f] = row[s][f]
            \/ f = "status" /\ row[s].status = "idea"
            \/ \E w \in Writers : Mirroring(w) /\ writer[w].goal = s /\ f \in DOMAIN writer[w].fields

\* Tasks are of goals there are.
Owned == \A t \in TaskIds : task[t] # None => row[task[t].goal] # None

\* The board lists the tasks, but for a new goal that is about to get its first.
Listing(s) ==
    row[s] # None /\ s \notin behind \cup torn \cup gone =>
        \/ board[s][row[s].folder] = Listed(task, s)
        \/ writer["loop"].at = "tasks" /\ writer["loop"].goal = s /\ TasksOf(task, s) = {}

\* Two runs that the board started for one task and that never stopped are the same.
Counts(r) ==
    run[r] # None /\ run[r].status \in {"scheduled", "pending", "running"} /\ run[r].asked /\ ~run[r].again

SingleRun == \A q, r \in Runs : Counts(q) /\ Counts(r) /\ run[q].task = run[r].task => q = r

GoalInv ==
    /\ GoalTyping /\ Linking
    /\ \A w \in Writers : Agrees(w)
    /\ \A s \in Slugs : Housed(s) /\ FileInOnePlace(s) /\ AllButPending(s)

TaskInv == TaskTyping /\ Owned /\ \A s \in Slugs : BoardInOnePlace(s) /\ Listing(s)

-------------------------------------------------------------------------------
(* The goals' part of a step.                                              *)

LEMMA InScenario ==
    ASSUME GoalTyping
    PROVE  /\ scenario.goals \subseteq Slugs /\ scenario.dirs \subseteq Dirs
           /\ scenario.threads \subseteq Threads
           /\ scenario.statuses \subseteq Statuses /\ scenario.phases \subseteq Phases
  BY GoalConstants DEF GoalTyping

LEMMA RenderedStep ==
    ASSUME NEW s, Rendered(s) \/ NotRendered(s) PROVE GoalStep
  BY DEF Rendered, NotRendered, GoalStep, QuietStep

LEMMA GoalNextQuiet ==
    ASSUME GoalTyping, NEW s \in Slugs, GoalNext(s) PROVE QuietStep
  <1>1. ASSUME NEW status \in scenario.statuses \cap {"accepted", "idea"}, CreateGoal(s, status)
        PROVE  QuietStep
    BY <1>1 DEF QuietStep
  <1>2. ASSUME NEW target \in scenario.statuses, UpdateStatus(s, target) PROVE QuietStep
    <2>1. target \in Statuses
      BY InScenario
    <2> DEFINE c == IF Accepts(s, target) THEN [status |-> target, phase |-> "requirements"]
                    ELSE [status |-> target]
    <2>2. c \in Changed("loop")
      BY <2>1 DEF Changed, Accepts, Phases
    <2>3. "loop" \in Writers /\ Change("loop", s, c)
      BY <1>2 DEF UpdateStatus, Free, Change, Writers
    <2> QED
      BY <2>2, <2>3 DEF QuietStep
  <1>3. ASSUME NEW target \in scenario.phases, UpdatePhase(s, target) PROVE QuietStep
    <2>1. target \in Phases
      BY InScenario
    <2>2. [phase |-> target] \in Changed("loop")
      BY <2>1 DEF Changed
    <2>3. "loop" \in Writers /\ Change("loop", s, [phase |-> target])
      BY <1>3 DEF UpdatePhase, Free, Change, Writers
    <2> QED
      BY <2>2, <2>3 DEF QuietStep
  <1>4. ASSUME ToggleFocus(s) PROVE QuietStep
    <2> DEFINE c == [focus |-> ~row[s].focus]
    <2>1. row[s] \in Rows
      BY <1>4 DEF ToggleFocus, GoalTyping
    <2>2. c \in Changed("loop")
      BY <2>1 DEF Changed, Rows
    <2>3. "loop" \in Writers /\ Change("loop", s, c)
      BY <1>4 DEF ToggleFocus, Free, Change, Writers
    <2> QED
      BY <2>2, <2>3 DEF QuietStep
  <1>5. ASSUME NEW w \in scenario.threads, NEW asked, RouteGoal(w, s, asked) PROVE QuietStep
    <2>1. PICK family \in Families : RecordRouting(w, s, family)
      BY <1>5 DEF RouteGoal
    <2>2. w \in Threads
      BY InScenario
    <2>3. w \in Writers /\ [family |-> family] \in Changed(w)
      BY <2>2, GoalConstants DEF Changed, Writers
    <2>4. Change(w, s, [family |-> family])
      BY <2>1 DEF RecordRouting, Change
    <2> QED
      BY <2>3, <2>4 DEF QuietStep
  <1>6. ASSUME LaunchLink(s) PROVE QuietStep
    BY <1>6 DEF QuietStep
  <1> QED
    BY <1>1, <1>2, <1>3, <1>4, <1>5, <1>6 DEF GoalNext

LEMMA TaskNextStep ==
    ASSUME NEW t, TaskNext(t) PROVE GoalStep
  <1>1. ASSUME NEW status, RunAgent(t, status) PROVE GoalStep
    BY <1>1, RenderedStep DEF RunAgent, GoalStep, QuietStep
  <1>2. ASSUME Trigger(t) PROVE GoalStep
    BY <1>2 DEF Trigger, GoalStep, QuietStep
  <1> QED
    BY <1>1, <1>2, RenderedStep
       DEF TaskNext, UpdateTaskStatus, UpdateTask, Approve, ApproveGroup, ApproveParentOnly, Decline, DeclineGroup

LEMMA Steps ==
    ASSUME GoalTyping, [Next]_vars PROVE GoalStep
  <1>1. CASE UNCHANGED vars
    BY <1>1 DEF vars, GoalStep, QuietStep
  <1>2. ASSUME NEW s \in scenario.goals, GoalNext(s) PROVE GoalStep
    BY <1>2, GoalNextQuiet, InScenario DEF GoalStep
  <1>3. ASSUME NEW w \in Writers, ReadFile(w) \/ WriteFile(w) PROVE GoalStep
    BY <1>3 DEF GoalStep, QuietStep
  <1>4. ASSUME NEW s \in scenario.goals, StarterTasks(s) PROVE GoalStep
    <2>1. s \in Slugs
      BY InScenario
    <2>2. KillGoals \/ Starts(s)
      BY <1>4 DEF StarterTasks, Starts
    <2> QED
      BY <2>1, <2>2 DEF GoalStep, QuietStep
  <1>5. ASSUME NEW s \in scenario.goals, NEW d \in scenario.dirs, Route(s, d) PROVE GoalStep
    BY <1>5, InScenario DEF Route, GoalStep
  <1>6. ASSUME NEW d \in scenario.dirs, Remove(d) PROVE GoalStep
    BY <1>6, InScenario DEF Remove, GoalStep
  <1>7. ASSUME NEW s, NEW p, NEW status, Create(s, p, status) PROVE GoalStep
    BY <1>7, RenderedStep DEF Create
  <1>8. ASSUME NEW r, RunStep(r) \/ Continue(r) PROVE GoalStep
    BY <1>8 DEF RunStep, Continue, GoalStep, QuietStep
  <1>9. ASSUME KillGoals PROVE GoalStep
    BY <1>9 DEF GoalStep, QuietStep
  <1> QED
    BY <1>1, <1>2, <1>3, <1>4, <1>5, <1>6, <1>7, <1>8, <1>9, TaskNextStep DEF Next

-------------------------------------------------------------------------------
(* Every goals' step keeps the types.                                      *)

LEMMA Left ==
    ASSUME NEW s \in Slugs, NEW c \in Starting
    PROVE  /\ ToTasks(s, c) \in Seeding("loop")
           /\ ToTasks(s, c).at = "tasks" /\ ToTasks(s, c).goal = s /\ ToTasks(s, c).fields = c
  BY DEF ToTasks, Idle, Seeding

LEMMA Accepting ==
    ASSUME NEW w, NEW c \in Changed(w), DOMAIN c = {"status", "phase"}
    PROVE  w = "loop" /\ c \in [status : {"accepted"}, phase : Phases]
  <1>1. c \notin [status : Statuses]
    <2>1. ASSUME c \in [status : Statuses] PROVE DOMAIN c = {"status"}
      BY <2>1
    <2> QED
      BY <2>1
  <1>2. c \notin [phase : Phases]
    <2>1. ASSUME c \in [phase : Phases] PROVE DOMAIN c = {"phase"}
      BY <2>1
    <2> QED
      BY <2>1
  <1>3. c \notin [focus : BOOLEAN]
    <2>1. ASSUME c \in [focus : BOOLEAN] PROVE DOMAIN c = {"focus"}
      BY <2>1
    <2> QED
      BY <2>1
  <1>4. c \notin [family : Families]
    <2>1. ASSUME c \in [family : Families] PROVE DOMAIN c = {"family"}
      BY <2>1
    <2> QED
      BY <2>1
  <1> QED
    BY <1>1, <1>2, <1>3, <1>4 DEF Changed

\* A handler of a change that is through is idle, or left with the starter tasks.
LEMMA DoneWith ==
    ASSUME NEW w \in Writers, writer[w] \in HandlerStates(w), Mirroring(w)
    PROVE  /\ Done(w) \in {Idle} \cup Seeding(w)
           /\ Done(w) # Idle =>
                 /\ w = "loop" /\ Done(w).at = "tasks" /\ Done(w).goal = writer[w].goal
                 /\ Done(w).fields = writer[w].fields /\ writer[w].fields \in [status : {"accepted"}, phase : Phases]
  <1> DEFINE c == writer[w].fields
  <1>1. writer[w].goal \in Slugs /\ c \in Changed(w)
    BY Handler DEF Mirroring
  <1>2. CASE DOMAIN c = {"status", "phase"}
    <2>1. w = "loop" /\ c \in [status : {"accepted"}, phase : Phases]
      BY <1>1, <1>2, Accepting
    <2>2. Done(w) = ToTasks(writer[w].goal, c)
      BY <1>2 DEF Done
    <2> HIDE DEF c
    <2>3. c \in Starting
      BY <2>1 DEF Starting
    <2> QED
      BY <1>1, <2>1, <2>2, <2>3, Left DEF c
  <1>3. CASE DOMAIN c # {"status", "phase"}
    BY <1>3 DEF Done
  <1> QED
    BY <1>2, <1>3

LEMMA DoneTyped ==
    ASSUME NEW w \in Writers, writer[w] \in HandlerStates(w), Mirroring(w)
    PROVE  Done(w) \in HandlerStates(w)
  BY DoneWith DEF HandlerStates

\* A handler that has read the file.
Read(x, p, f) == [x EXCEPT !.at = "write", !.place = p, !.seen = f]

LEMMA ReadTyped ==
    ASSUME NEW w \in Writers, NEW x \in HandlerStates(w), x.at = "read", NEW p \in Places, NEW f \in Files
    PROVE  /\ Read(x, p, f) \in HandlerStates(w)
           /\ Read(x, p, f).goal = x.goal /\ Read(x, p, f).fields = x.fields
           /\ Read(x, p, f).at = "write" /\ Read(x, p, f).place = p /\ Read(x, p, f).seen = f
  <1>1. x \in Reading(w)
    BY DEF HandlerStates, Idle, Writing, Seeding
  <1> QED
    BY <1>1 DEF HandlerStates, Reading, Writing, Read

LEMMA PlaceTyped ==
    ASSUME GoalTyping, NEW s \in Slugs PROVE Place(s) \in Places
  BY DEF Place, GoalTyping, Places

LEMMA StampedTyped ==
    ASSUME NEW files \in [Places -> Files \cup {None}], NEW p \in Places, NEW d \in Dirs
    PROVE  /\ Stamped(files, p, d) \in [Places -> Files \cup {None}]
           /\ \A q \in Places : q # p => Stamped(files, p, d)[q] = files[q]
           /\ files[p] = None => Stamped(files, p, d)[p] = None
           /\ files[p] # None =>
                 /\ Stamped(files, p, d)[p] # None
                 /\ \A f \in Mirrored : Stamped(files, p, d)[p][f] = IF f = "ext" THEN d ELSE files[p][f]
  <1>1. CASE files[p] = None
    BY <1>1 DEF Stamped
  <1>2. CASE files[p] # None
    <2>1. files[p] \in Files
      BY <1>2
    <2>2. [files[p] EXCEPT !.ext = d] \in Files
      BY <2>1 DEF Files
    <2>3. \A f \in Mirrored : [files[p] EXCEPT !.ext = d][f] = IF f = "ext" THEN d ELSE files[p][f]
      BY <2>1 DEF Files, Mirrored
    <2>4. Stamped(files, p, d) = [files EXCEPT ![p] = [files[p] EXCEPT !.ext = d]]
      BY <1>2, Zenon DEF Stamped
    <2> QED
      BY <1>2, <2>2, <2>3, <2>4, GoalConstants
  <1> QED
    BY <1>1, <1>2

\* Files or boards: what is in one place only is taken to the other.
LEMMA MovedFiles ==
    ASSUME NEW T, NEW files \in [Places -> T], NEW old \in Places, NEW new \in Places, None \in T
    PROVE  /\ Moved(files, old, new) \in [Places -> T]
           /\ \A q \in Places \ {old, new} : Moved(files, old, new)[q] = files[q]
           /\ old # new /\ files[new] = None /\ (old = Home \/ old \in there) =>
                 Moved(files, old, new)[new] = files[old] /\ Moved(files, old, new)[old] = None
  BY DEF Moved

LEMMA PutWriter ==
    ASSUME GoalTyping, NEW w \in Writers, NEW new \in HandlerStates(w), writer' = [writer EXCEPT ![w] = new]
    PROVE  /\ DOMAIN writer' = Writers
           /\ \A x \in Writers : writer'[x] \in HandlerStates(x)
           /\ \A x \in Writers : writer'[x] = IF x = w THEN new ELSE writer[x]
  BY DEF GoalTyping

LEMMA CreateTyping ==
    ASSUME GoalTyping, NEW s \in Slugs, NEW status \in {"accepted", "idea"}, CreateGoal(s, status)
    PROVE  /\ GoalTyping'
           /\ writer["loop"] = Idle
           /\ writer'["loop"].at = "tasks" /\ writer'["loop"].goal = s
           /\ writer'["loop"].fields = [status |-> status]
           /\ \A x \in Writers : x # "loop" => writer'[x] = writer[x]
           /\ \A z \in Slugs : row'[z] = IF z = s THEN NewRow ELSE row[z]
           /\ \A z \in Slugs, p \in Places : file'[z][p] = IF z = s /\ p = Home THEN NewFile ELSE file[z][p]
  <1> DEFINE new == ToTasks(s, [status |-> status])
  <1>1. [status |-> status] \in Starting
    BY DEF Starting
  <1>2. new \in HandlerStates("loop") /\ new.at = "tasks" /\ new.goal = s /\ new.fields = [status |-> status]
    BY <1>1, Left DEF HandlerStates
  <1>3. "loop" \in Writers /\ writer' = [writer EXCEPT !["loop"] = new]
    BY DEF CreateGoal, Writers
  <1> HIDE DEF new
  <1>4. /\ DOMAIN writer' = Writers
        /\ \A x \in Writers : writer'[x] \in HandlerStates(x)
        /\ \A x \in Writers : writer'[x] = IF x = "loop" THEN new ELSE writer[x]
    BY <1>2, <1>3, PutWriter
  <1>5. row' = [row EXCEPT ![s] = NewRow] /\ file' = [file EXCEPT ![s][Home] = NewFile]
    BY DEF CreateGoal
  <1>6. NewRow \in Rows /\ NewFile \in Files /\ Home \in Places
    BY NewTyped DEF Places
  <1>7. row' \in [Slugs -> Rows \cup {None}] /\ \A z \in Slugs : row'[z] = IF z = s THEN NewRow ELSE row[z]
    BY <1>5, <1>6 DEF GoalTyping
  <1>8. /\ file' \in [Slugs -> [Places -> Files \cup {None}]]
        /\ \A z \in Slugs, p \in Places : file'[z][p] = IF z = s /\ p = Home THEN NewFile ELSE file[z][p]
    BY <1>5, <1>6 DEF GoalTyping
  <1>9. UNCHANGED <<scenario, cast, there, gone>> /\ torn' \subseteq Slugs /\ Free
    BY DEF CreateGoal, GoalTyping
  <1> QED
    BY <1>2, <1>3, <1>4, <1>7, <1>8, <1>9 DEF GoalTyping, Free

LEMMA ChangeTyping ==
    ASSUME GoalTyping, NEW w \in Writers, NEW s \in Slugs, NEW c \in Changed(w), Change(w, s, c)
    PROVE  /\ GoalTyping'
           /\ writer[w] = Idle
           /\ writer'[w].at = "read" /\ writer'[w].goal = s /\ writer'[w].fields = c
           /\ \A x \in Writers : x # w => writer'[x] = writer[x]
           /\ row[s] # None /\ row'[s] \in Rows /\ Fielded(c)
           /\ \A z \in Slugs : z # s => row'[z] = row[z]
           /\ \A f \in Mirrored \cup {"folder"} : row'[s][f] = IF f \in DOMAIN c THEN c[f] ELSE row[s][f]
  <1> DEFINE new == [at |-> "read", goal |-> s, fields |-> c, place |-> None, seen |-> None]
  <1>1. new \in HandlerStates(w) /\ new.at = "read" /\ new.goal = s /\ new.fields = c
    BY DEF HandlerStates, Reading
  <1>2. writer' = [writer EXCEPT ![w] = new] /\ row[s] # None /\ writer[w] = Idle
    BY DEF Change, Changes
  <1> HIDE DEF new
  <1>3. /\ DOMAIN writer' = Writers
        /\ \A x \in Writers : writer'[x] \in HandlerStates(x)
        /\ \A x \in Writers : writer'[x] = IF x = w THEN new ELSE writer[x]
    BY <1>1, <1>2, PutWriter
  <1>4. row' = [row EXCEPT ![s] = With(row[s], c)]
    BY Zenon DEF Change, Changes
  <1>5. row[s] \in Rows /\ Fielded(c)
    BY <1>2, ChangedIsFielded DEF GoalTyping
  <1>6. /\ With(row[s], c) \in Rows
        /\ \A f \in Mirrored \cup {"folder"} : With(row[s], c)[f] = IF f \in DOMAIN c THEN c[f] ELSE row[s][f]
    BY <1>5, WithRow
  <1>7. /\ row' \in [Slugs -> Rows \cup {None}] /\ row'[s] = With(row[s], c)
        /\ \A z \in Slugs : z # s => row'[z] = row[z]
    BY <1>4, <1>6 DEF GoalTyping
  <1>8. UNCHANGED <<scenario, file, cast, there, gone>> /\ torn' \subseteq Slugs
    BY DEF Change, Changes, GoalTyping
  <1> QED
    BY <1>1, <1>2, <1>3, <1>5, <1>6, <1>7, <1>8 DEF GoalTyping

LEMMA ReadTyping ==
    ASSUME GoalTyping, NEW w \in Writers, ReadFile(w)
    PROVE  /\ GoalTyping' /\ writer[w].at = "read" /\ UNCHANGED <<row, file, cast, there, torn, gone>>
           /\ \A x \in Writers : x # w => writer'[x] = writer[x]
           /\ LET s == writer[w].goal IN
              \/ file[s][Place(s)] = None /\ writer'[w] = Done(w)
              \/ /\ file[s][Place(s)] # None
                 /\ writer'[w].at = "write" /\ writer'[w].goal = s /\ writer'[w].fields = writer[w].fields
                 /\ writer'[w].place = Place(s) /\ writer'[w].seen = file[s][Place(s)]
  <1> DEFINE s == writer[w].goal
             p == Place(s)
             f == file[s][p]
  <1>1. writer[w] \in HandlerStates(w) /\ writer[w].at = "read"
    BY DEF GoalTyping, ReadFile
  <1>2. s \in Slugs /\ p \in Places
    BY <1>1, Handler, PlaceTyped
  <1>3. UNCHANGED <<scenario, row, file, cast, there, torn, gone>>
    BY DEF ReadFile
  <1>4. CASE f = None
    <2>1. writer' = [writer EXCEPT ![w] = Done(w)]
      BY <1>4 DEF ReadFile, ReadPlace
    <2>2. Done(w) \in HandlerStates(w)
      BY <1>1, DoneTyped DEF Mirroring
    <2>3. /\ DOMAIN writer' = Writers
          /\ \A x \in Writers : writer'[x] \in HandlerStates(x)
          /\ \A x \in Writers : writer'[x] = IF x = w THEN Done(w) ELSE writer[x]
      BY <2>1, <2>2, PutWriter
    <2> QED
      BY <1>1, <1>3, <1>4, <2>3 DEF GoalTyping
  <1>5. CASE f # None
    <2> DEFINE new == Read(writer[w], p, f)
    <2>1. writer' = [writer EXCEPT ![w] = new]
      BY <1>5, Zenon DEF ReadFile, ReadPlace, Read
    <2>2. f \in Files
      BY <1>2, <1>5 DEF GoalTyping
    <2>3. /\ new \in HandlerStates(w) /\ new.at = "write" /\ new.goal = s /\ new.fields = writer[w].fields
          /\ new.place = p /\ new.seen = f
      BY <1>1, <1>2, <2>2, ReadTyped
    <2> HIDE DEF new
    <2>4. /\ DOMAIN writer' = Writers
          /\ \A x \in Writers : writer'[x] \in HandlerStates(x)
          /\ \A x \in Writers : writer'[x] = IF x = w THEN new ELSE writer[x]
      BY <2>1, <2>3, PutWriter
    <2> QED
      BY <1>1, <1>3, <1>5, <2>3, <2>4 DEF GoalTyping
  <1> QED
    BY <1>4, <1>5

LEMMA WriteTyping ==
    ASSUME GoalTyping, NEW w \in Writers, WriteFile(w)
    PROVE  /\ GoalTyping' /\ writer[w].at = "write" /\ UNCHANGED <<row, cast, there, gone>>
           /\ \A x \in Writers : x # w => writer'[x] = writer[x]
           /\ writer'[w] = Done(w)
           /\ LET s == writer[w].goal
                  p == writer[w].place
                  fields == writer[w].fields IN
              /\ s \in Slugs /\ p \in Places /\ Fielded(fields) /\ writer[w].seen \in Files
              /\ torn' = IF file[s][p] = writer[w].seen THEN torn ELSE torn \cup {s}
              /\ \A z \in Slugs, q \in Places : z # s \/ q # p => file'[z][q] = file[z][q]
              /\ p = Home \/ p \in there =>
                    /\ file'[s][p] # None
                    /\ \A f \in Mirrored :
                          file'[s][p][f] = IF f \in DOMAIN fields THEN fields[f] ELSE writer[w].seen[f]
  <1> DEFINE s == writer[w].goal
             p == writer[w].place
             c == writer[w].fields
             new == With(writer[w].seen, c)
  <1>1. writer[w] \in HandlerStates(w) /\ writer[w].at = "write"
    BY DEF GoalTyping, WriteFile
  <1>2. s \in Slugs /\ p \in Places /\ writer[w].seen \in Files /\ c \in Changed(w)
    BY <1>1, Handler
  <1>3. Fielded(c)
    BY <1>2, ChangedIsFielded
  <1>4. /\ new \in Files /\ new # None
        /\ \A f \in Mirrored : new[f] = IF f \in DOMAIN c THEN c[f] ELSE writer[w].seen[f]
    BY <1>2, <1>3, WithFile, GoalConstants
  <1>5. /\ UNCHANGED <<scenario, row, cast, there, gone>>
        /\ torn' = IF file[s][p] = writer[w].seen THEN torn ELSE torn \cup {s}
        /\ writer' = [writer EXCEPT ![w] = Done(w)]
    BY DEF WriteFile
  <1>6. Done(w) \in HandlerStates(w)
    BY <1>1, DoneTyped DEF Mirroring
  <1>7. /\ DOMAIN writer' = Writers
        /\ \A x \in Writers : writer'[x] \in HandlerStates(x)
        /\ \A x \in Writers : writer'[x] = IF x = w THEN Done(w) ELSE writer[x]
    BY <1>5, <1>6, PutWriter
  <1>8. file' = IF p = Home \/ p \in there THEN [file EXCEPT ![s][p] = new] ELSE file
    BY Zenon DEF WriteFile
  <1> HIDE DEF new, s, p, c
  <1>9. /\ file' \in [Slugs -> [Places -> Files \cup {None}]]
        /\ \A z \in Slugs, q \in Places : z # s \/ q # p => file'[z][q] = file[z][q]
        /\ p = Home \/ p \in there => file'[s][p] = new
    BY <1>2, <1>4, <1>8 DEF GoalTyping
  <1>10. GoalTyping'
    BY <1>2, <1>5, <1>7, <1>9 DEF GoalTyping
  <1> QED
    BY <1>1, <1>2, <1>3, <1>4, <1>5, <1>7, <1>9, <1>10 DEF s, p, c

\* .cast is a link of its own, or a directory of links.
Casts == {c \in [legacy : BOOLEAN, links : SUBSET Slugs] : c.legacy => c.links = {}}

LEMMA LinkedTyped ==
    ASSUME NEW c \in Casts, NEW s \in Slugs
    PROVE  /\ Linked(c, s) \in Casts /\ Linked(c, s).links = c.links \cup {s}
           /\ Unlinked(c, s) \in Casts /\ \A z \in c.links : z # s => z \in Unlinked(c, s).links
  <1>1. Linked(c, s) \in Casts /\ Linked(c, s).links = c.links \cup {s}
    BY DEF Linked, Casts
  <1>2. CASE c.legacy
    BY <1>1, <1>2 DEF Unlinked, NoLinks, Casts
  <1>3. CASE ~c.legacy
    <2>1. Unlinked(c, s) = [c EXCEPT !.links = c.links \ {s}]
      BY <1>3, Zenon DEF Unlinked
    <2> QED
      BY <1>1, <1>3, <2>1 DEF Casts
  <1> QED
    BY <1>2, <1>3

LEMMA RelinkTyped ==
    ASSUME GoalTyping, Linking, NEW s \in Slugs, NEW d \in Dirs, NEW dirs
    PROVE  /\ Relink(s, d, dirs) \in [Dirs -> Casts]
           /\ d \in dirs => s \in Relink(s, d, dirs)[d].links
           /\ \A e \in Dirs : \A z \in cast[e].links : z # s => z \in Relink(s, d, dirs)[e].links
  <1>1. \A e \in Dirs : cast[e] \in Casts
    BY DEF GoalTyping, Linking, Casts
  <1> QED
    BY <1>1, LinkedTyped DEF Relink

LEMMA ConfigTyping ==
    ASSUME GoalTyping, Linking, NEW s \in Slugs, NEW d \in Dirs, UpdateConfig(s, d)
    PROVE  LET old == row[s].folder IN
           /\ GoalTyping' /\ Linking' /\ UNCHANGED <<writer, torn, gone>>
           /\ writer["loop"] = Idle /\ row[s] # None /\ row[s] \in Rows /\ row'[s] # None
           /\ there' = IF old # d THEN there \cup {d} ELSE there
           /\ row'[s].folder = d /\ row'[s].ext = d
           /\ \A f \in Mirrored \ {"ext"} : row'[s][f] = row[s][f]
           /\ \A z \in Slugs : z # s => row'[z] = row[z] /\ file'[z] = file[z]
           /\ old = d /\ file[s][Home] = None => file'[s] = file[s]
           /\ old # d /\ file[s][d] = None /\ old \in there \cup {Home} =>
                 /\ \A q \in Places \ {old, d} : file[s][q] = None => file'[s][q] = None
                 /\ file'[s][old] = None
                 /\ file[s][old] # None =>
                       /\ file'[s][d] # None
                       /\ \A f \in Mirrored : file'[s][d][f] = IF f = "ext" THEN d ELSE file[s][old][f]
           /\ d \in there' => s \in cast'[d].links
           /\ \A e \in Dirs : \A z \in cast[e].links : z # s => z \in cast'[e].links
  <1> DEFINE old == row[s].folder
             dirs == IF old # d THEN there \cup {d} ELSE there
             home == Stamped(file[s], Home, d)
             moved == Moved(home, old, d)
             files == IF old # d THEN Stamped(moved, d, d) ELSE home
             T == Files \cup {None}
  <1>1. UNCHANGED <<scenario, writer, torn, gone>> /\ there' = dirs /\ cast' = Relink(s, d, dirs) /\ Free
    BY DEF UpdateConfig
  <1>2. row[s] # None /\ row[s] \in Rows /\ old \in Places /\ d \in Places /\ Home \in Places /\ d # Home
    BY GoalConstants DEF UpdateConfig, GoalTyping, Rows, Places
  <1>3. row' = [row EXCEPT ![s] = [row[s] EXCEPT !.ext = d, !.folder = d]]
    BY Zenon DEF UpdateConfig
  <1>4. /\ [row[s] EXCEPT !.ext = d, !.folder = d] \in Rows
        /\ [row[s] EXCEPT !.ext = d, !.folder = d].ext = d
        /\ [row[s] EXCEPT !.ext = d, !.folder = d].folder = d
        /\ \A f \in Mirrored \ {"ext"} : [row[s] EXCEPT !.ext = d, !.folder = d][f] = row[s][f]
    BY <1>2 DEF Rows, Mirrored
  <1>5. /\ row' \in [Slugs -> Rows \cup {None}] /\ row'[s] \in Rows /\ row'[s].folder = d /\ row'[s].ext = d
        /\ \A f \in Mirrored \ {"ext"} : row'[s][f] = row[s][f]
        /\ \A z \in Slugs : z # s => row'[z] = row[z]
    BY <1>3, <1>4 DEF GoalTyping
  <1>6. row'[s] # None
    BY <1>5, GoalConstants
  <1>7. file' = [file EXCEPT ![s] = files]
    BY Zenon DEF UpdateConfig
  <1>8. file[s] \in [Places -> T]
    BY DEF GoalTyping
  <1>9. /\ home \in [Places -> T] /\ \A q \in Places : q # Home => home[q] = file[s][q]
        /\ file[s][Home] = None => home[Home] = None
        /\ file[s][Home] # None =>
              /\ home[Home] # None
              /\ \A f \in Mirrored : home[Home][f] = IF f = "ext" THEN d ELSE file[s][Home][f]
    BY <1>2, <1>8, StampedTyped
  <1>10. file[s][Home] = None => home = file[s]
    BY DEF Stamped
  <1> HIDE DEF home
  <1>11. /\ moved \in [Places -> T] /\ \A q \in Places \ {old, d} : moved[q] = home[q]
         /\ old # d /\ home[d] = None /\ (old = Home \/ old \in there) => moved[d] = home[old] /\ moved[old] = None
    <2>1. None \in T
      OBVIOUS
    <2> HIDE DEF T, old
    <2> QED
      BY <1>2, <1>9, <2>1, MovedFiles
  <1> HIDE DEF moved
  <1>12. /\ Stamped(moved, d, d) \in [Places -> T]
         /\ \A q \in Places : q # d => Stamped(moved, d, d)[q] = moved[q]
         /\ moved[d] # None =>
               /\ Stamped(moved, d, d)[d] # None
               /\ \A f \in Mirrored : Stamped(moved, d, d)[d][f] = IF f = "ext" THEN d ELSE moved[d][f]
    BY <1>2, <1>11, StampedTyped
  <1>13. files \in [Places -> T]
    BY <1>9, <1>12
  <1>14. file' \in [Slugs -> [Places -> T]] /\ file'[s] = files /\ \A z \in Slugs : z # s => file'[z] = file[z]
    BY <1>7, <1>13 DEF GoalTyping
  <1>15. old = d /\ file[s][Home] = None => file'[s] = file[s]
    BY <1>10, <1>14
  <1>16. ASSUME old # d, file[s][d] = None, old \in there \cup {Home}
         PROVE  /\ \A q \in Places \ {old, d} : file[s][q] = None => file'[s][q] = None
                /\ file'[s][old] = None
                /\ file[s][old] # None =>
                      /\ file'[s][d] # None
                      /\ \A f \in Mirrored : file'[s][d][f] = IF f = "ext" THEN d ELSE file[s][old][f]
    <2>1. file'[s] = Stamped(moved, d, d) /\ moved[d] = home[old] /\ moved[old] = None
      BY <1>2, <1>9, <1>11, <1>14, <1>16
    <2>2. \A q \in Places \ {old, d} : file[s][q] = None => file'[s][q] = None
      BY <1>9, <1>11, <1>12, <2>1
    <2>3. file'[s][old] = None
      BY <1>2, <1>12, <1>16, <2>1
    <2>4. ASSUME file[s][old] # None
          PROVE  /\ moved[d] # None
                 /\ \A f \in Mirrored : moved[d][f] = file[s][old][f] \/ f = "ext"
      BY <1>2, <1>9, <2>1, <2>4
    <2> HIDE DEF old
    <2> QED
      BY <1>12, <2>1, <2>2, <2>3, <2>4
  <1>17. /\ cast' \in [Dirs -> Casts] /\ (d \in dirs => s \in cast'[d].links)
         /\ \A e \in Dirs : \A z \in cast[e].links : z # s => z \in cast'[e].links
    <2> HIDE DEF dirs
    <2> QED
      BY <1>1, RelinkTyped
  <1>18. GoalTyping' /\ Linking'
    <2>1. cast' \in [Dirs -> [legacy : BOOLEAN, links : SUBSET Slugs]] /\ Linking'
      BY <1>17 DEF Casts, Linking
    <2>2. there' \subseteq Dirs
      BY <1>1 DEF GoalTyping
    <2> QED
      BY <1>1, <1>5, <1>14, <2>1, <2>2 DEF GoalTyping
  <1> QED
    BY <1>1, <1>2, <1>5, <1>6, <1>14, <1>15, <1>16, <1>17, <1>18 DEF Free

LEMMA LaunchTyping ==
    ASSUME GoalTyping, Linking, NEW s \in Slugs, LaunchLink(s)
    PROVE  /\ GoalTyping' /\ Linking' /\ UNCHANGED <<row, file, there, writer, torn, gone>>
           /\ \A e \in Dirs : \A z \in cast[e].links : z \in cast'[e].links
  <1> DEFINE d == row[s].ext
  <1>1. d \in Dirs /\ UNCHANGED <<scenario, row, file, there, writer, torn, gone>>
    BY DEF LaunchLink, GoalTyping
  <1>2. cast' = [cast EXCEPT ![d] = Linked(cast[d], s)]
    BY Zenon DEF LaunchLink
  <1>3. \A e \in Dirs : cast[e] \in Casts
    BY DEF GoalTyping, Linking, Casts
  <1>4. Linked(cast[d], s) \in Casts /\ Linked(cast[d], s).links = cast[d].links \cup {s}
    BY <1>1, <1>3, LinkedTyped
  <1> HIDE DEF d
  <1>5. \A e \in Dirs : cast'[e] = IF e = d THEN Linked(cast[d], s) ELSE cast[e]
    BY <1>1, <1>2 DEF GoalTyping
  <1>6. DOMAIN cast' = Dirs /\ cast' = [e \in Dirs |-> IF e = d THEN Linked(cast[d], s) ELSE cast[e]]
    BY <1>1, <1>2 DEF GoalTyping
  <1>7. cast' \in [Dirs -> Casts]
    BY <1>3, <1>4, <1>6
  <1>8. cast' \in [Dirs -> [legacy : BOOLEAN, links : SUBSET Slugs]] /\ Linking'
    BY <1>7 DEF Casts, Linking
  <1> QED
    BY <1>1, <1>4, <1>5, <1>8 DEF GoalTyping

LEMMA KillTyping ==
    ASSUME GoalTyping, KillGoals
    PROVE  /\ GoalTyping' /\ UNCHANGED <<row, file, cast, there, gone>>
           /\ \A w \in Writers : writer'[w] = Idle
           /\ torn \subseteq torn'
           /\ \A w \in Writers : writer[w] # Idle => writer[w].goal \in torn'
  <1>1. \A w \in Writers : writer[w] # Idle => writer[w].goal \in Slugs
    BY Handler DEF GoalTyping
  <1>2. torn' \subseteq Slugs
    BY <1>1 DEF KillGoals, GoalTyping
  <1> QED
    BY <1>1, <1>2 DEF KillGoals, GoalTyping, HandlerStates

LEMMA RemoveTyping ==
    ASSUME GoalTyping, Linking, NEW d \in Dirs, RemoveDir(d)
    PROVE  /\ GoalTyping' /\ Linking' /\ UNCHANGED <<row, writer, torn>>
           /\ there' = there \ {d}
           /\ gone \subseteq gone' /\ \A s \in Slugs : row[s] # None /\ row[s].folder = d => s \in gone'
           /\ \A s \in Slugs, p \in Places : file'[s][p] = IF p = d THEN None ELSE file[s][p]
           /\ \A e \in Dirs : e # d => cast'[e] = cast[e]
  <1>1. /\ UNCHANGED <<scenario, row, writer, torn>> /\ there' = there \ {d}
        /\ gone' = gone \cup {s \in Slugs : row[s] # None /\ row[s].folder = d}
        /\ file' = [s \in Slugs |-> [file[s] EXCEPT ![d] = None]]
        /\ cast' = [cast EXCEPT ![d] = NoLinks]
    BY DEF RemoveDir
  <1>2. /\ file' \in [Slugs -> [Places -> Files \cup {None}]]
        /\ \A s \in Slugs, p \in Places : file'[s][p] = IF p = d THEN None ELSE file[s][p]
    BY <1>1 DEF GoalTyping
  <1>3. /\ cast' \in [Dirs -> [legacy : BOOLEAN, links : SUBSET Slugs]] /\ Linking'
        /\ \A e \in Dirs : e # d => cast'[e] = cast[e]
    <2>1. NoLinks \in [legacy : BOOLEAN, links : SUBSET Slugs] /\ NoLinks.links = {}
      BY DEF NoLinks
    <2> QED
      BY <1>1, <2>1 DEF GoalTyping, Linking
  <1> QED
    BY <1>1, <1>2, <1>3 DEF GoalTyping

LEMMA StartsTyping ==
    ASSUME GoalTyping, NEW s \in Slugs, Starts(s), row[s] # None
    PROVE  LET c == writer["loop"].fields IN
           /\ GoalTyping' /\ UNCHANGED <<file, cast, there, torn, gone>>
           /\ "loop" \in Writers /\ writer["loop"].at = "tasks" /\ writer["loop"].goal = s /\ c \in Starting
           /\ writer'["loop"] = Idle
           /\ \A x \in Writers : x # "loop" => writer'[x] = writer[x]
           /\ row'[s] \in Rows
           /\ \A z \in Slugs : z # s => row'[z] = row[z]
           /\ \A f \in Mirrored \cup {"folder"} : row'[s][f] = IF f \in DOMAIN c THEN c[f] ELSE row[s][f]
  <1> DEFINE c == writer["loop"].fields
  <1>1. "loop" \in Writers /\ writer["loop"].at = "tasks" /\ writer["loop"].goal = s
    BY DEF Starts, Writers
  <1>2. c \in Starting /\ Fielded(c)
    BY <1>1, Handler, StartingIsFielded DEF GoalTyping
  <1>3. row[s] \in Rows
    BY DEF GoalTyping
  <1>4. row' = [row EXCEPT ![s] = With(row[s], c)]
    BY Zenon DEF Starts
  <1> HIDE DEF c
  <1>5. /\ With(row[s], c) \in Rows
        /\ \A f \in Mirrored \cup {"folder"} : With(row[s], c)[f] = IF f \in DOMAIN c THEN c[f] ELSE row[s][f]
    BY <1>2, <1>3, WithRow
  <1>6. /\ row' \in [Slugs -> Rows \cup {None}] /\ row'[s] = With(row[s], c)
        /\ \A z \in Slugs : z # s => row'[z] = row[z]
    BY <1>4, <1>5 DEF GoalTyping
  <1>7. UNCHANGED <<scenario, file, cast, there, torn, gone>> /\ writer' = [writer EXCEPT !["loop"] = Idle]
    BY DEF Starts
  <1>8. /\ DOMAIN writer' = Writers
        /\ \A x \in Writers : writer'[x] \in HandlerStates(x)
        /\ \A x \in Writers : writer'[x] = IF x = "loop" THEN Idle ELSE writer[x]
    BY <1>1, <1>7, PutWriter DEF HandlerStates
  <1> QED
    BY <1>1, <1>2, <1>5, <1>6, <1>7, <1>8 DEF GoalTyping, c

-------------------------------------------------------------------------------
(* Every goals' step keeps the invariant, part by part.                    *)

\* What a thread has to mirror is the workflow.
LEMMA OfThread ==
    ASSUME GoalTyping, NEW w \in Writers, w # "loop", writer[w] # Idle
    PROVE  Mirroring(w) /\ DOMAIN writer[w].fields = {"family"}
  <1>1. writer[w] \in HandlerStates(w)
    BY DEF GoalTyping
  <1>2. Mirroring(w) /\ writer[w].fields \in Changed(w)
    BY <1>1, Handler DEF Mirroring
  <1> QED
    BY <1>2 DEF Changed

\* What there is to say of a handler.
LEMMA OfHandler ==
    ASSUME GoalTyping, NEW w \in Writers, writer[w] # Idle
    PROVE  /\ writer[w].goal \in Slugs
           /\ Mirroring(w) \/ (w = "loop" /\ writer[w].at = "tasks" /\ ~Mirroring(w) /\ writer[w].fields \in Starting)
           /\ Fielded(writer[w].fields)
           /\ writer[w] \in HandlerStates(w)
  <1>1. writer[w] \in HandlerStates(w)
    BY DEF GoalTyping
  <1> QED
    BY <1>1, Handler, ChangedIsFielded, StartingIsFielded DEF Mirroring

LEMMA StartsOfGoal ==
    ASSUME GoalInv, NEW s \in Slugs, Starts(s) PROVE row[s] # None
  <1>1. "loop" \in Writers /\ writer["loop"] # Idle /\ writer["loop"].goal = s
    BY DEF Starts, Writers, Idle
  <1> QED
    BY <1>1 DEF Agrees, GoalInv

LEMMA AgreesStep ==
    ASSUME GoalInv, GoalStep, NEW x \in Writers PROVE Agrees(x)'
  <1> SUFFICES ASSUME writer'[x] # Idle PROVE Agrees(x)'
    BY DEF Agrees
  <1> USE DEF GoalInv
  <1>0. CASE UNCHANGED goalVars
    BY <1>0 DEF goalVars, Agrees, Mirroring
  <1>1. ASSUME NEW s \in Slugs, NEW status \in {"accepted", "idea"}, CreateGoal(s, status) PROVE Agrees(x)'
    <2>1. /\ writer["loop"] = Idle
          /\ writer'["loop"].at = "tasks" /\ writer'["loop"].goal = s /\ writer'["loop"].fields = [status |-> status]
          /\ \A y \in Writers : y # "loop" => writer'[y] = writer[y]
          /\ \A z \in Slugs : row'[z] = IF z = s THEN NewRow ELSE row[z]
      BY <1>1, CreateTyping
    <2>2. NewRow # None /\ NewRow.status = "accepted" /\ gone' = gone
      BY <1>1, NewTyped, GoalConstants DEF NewRow, CreateGoal
    <2>3. CASE x = "loop"
      BY <2>1, <2>2, <2>3 DEF Agrees, Mirroring
    <2>4. CASE x # "loop"
      <3>1. writer'[x] = writer[x] /\ writer[x] # Idle /\ writer[x].goal \in Slugs
        BY <2>1, <2>4, OfHandler
      <3>2. torn \subseteq torn' /\ (writer[x].goal = s => s \in torn')
        BY <1>1 DEF CreateGoal, AtRest
      <3>3. row'[writer[x].goal] # None
        BY <2>1, <2>2, <3>1 DEF Agrees
      <3>4. CASE writer[x].goal = s
        BY <3>1, <3>2, <3>3, <3>4 DEF Agrees
      <3>5. CASE writer[x].goal # s
        BY <2>1, <2>2, <2>4, <3>1, <3>2, <3>3, <3>5 DEF Agrees, Mirroring
      <3> QED
        BY <3>4, <3>5
    <2> QED
      BY <2>3, <2>4
  <1>2. ASSUME NEW w \in Writers, NEW s \in Slugs, NEW c \in Changed(w), Change(w, s, c) PROVE Agrees(x)'
    <2>1. /\ writer[w] = Idle
          /\ writer'[w].at = "read" /\ writer'[w].goal = s /\ writer'[w].fields = c
          /\ \A y \in Writers : y # w => writer'[y] = writer[y]
          /\ row[s] # None /\ row'[s] \in Rows /\ Fielded(c)
          /\ \A z \in Slugs : z # s => row'[z] = row[z]
          /\ \A f \in Mirrored \cup {"folder"} : row'[s][f] = IF f \in DOMAIN c THEN c[f] ELSE row[s][f]
      BY <1>2, ChangeTyping
    <2>2. torn \subseteq torn' /\ gone' = gone
      BY <1>2 DEF Change, Changes
    <2>3. \A y \in Writers : writer[y].goal = s /\ s \notin torn' => DOMAIN writer[y].fields \cap DOMAIN c = {}
      BY <1>2 DEF Change, Changes, Meets
    <2>4. row'[s] # None
      BY <2>1, GoalConstants
    <2>5. CASE x = w
      <3>1. \A f \in DOMAIN c : row'[s][f] = c[f]
        BY <2>1 DEF Fielded, Mirrored
      <3> QED
        BY <2>1, <2>3, <2>4, <2>5, <3>1 DEF Agrees, Mirroring
    <2>6. CASE x # w /\ writer[x].goal # s
      BY <2>1, <2>2, <2>6, OfHandler DEF Agrees, Mirroring
    <2>7. CASE x # w /\ writer[x].goal = s
      <3>1. writer'[x] = writer[x] /\ writer[x] # Idle /\ Fielded(writer[x].fields)
        BY <2>1, <2>7, OfHandler
      <3>2. SUFFICES ASSUME s \notin torn' \cup gone' PROVE Agrees(x)'
        BY <2>4, <2>7, <3>1 DEF Agrees
      <3>3. DOMAIN writer[x].fields \cap DOMAIN c = {}
        BY <2>3, <2>7, <3>2
      <3>4. \A f \in DOMAIN writer[x].fields : row'[s][f] = row[s][f]
        BY <2>1, <3>1, <3>3 DEF Fielded, Mirrored
      <3>5. CASE Mirroring(x)
        <4>1. \A f \in DOMAIN writer[x].fields : row'[s][f] = writer[x].fields[f]
          BY <2>2, <2>7, <3>1, <3>2, <3>4, <3>5 DEF Agrees
        <4>2. \A y \in Writers \ {x} : Mirroring(y)' /\ writer'[y].goal = s =>
                 DOMAIN writer'[y].fields \cap DOMAIN writer[x].fields = {}
          <5>1. ASSUME NEW y \in Writers \ {x}, y # w, Mirroring(y)', writer'[y].goal = s
                PROVE  DOMAIN writer'[y].fields \cap DOMAIN writer[x].fields = {}
            <6>1. writer'[y] = writer[y] /\ Mirroring(y)
              BY <2>1, <5>1 DEF Mirroring
            <6> QED
              BY <2>2, <2>7, <3>1, <3>2, <3>5, <5>1, <6>1 DEF Agrees
          <5> QED
            BY <2>1, <3>3, <5>1
        <4> QED
          BY <2>4, <2>7, <3>1, <3>5, <4>1, <4>2 DEF Agrees, Mirroring
      <3>6. CASE ~Mirroring(x)
        <4>1. x = "loop" /\ writer[x].at = "tasks"
          BY <3>1, <3>6, OfHandler
        <4>2. DOMAIN c = {"family"}
          BY <2>7, <4>1 DEF Changed
        <4>3. row'[s].status = row[s].status /\ row'[s].phase = row[s].phase
          BY <2>1, <4>2 DEF Mirrored
        <4> QED
          BY <2>2, <2>4, <2>7, <3>1, <3>2, <3>6, <4>1, <4>3 DEF Agrees, Mirroring
      <3> QED
        BY <3>5, <3>6
    <2> QED
      BY <2>5, <2>6, <2>7
  <1>3. ASSUME NEW w \in Writers, ReadFile(w) \/ WriteFile(w) PROVE Agrees(x)'
    <2>1. /\ UNCHANGED <<row, gone>> /\ torn \subseteq torn' /\ Mirroring(w)
          /\ \A y \in Writers : y # w => writer'[y] = writer[y]
          /\ \/ writer'[w] = Done(w)
             \/ /\ writer'[w].at = "write" /\ writer'[w].goal = writer[w].goal
                /\ writer'[w].fields = writer[w].fields
      BY <1>3, ReadTyping, WriteTyping DEF Mirroring
    <2>2. writer[w] # Idle /\ writer[w] \in HandlerStates(w)
      BY <2>1 DEF Mirroring, Idle, GoalTyping
    <2>3. \/ writer'[w] = Idle
          \/ /\ w = "loop" /\ writer'[w] # Idle /\ writer'[w].at = "tasks" /\ writer'[w].goal = writer[w].goal
             /\ writer'[w].fields = writer[w].fields /\ writer[w].fields \in [status : {"accepted"}, phase : Phases]
          \/ /\ writer'[w] # Idle /\ writer'[w].at = "write" /\ writer'[w].goal = writer[w].goal
             /\ writer'[w].fields = writer[w].fields
      BY <2>1, <2>2, DoneWith DEF Idle
    <2>4. Agrees(w) /\ Agrees(x)
      OBVIOUS
    <2>5. CASE x = w /\ writer'[w].at = "write"
      BY <2>1, <2>2, <2>3, <2>4, <2>5 DEF Agrees, Mirroring
    <2>6. CASE x = w /\ writer'[w].at = "tasks"
      <3>1. /\ writer'[w].goal = writer[w].goal /\ writer'[w].fields = writer[w].fields
            /\ writer[w].fields \in [status : {"accepted"}, phase : Phases]
        BY <2>3, <2>6 DEF Idle
      <3>2. writer[w].fields["status"] = "accepted" /\ DOMAIN writer[w].fields = {"status", "phase"}
        BY <3>1
      <3> QED
        BY <2>1, <2>2, <2>4, <2>6, <3>1, <3>2 DEF Agrees, Mirroring
    <2>7. CASE x # w
      <3>1. writer'[x] = writer[x] /\ writer[x] # Idle
        BY <2>1, <2>7
      <3>2. \A y \in Writers : Mirroring(y)' => Mirroring(y) /\ writer'[y].goal = writer[y].goal
                                               /\ writer'[y].fields = writer[y].fields
        BY <2>1, <2>3 DEF Mirroring, Idle
      <3> QED
        BY <2>1, <2>4, <3>1, <3>2 DEF Agrees, Mirroring
    <2> QED
      BY <2>3, <2>5, <2>6, <2>7
  <1>4. ASSUME NEW s \in Slugs, NEW d \in Dirs, UpdateConfig(s, d) PROVE Agrees(x)'
    <2>1. /\ UNCHANGED <<writer, torn, gone>> /\ row'[s] # None
          /\ \A f \in Mirrored \ {"ext"} : row'[s][f] = row[s][f]
          /\ \A z \in Slugs : z # s => row'[z] = row[z]
      BY <1>4, ConfigTyping
    <2>2. writer[x] # Idle /\ writer[x].goal \in Slugs /\ Fielded(writer[x].fields)
      BY <2>1, OfHandler
    <2>3. \A f \in DOMAIN writer[x].fields \cup {"status", "phase"} :
             row'[writer[x].goal][f] = row[writer[x].goal][f]
      BY <2>1, <2>2 DEF Fielded, Mirrored
    <2>4. row'[writer[x].goal].status = row[writer[x].goal].status
          /\ row'[writer[x].goal].phase = row[writer[x].goal].phase
      BY <2>3
    <2>5. row'[writer[x].goal] # None
      BY <2>1, <2>2 DEF Agrees
    <2> QED
      BY <2>1, <2>2, <2>3, <2>4, <2>5 DEF Agrees, Mirroring
  <1>5. ASSUME NEW s \in Slugs, LaunchLink(s) PROVE Agrees(x)'
    BY <1>5, LaunchTyping DEF Agrees, Mirroring
  <1>6. CASE KillGoals
    BY <1>6, KillTyping
  <1>7. ASSUME NEW d \in Dirs, RemoveDir(d) PROVE Agrees(x)'
    <2>1. UNCHANGED <<row, writer, torn>> /\ gone \subseteq gone'
      BY <1>7, RemoveTyping
    <2> QED
      BY <2>1 DEF Agrees, Mirroring
  <1>8. ASSUME NEW s \in Slugs, Starts(s) PROVE Agrees(x)'
    <2>0. row[s] # None
      BY <1>8, StartsOfGoal
    <2> DEFINE c == writer["loop"].fields
    <2>1. /\ UNCHANGED <<torn, gone>> /\ c \in Starting
          /\ writer'["loop"] = Idle
          /\ \A y \in Writers : y # "loop" => writer'[y] = writer[y]
          /\ row'[s] \in Rows
          /\ \A z \in Slugs : z # s => row'[z] = row[z]
          /\ \A f \in Mirrored \cup {"folder"} : row'[s][f] = IF f \in DOMAIN c THEN c[f] ELSE row[s][f]
      BY <1>8, <2>0, StartsTyping
    <2>2. x # "loop" /\ writer'[x] = writer[x] /\ writer[x] # Idle
      BY <2>1
    <2>3. Mirroring(x) /\ DOMAIN writer[x].fields = {"family"} /\ writer[x].goal \in Slugs /\ Mirroring(x)'
      BY <2>2, OfThread, OfHandler DEF Mirroring
    <2>4. row'[s].family = row[s].family
      <3>1. "family" \notin DOMAIN c
        BY <2>1 DEF Starting
      <3> QED
        BY <2>1, <3>1 DEF Mirrored
    <2>5. \A z \in Slugs : row[z] # None => row'[z] # None /\ row'[z]["family"] = row[z]["family"]
      BY <2>1, <2>4, GoalConstants
    <2>6. \A y \in Writers : Mirroring(y)' => Mirroring(y) /\ writer'[y] = writer[y]
      BY <2>1 DEF Mirroring, Idle
    <2>7. Agrees(x) /\ writer'[x].at # "tasks"
      BY <2>3 DEF Mirroring
    <2> QED
      BY <2>1, <2>2, <2>3, <2>5, <2>6, <2>7 DEF Agrees
  <1> QED
    BY <1>0, <1>1, <1>2, <1>3, <1>4, <1>5, <1>6, <1>7, <1>8 DEF GoalStep, QuietStep

LEMMA HousedStep ==
    ASSUME GoalInv, GoalStep, NEW z \in Slugs PROVE Housed(z)'
  <1> USE DEF GoalInv
  <1>0. CASE UNCHANGED goalVars
    BY <1>0 DEF goalVars, Housed
  <1>1. ASSUME NEW s \in Slugs, NEW status \in {"accepted", "idea"}, CreateGoal(s, status) PROVE Housed(z)'
    <2>1. row'[z] = (IF z = s THEN NewRow ELSE row[z])
      BY <1>1, CreateTyping
    <2>2. UNCHANGED <<cast, there, gone>>
      BY <1>1 DEF CreateGoal
    <2> QED
      BY <2>1, <2>2 DEF Housed, NewRow
  <1>2. ASSUME NEW w \in Writers, NEW s \in Slugs, NEW c \in Changed(w), Change(w, s, c) PROVE Housed(z)'
    <2>1. /\ row[s] # None /\ Fielded(c)
          /\ \A y \in Slugs : y # s => row'[y] = row[y]
          /\ \A f \in Mirrored \cup {"folder"} : row'[s][f] = IF f \in DOMAIN c THEN c[f] ELSE row[s][f]
      BY <1>2, ChangeTyping
    <2>2. row'[s]["folder"] = row[s]["folder"] /\ row'[s]["ext"] = row[s]["ext"]
      BY <2>1 DEF Fielded, Mirrored
    <2>3. UNCHANGED <<cast, there, gone>>
      BY <1>2 DEF Change, Changes
    <2> QED
      BY <2>1, <2>2, <2>3 DEF Housed
  <1>3. ASSUME NEW w \in Writers, ReadFile(w) \/ WriteFile(w) PROVE Housed(z)'
    BY <1>3, ReadTyping, WriteTyping DEF Housed
  <1>4. ASSUME NEW s \in Slugs, NEW d \in Dirs, UpdateConfig(s, d) PROVE Housed(z)'
    <2>1. /\ gone' = gone /\ row[s] # None /\ row'[s].folder = d /\ row'[s].ext = d /\ d \in Dirs
          /\ there' = IF row[s].folder # d THEN there \cup {d} ELSE there
          /\ \A y \in Slugs : y # s => row'[y] = row[y]
          /\ d \in there' => s \in cast'[d].links
          /\ \A e \in Dirs : \A y \in cast[e].links : y # s => y \in cast'[e].links
      BY <1>4, ConfigTyping
    <2>2. CASE z = s
      BY <2>1, <2>2, GoalConstants DEF Housed
    <2>3. CASE z # s
      <3>1. row'[z] = row[z] /\ (row[z] # None => row[z].ext \in Dirs \cup {None})
        BY <2>1, <2>3 DEF GoalTyping, Rows
      <3> QED
        BY <2>1, <2>3, <3>1 DEF Housed
    <2> QED
      BY <2>2, <2>3
  <1>5. ASSUME NEW s \in Slugs, LaunchLink(s) PROVE Housed(z)'
    <2>1. /\ UNCHANGED <<row, file, there, writer, torn, gone>>
          /\ \A e \in Dirs : \A y \in cast[e].links : y \in cast'[e].links
      BY <1>5, LaunchTyping
    <2>2. row[z] # None => row[z].ext \in Dirs \cup {None}
      BY DEF GoalTyping, Rows
    <2> QED
      BY <2>1, <2>2 DEF Housed
  <1>6. CASE KillGoals
    BY <1>6, KillTyping DEF Housed
  <1>7. ASSUME NEW d \in Dirs, RemoveDir(d) PROVE Housed(z)'
    <2>1. /\ UNCHANGED row /\ there' = there \ {d} /\ gone \subseteq gone'
          /\ \A s \in Slugs : row[s] # None /\ row[s].folder = d => s \in gone'
          /\ \A e \in Dirs : e # d => cast'[e] = cast[e]
      BY <1>7, RemoveTyping
    <2>2. row[z] # None => row[z].ext \in Dirs \cup {None}
      BY DEF GoalTyping, Rows
    <2> QED
      BY <2>1, <2>2 DEF Housed
  <1>8. ASSUME NEW s \in Slugs, Starts(s) PROVE Housed(z)'
    <2>0. row[s] # None
      BY <1>8, StartsOfGoal
    <2> DEFINE c == writer["loop"].fields
    <2>1. /\ UNCHANGED <<cast, there, gone>> /\ c \in Starting
          /\ \A y \in Slugs : y # s => row'[y] = row[y]
          /\ \A f \in Mirrored \cup {"folder"} : row'[s][f] = IF f \in DOMAIN c THEN c[f] ELSE row[s][f]
      BY <1>8, <2>0, StartsTyping
    <2>2. row'[s]["folder"] = row[s]["folder"] /\ row'[s]["ext"] = row[s]["ext"]
      BY <2>1, StartingIsFielded DEF Fielded, Mirrored
    <2> QED
      BY <2>0, <2>1, <2>2 DEF Housed
  <1> QED
    BY <1>0, <1>1, <1>2, <1>3, <1>4, <1>5, <1>6, <1>7, <1>8 DEF GoalStep, QuietStep

\* A handler of a goal whose project was not removed finds the files where the row says.
LEMMA PlaceIsFolder ==
    ASSUME GoalTyping, NEW s \in Slugs, Housed(s), row[s] # None, s \notin gone
    PROVE  Place(s) = row[s].folder /\ row[s].folder \in there \cup {Home} /\ row[s].folder \in Places
  BY DEF Housed, Place, GoalTyping, Rows

LEMMA FileStep ==
    ASSUME GoalInv, GoalStep, NEW z \in Slugs PROVE FileInOnePlace(z)'
  <1> USE DEF GoalInv
  <1>0. CASE UNCHANGED goalVars
    BY <1>0 DEF goalVars, FileInOnePlace
  <1>f. row[z] # None => row[z].folder \in Places
    BY DEF GoalTyping, Rows
  <1>1. ASSUME NEW s \in Slugs, NEW status \in {"accepted", "idea"}, CreateGoal(s, status)
        PROVE  FileInOnePlace(z)'
    <2>1. /\ row'[z] = (IF z = s THEN NewRow ELSE row[z])
          /\ \A p \in Places : file'[z][p] = IF z = s /\ p = Home THEN NewFile ELSE file[z][p]
      BY <1>1, CreateTyping
    <2>2. gone' = gone /\ torn \subseteq torn' /\ (s \notin torn' => \A p \in Dirs : file[s][p] = None)
      BY <1>1 DEF CreateGoal
    <2>3. NewRow # None /\ NewFile # None /\ NewRow.folder = Home /\ Places = {Home} \cup Dirs
      BY NewTyped, GoalConstants DEF NewRow, Places
    <2>4. CASE z = s
      BY <2>1, <2>2, <2>3, <2>4 DEF FileInOnePlace
    <2>5. CASE z # s
      BY <1>f, <2>1, <2>2, <2>5 DEF FileInOnePlace
    <2> QED
      BY <2>4, <2>5
  <1>2. ASSUME NEW w \in Writers, NEW s \in Slugs, NEW c \in Changed(w), Change(w, s, c)
        PROVE  FileInOnePlace(z)'
    <2>1. /\ row[s] # None /\ Fielded(c) /\ row'[s] \in Rows
          /\ \A y \in Slugs : y # s => row'[y] = row[y]
          /\ \A f \in Mirrored \cup {"folder"} : row'[s][f] = IF f \in DOMAIN c THEN c[f] ELSE row[s][f]
      BY <1>2, ChangeTyping
    <2>2. row'[s]["folder"] = row[s]["folder"] /\ row'[s] # None
      BY <2>1, GoalConstants DEF Fielded
    <2>3. UNCHANGED <<file, gone>> /\ torn \subseteq torn'
      BY <1>2 DEF Change, Changes
    <2> QED
      BY <2>1, <2>2, <2>3 DEF FileInOnePlace
  <1>3. ASSUME NEW w \in Writers, ReadFile(w) PROVE FileInOnePlace(z)'
    BY <1>3, ReadTyping DEF FileInOnePlace
  <1>4. ASSUME NEW w \in Writers, WriteFile(w) PROVE FileInOnePlace(z)'
    <2> DEFINE s == writer[w].goal
               p == writer[w].place
    <2>1. /\ UNCHANGED <<row, gone>> /\ writer[w].at = "write" /\ s \in Slugs /\ p \in Places
          /\ writer[w].seen \in Files
          /\ torn' = IF file[s][p] = writer[w].seen THEN torn ELSE torn \cup {s}
          /\ \A y \in Slugs, q \in Places : y # s \/ q # p => file'[y][q] = file[y][q]
          /\ p = Home \/ p \in there => file'[s][p] # None
      BY <1>4, WriteTyping
    <2>2. row[s] # None
      BY <2>1 DEF Agrees, Idle
    <2>3. CASE z # s
      <3>1. \A q \in Places : file'[z][q] = file[z][q]
        BY <2>1, <2>3
      <3> QED
        BY <1>f, <2>1, <2>3, <3>1 DEF FileInOnePlace
    <2>4. CASE z = s
      <3>1. SUFFICES ASSUME z \notin torn' \cup gone' PROVE FileInOnePlace(z)'
        BY <2>1, <2>2, <2>4 DEF FileInOnePlace
      <3>2. file[z][p] = writer[w].seen /\ writer[w].seen # None /\ z \notin torn \cup gone /\ row[z] # None
        BY <2>1, <2>2, <2>4, <3>1, GoalConstants
      <3>3. p = row[z].folder /\ p \in there \cup {Home}
        BY <2>1, <3>2, PlaceIsFolder DEF FileInOnePlace
      <3>4. file'[z][p] # None /\ \A q \in Places \ {p} : file'[z][q] = file[z][q]
        BY <2>1, <2>4, <3>3
      <3> QED
        BY <2>1, <3>1, <3>2, <3>3, <3>4 DEF FileInOnePlace
    <2> QED
      BY <2>3, <2>4
  <1>5. ASSUME NEW s \in Slugs, NEW d \in Dirs, UpdateConfig(s, d) PROVE FileInOnePlace(z)'
    <2> DEFINE old == row[s].folder
    <2>1. /\ UNCHANGED <<torn, gone>> /\ row[s] # None /\ row[s] \in Rows /\ row'[s] # None
          /\ row'[s].folder = d /\ d # Home
          /\ \A y \in Slugs : y # s => row'[y] = row[y] /\ file'[y] = file[y]
          /\ old = d /\ file[s][Home] = None => file'[s] = file[s]
          /\ old # d /\ file[s][d] = None /\ old \in there \cup {Home} =>
                /\ \A q \in Places \ {old, d} : file[s][q] = None => file'[s][q] = None
                /\ file'[s][old] = None
                /\ file[s][old] # None => file'[s][d] # None
      BY <1>5, ConfigTyping, GoalConstants
    <2>2. CASE z # s
      BY <2>1, <2>2 DEF FileInOnePlace
    <2>3. CASE z = s
      <3>1. SUFFICES ASSUME s \notin torn \cup gone PROVE FileInOnePlace(s)'
        BY <2>1, <2>3 DEF FileInOnePlace
      <3>2. file[s][old] # None /\ \A q \in Places \ {old} : file[s][q] = None
        BY <2>1, <3>1 DEF FileInOnePlace
      <3>3. old \in there \cup {Home} /\ Home \in Places /\ d \in Places
        BY <2>1, <3>1, PlaceIsFolder DEF Places
      <3>4. CASE old = d
        BY <2>1, <3>1, <3>2, <3>3, <3>4 DEF FileInOnePlace
      <3>5. CASE old # d
        BY <2>1, <3>1, <3>2, <3>3, <3>5 DEF FileInOnePlace
      <3> QED
        BY <3>4, <3>5
    <2> QED
      BY <2>2, <2>3
  <1>6. ASSUME NEW s \in Slugs, LaunchLink(s) PROVE FileInOnePlace(z)'
    BY <1>6, LaunchTyping DEF FileInOnePlace
  <1>7. CASE KillGoals
    BY <1>7, KillTyping DEF FileInOnePlace
  <1>8. ASSUME NEW d \in Dirs, RemoveDir(d) PROVE FileInOnePlace(z)'
    <2>1. /\ UNCHANGED <<row, torn>> /\ gone \subseteq gone'
          /\ \A s \in Slugs : row[s] # None /\ row[s].folder = d => s \in gone'
          /\ \A p \in Places : file'[z][p] = IF p = d THEN None ELSE file[z][p]
      BY <1>8, RemoveTyping
    <2> QED
      BY <1>f, <2>1 DEF FileInOnePlace
  <1>9. ASSUME NEW s \in Slugs, Starts(s) PROVE FileInOnePlace(z)'
    <2>0. row[s] # None
      BY <1>9, StartsOfGoal
    <2> DEFINE c == writer["loop"].fields
    <2>1. /\ UNCHANGED <<file, torn, gone>> /\ c \in Starting /\ row'[s] \in Rows
          /\ \A y \in Slugs : y # s => row'[y] = row[y]
          /\ \A f \in Mirrored \cup {"folder"} : row'[s][f] = IF f \in DOMAIN c THEN c[f] ELSE row[s][f]
      BY <1>9, <2>0, StartsTyping
    <2>2. row'[s]["folder"] = row[s]["folder"] /\ row'[s] # None
      BY <2>1, StartingIsFielded, GoalConstants DEF Fielded, Mirrored
    <2> QED
      BY <2>0, <2>1, <2>2 DEF FileInOnePlace
  <1> QED
    BY <1>0, <1>1, <1>2, <1>3, <1>4, <1>5, <1>6, <1>7, <1>8, <1>9 DEF GoalStep, QuietStep

LEMMA PendingStep ==
    ASSUME GoalInv, GoalStep, NEW z \in Slugs PROVE AllButPending(z)'
  <1> USE DEF GoalInv
  <1>f. row[z] # None => row[z].folder \in Places
    BY DEF GoalTyping, Rows
  <1>0. CASE UNCHANGED goalVars
    BY <1>0 DEF goalVars, AllButPending, Mirroring
  <1>1. ASSUME NEW s \in Slugs, NEW status \in {"accepted", "idea"}, CreateGoal(s, status)
        PROVE  AllButPending(z)'
    <2>1. /\ row'[z] = (IF z = s THEN NewRow ELSE row[z])
          /\ \A p \in Places : file'[z][p] = IF z = s /\ p = Home THEN NewFile ELSE file[z][p]
          /\ writer["loop"] = Idle
          /\ \A x \in Writers : x # "loop" => writer'[x] = writer[x]
      BY <1>1, CreateTyping
    <2>2. gone' = gone /\ torn \subseteq torn'
      BY <1>1 DEF CreateGoal
    <2>3. Home \in Places /\ NewRow.folder = Home /\ \A f \in Mirrored : NewFile[f] = NewRow[f]
      BY NewTyped DEF NewRow, Places
    <2>4. CASE z = s
      BY <2>1, <2>3, <2>4 DEF AllButPending
    <2>5. CASE z # s
      <3>1. \A w \in Writers : Mirroring(w) => writer'[w] = writer[w] /\ Mirroring(w)'
        BY <2>1 DEF Mirroring, Idle
      <3> QED
        BY <1>f, <2>1, <2>2, <2>5, <3>1 DEF AllButPending
    <2> QED
      BY <2>4, <2>5
  <1>2. ASSUME NEW w \in Writers, NEW s \in Slugs, NEW c \in Changed(w), Change(w, s, c)
        PROVE  AllButPending(z)'
    <2>1. /\ row[s] # None /\ Fielded(c) /\ writer[w] = Idle
          /\ writer'[w].at = "read" /\ writer'[w].goal = s /\ writer'[w].fields = c
          /\ \A x \in Writers : x # w => writer'[x] = writer[x]
          /\ \A y \in Slugs : y # s => row'[y] = row[y]
          /\ \A f \in Mirrored \cup {"folder"} : row'[s][f] = IF f \in DOMAIN c THEN c[f] ELSE row[s][f]
      BY <1>2, ChangeTyping
    <2>2. row'[s]["folder"] = row[s]["folder"]
      BY <2>1 DEF Fielded
    <2>3. UNCHANGED <<file, gone>> /\ torn \subseteq torn'
      BY <1>2 DEF Change, Changes
    <2>4. \A x \in Writers : Mirroring(x) => writer'[x] = writer[x] /\ Mirroring(x)'
      BY <2>1 DEF Mirroring, Idle
    <2>5. CASE z # s
      BY <2>1, <2>3, <2>4, <2>5 DEF AllButPending
    <2>6. CASE z = s
      <3>1. SUFFICES ASSUME s \notin torn \cup gone, NEW f \in Mirrored
                     PROVE  \/ file[s][row[s].folder][f] = row'[s][f]
                            \/ f = "status" /\ row'[s].status = "idea"
                            \/ \E x \in Writers : Mirroring(x)' /\ writer'[x].goal = s
                                                  /\ f \in DOMAIN writer'[x].fields
        BY <2>2, <2>3, <2>6 DEF AllButPending
      <3>2. CASE f \in DOMAIN c
        BY <2>1, <3>2 DEF Mirroring
      <3>3. CASE f \notin DOMAIN c
        <4>1. row'[s][f] = row[s][f]
          BY <2>1, <3>3
        <4>2. f = "status" => row'[s].status = row[s].status
          BY <4>1
        <4> QED
          BY <2>1, <2>4, <3>1, <4>1, <4>2 DEF AllButPending
      <3> QED
        BY <3>2, <3>3
    <2> QED
      BY <2>5, <2>6
  <1>3. ASSUME NEW w \in Writers, ReadFile(w) PROVE AllButPending(z)'
    <2> DEFINE s == writer[w].goal
    <2>1. /\ writer[w].at = "read" /\ UNCHANGED <<row, file, there, torn, gone>>
          /\ \A x \in Writers : x # w => writer'[x] = writer[x]
          /\ \/ file[s][Place(s)] = None
             \/ writer'[w].at = "write" /\ writer'[w].goal = s /\ writer'[w].fields = writer[w].fields
      BY <1>3, ReadTyping
    <2>2. row[s] # None /\ s \in Slugs
      BY <2>1, OfHandler DEF Agrees, Idle
    <2>3. SUFFICES ASSUME row[z] # None, z \notin torn \cup gone PROVE AllButPending(z)'
      BY <2>1 DEF AllButPending
    <2>4. \A x \in Writers : Mirroring(x) /\ writer[x].goal = z =>
             Mirroring(x)' /\ writer'[x].goal = z /\ writer'[x].fields = writer[x].fields
      <3>1. s = z => file[s][Place(s)] # None
        BY <2>2, <2>3, PlaceIsFolder DEF FileInOnePlace
      <3> QED
        BY <2>1, <3>1 DEF Mirroring
    <2> QED
      BY <2>1, <2>3, <2>4 DEF AllButPending
  <1>4. ASSUME NEW w \in Writers, WriteFile(w) PROVE AllButPending(z)'
    <2> DEFINE s == writer[w].goal
               p == writer[w].place
               c == writer[w].fields
    <2>1. /\ UNCHANGED <<row, gone>> /\ writer[w].at = "write" /\ s \in Slugs /\ p \in Places
          /\ writer[w].seen \in Files
          /\ torn' = IF file[s][p] = writer[w].seen THEN torn ELSE torn \cup {s}
          /\ \A x \in Writers : x # w => writer'[x] = writer[x]
          /\ \A y \in Slugs, q \in Places : y # s \/ q # p => file'[y][q] = file[y][q]
          /\ p = Home \/ p \in there =>
                \A f \in Mirrored : file'[s][p][f] = IF f \in DOMAIN c THEN c[f] ELSE writer[w].seen[f]
      BY <1>4, WriteTyping
    <2>2. row[s] # None /\ Agrees(w) /\ writer[w] # Idle /\ Mirroring(w)
      BY <2>1 DEF Agrees, Idle, Mirroring
    <2> HIDE DEF p
    <2>3. SUFFICES ASSUME row[z] # None, z \notin torn' \cup gone' PROVE AllButPending(z)'
      BY <2>1 DEF AllButPending
    <2>4. z \notin torn \cup gone
      BY <2>1, <2>3
    <2>5. CASE z # s
      <3>1. file'[z][row[z].folder] = file[z][row[z].folder]
        BY <1>f, <2>1, <2>3, <2>5
      <3>2. \A x \in Writers : Mirroring(x) /\ writer[x].goal = z => writer'[x] = writer[x] /\ Mirroring(x)'
        BY <2>1, <2>5 DEF Mirroring
      <3> QED
        BY <2>1, <2>3, <2>4, <3>1, <3>2 DEF AllButPending
    <2>6. CASE z = s
      <3>1. file[z][p] = writer[w].seen /\ writer[w].seen # None
        BY <2>1, <2>3, <2>6, GoalConstants
      <3>2. p = row[z].folder /\ p \in there \cup {Home}
        BY <2>1, <2>3, <2>4, <3>1, PlaceIsFolder DEF FileInOnePlace
      <3>3. \A f \in DOMAIN c : row[z][f] = c[f]
        BY <2>2, <2>4, <2>6 DEF Agrees
      <3>4. \A f \in Mirrored : file'[z][p][f] = IF f \in DOMAIN c THEN row[z][f] ELSE file[z][p][f]
        BY <2>1, <2>6, <3>1, <3>2, <3>3
      <3>5. \A x \in Writers : Mirroring(x) /\ x # w => writer'[x] = writer[x] /\ Mirroring(x)'
        BY <2>1 DEF Mirroring
      <3> QED
        BY <2>1, <2>3, <2>4, <3>2, <3>4, <3>5 DEF AllButPending
    <2> QED
      BY <2>5, <2>6
  <1>5. ASSUME NEW s \in Slugs, NEW d \in Dirs, UpdateConfig(s, d) PROVE AllButPending(z)'
    <2> DEFINE old == row[s].folder
    <2>1. /\ UNCHANGED <<writer, torn, gone>> /\ row[s] # None /\ row'[s].folder = d /\ row'[s].ext = d
          /\ d # Home /\ Home \in Places /\ d \in Places
          /\ \A f \in Mirrored \ {"ext"} : row'[s][f] = row[s][f]
          /\ \A y \in Slugs : y # s => row'[y] = row[y] /\ file'[y] = file[y]
          /\ old = d /\ file[s][Home] = None => file'[s] = file[s]
          /\ old # d /\ file[s][d] = None /\ old \in there \cup {Home} =>
                (file[s][old] # None =>
                   \A f \in Mirrored : file'[s][d][f] = IF f = "ext" THEN d ELSE file[s][old][f])
      BY <1>5, ConfigTyping, GoalConstants DEF Places
    <2>2. CASE z # s
      BY <2>1, <2>2 DEF AllButPending, Mirroring
    <2>3. CASE z = s
      <3>1. SUFFICES ASSUME s \notin torn \cup gone PROVE AllButPending(s)'
        BY <2>1, <2>3 DEF AllButPending
      <3>2. file[s][old] # None /\ \A q \in Places \ {old} : file[s][q] = None
        BY <2>1, <3>1 DEF FileInOnePlace
      <3>3. old \in there \cup {Home} /\ old = (IF row[s].ext = None THEN Home ELSE row[s].ext)
        BY <2>1, <3>1, PlaceIsFolder DEF Housed
      <3>5. row'[s].status = row[s].status
        <4>1. row'[s]["status"] = row[s]["status"]
          BY <2>1 DEF Mirrored
        <4> QED
          BY <4>1
      <3>6. \A f \in Mirrored : \/ file[s][old][f] = row[s][f]
                                \/ f = "status" /\ row[s].status = "idea"
                                \/ \E x \in Writers : Mirroring(x) /\ writer[x].goal = s
                                                      /\ f \in DOMAIN writer[x].fields
        BY <2>1, <3>1 DEF AllButPending
      <3>7. \A f \in Mirrored : \/ file'[s][d][f] = row'[s][f]
                                \/ f = "status" /\ row'[s].status = "idea"
                                \/ \E x \in Writers : Mirroring(x) /\ writer[x].goal = s
                                                      /\ f \in DOMAIN writer[x].fields
        <4>1. ASSUME NEW f \in Mirrored, f # "ext"
              PROVE  file'[s][d][f] = file[s][old][f] /\ row'[s][f] = row[s][f]
          BY <2>1, <3>2, <3>3, <4>1
        <4>2. file'[s][d]["ext"] = row'[s]["ext"]
          <5>1. CASE old = d
            <6>1. file'[s][d]["ext"] = file[s][old]["ext"] /\ row[s].ext = d
              BY <2>1, <3>2, <3>3, <5>1
            <6>2. "ext" \in Mirrored
              BY DEF Mirrored
            <6>3. \A x \in Writers : Mirroring(x) => "ext" \notin DOMAIN writer[x].fields
              BY OfHandler DEF Mirroring, Idle, Fielded
            <6> QED
              BY <2>1, <3>6, <6>1, <6>2, <6>3
          <5>2. CASE old # d
            BY <2>1, <3>2, <3>3, <5>2 DEF Mirrored
          <5> QED
            BY <5>1, <5>2
        <4> QED
          BY <3>5, <3>6, <4>1, <4>2
      <3> QED
        BY <2>1, <3>7 DEF AllButPending, Mirroring
    <2> QED
      BY <2>2, <2>3
  <1>6. ASSUME NEW s \in Slugs, LaunchLink(s) PROVE AllButPending(z)'
    BY <1>6, LaunchTyping DEF AllButPending, Mirroring
  <1>7. CASE KillGoals
    <2>1. UNCHANGED <<row, file, gone>> /\ torn \subseteq torn' /\ \A w \in Writers : writer[w] # Idle => writer[w].goal \in torn'
      BY <1>7, KillTyping
    <2>2. \A w \in Writers : Mirroring(w) => writer[w] # Idle
      BY DEF Mirroring, Idle
    <2> QED
      BY <2>1, <2>2 DEF AllButPending
  <1>8. ASSUME NEW d \in Dirs, RemoveDir(d) PROVE AllButPending(z)'
    <2>1. /\ UNCHANGED <<row, torn, writer>> /\ gone \subseteq gone'
          /\ \A s \in Slugs : row[s] # None /\ row[s].folder = d => s \in gone'
          /\ \A p \in Places : file'[z][p] = IF p = d THEN None ELSE file[z][p]
      BY <1>8, RemoveTyping
    <2> QED
      BY <1>f, <2>1 DEF AllButPending, Mirroring
  <1>9. ASSUME NEW s \in Slugs, Starts(s) PROVE AllButPending(z)'
    <2>0. row[s] # None
      BY <1>9, StartsOfGoal
    <2> DEFINE c == writer["loop"].fields
    <2>1. /\ UNCHANGED <<file, torn, gone>> /\ c \in Starting /\ "loop" \in Writers
          /\ writer["loop"].at = "tasks" /\ writer["loop"].goal = s
          /\ \A x \in Writers : x # "loop" => writer'[x] = writer[x]
          /\ \A y \in Slugs : y # s => row'[y] = row[y]
          /\ \A f \in Mirrored \cup {"folder"} : row'[s][f] = IF f \in DOMAIN c THEN c[f] ELSE row[s][f]
      BY <1>9, <2>0, StartsTyping
    <2>2. row'[s]["folder"] = row[s]["folder"]
      BY <2>1, StartingIsFielded DEF Fielded
    <2>3. \A x \in Writers : Mirroring(x) => writer'[x] = writer[x] /\ Mirroring(x)'
      BY <2>1 DEF Mirroring
    <2>4. CASE z # s
      BY <2>1, <2>3, <2>4 DEF AllButPending
    <2>5. CASE z = s
      <3>1. SUFFICES ASSUME s \notin torn \cup gone PROVE AllButPending(s)'
        BY <2>0, <2>1, <2>5 DEF AllButPending
      <3>2. row[s].status = "accepted" /\ ("phase" \in DOMAIN c => row[s].phase = c["phase"])
        BY <2>0, <2>1, <3>1 DEF Agrees, Idle
      <3>3. row'[s].status = "idea" \/ row'[s].status = row[s].status
        <4>1. "status" \in DOMAIN c /\ c["status"] \in {"accepted", "idea"}
          BY <2>1 DEF Starting
        <4>2. row'[s]["status"] = c["status"]
          BY <2>1, <4>1 DEF Mirrored
        <4> QED
          BY <3>2, <4>1, <4>2
      <3>4. \A f \in Mirrored \ {"status"} : row'[s][f] = row[s][f]
        <4>1. DOMAIN c \subseteq {"status", "phase"}
          BY <2>1 DEF Starting
        <4> QED
          BY <2>1, <3>2, <4>1
      <3>5. row[s].status # "idea"
        BY <3>2
      <3> QED
        BY <2>0, <2>1, <2>2, <2>3, <3>1, <3>3, <3>4, <3>5 DEF AllButPending
    <2> QED
      BY <2>4, <2>5
  <1> QED
    BY <1>0, <1>1, <1>2, <1>3, <1>4, <1>5, <1>6, <1>7, <1>8, <1>9 DEF GoalStep, QuietStep

LEMMA GoalTypingStep ==
    ASSUME GoalInv, GoalStep PROVE GoalTyping' /\ Linking'
  <1> USE DEF GoalInv
  <1>0. CASE UNCHANGED goalVars
    BY <1>0 DEF goalVars, GoalTyping, Linking
  <1>1. ASSUME NEW s \in Slugs, NEW status \in {"accepted", "idea"}, CreateGoal(s, status)
        PROVE  GoalTyping' /\ Linking'
    <2>1. cast' = cast
      BY <1>1 DEF CreateGoal
    <2> QED
      BY <1>1, <2>1, CreateTyping DEF Linking
  <1>2. ASSUME NEW w \in Writers, NEW s \in Slugs, NEW c \in Changed(w), Change(w, s, c)
        PROVE  GoalTyping' /\ Linking'
    <2>1. cast' = cast
      BY <1>2 DEF Change, Changes
    <2> QED
      BY <1>2, <2>1, ChangeTyping DEF Linking
  <1>3. ASSUME NEW w \in Writers, ReadFile(w) \/ WriteFile(w) PROVE GoalTyping' /\ Linking'
    BY <1>3, ReadTyping, WriteTyping DEF Linking
  <1>4. ASSUME NEW s \in Slugs, Starts(s) PROVE GoalTyping' /\ Linking'
    BY <1>4, StartsOfGoal, StartsTyping DEF Linking
  <1>5. CASE KillGoals
    BY <1>5, KillTyping DEF Linking
  <1> QED
    BY <1>0, <1>1, <1>2, <1>3, <1>4, <1>5, ConfigTyping, LaunchTyping, RemoveTyping DEF GoalStep, QuietStep

LEMMA GoalInvInit == GoalInit => GoalInv
  <1> SUFFICES ASSUME GoalInit PROVE GoalInv
    OBVIOUS
  <1>1. /\ scenario \in Scenarios /\ row = [s \in Slugs |-> None]
        /\ file = [s \in Slugs |-> [p \in Places |-> None]]
        /\ cast \in [Dirs -> {NoLinks, Legacy}] /\ there = scenario.dirs
        /\ writer = [w \in Writers |-> Idle] /\ torn = {} /\ gone = {}
    BY DEF GoalInit
  <1>2. GoalTyping /\ Linking
    <2>1. there \subseteq Dirs
      BY <1>1, GoalConstants
    <2>2. cast \in [Dirs -> [legacy : BOOLEAN, links : SUBSET Slugs]] /\ Linking
      <3>1. NoLinks \in Casts /\ Legacy \in Casts
        BY DEF NoLinks, Legacy, Casts
      <3>2. cast \in [Dirs -> Casts]
        BY <1>1, <3>1
      <3> QED
        BY <3>2 DEF Casts, Linking
    <2> QED
      BY <1>1, <2>1, <2>2 DEF GoalTyping, HandlerStates
  <1>3. \A s \in Slugs : Housed(s) /\ FileInOnePlace(s) /\ AllButPending(s)
    BY <1>1 DEF Housed, FileInOnePlace, AllButPending
  <1>4. \A w \in Writers : Agrees(w)
    BY <1>1 DEF Agrees
  <1> QED
    BY <1>2, <1>3, <1>4 DEF GoalInv

LEMMA GoalInvStep == GoalInv /\ [Next]_vars => GoalInv'
  <1> SUFFICES ASSUME GoalInv, [Next]_vars PROVE GoalInv'
    OBVIOUS
  <1>1. GoalStep
    BY Steps DEF GoalInv
  <1>2. GoalTyping' /\ Linking'
    BY <1>1, GoalTypingStep
  <1>3. \A w \in Writers : Agrees(w)'
    BY <1>1, AgreesStep
  <1>4. \A s \in Slugs : Housed(s)' /\ FileInOnePlace(s)' /\ AllButPending(s)'
    BY <1>1, HousedStep, FileStep, PendingStep
  <1> QED
    BY <1>2, <1>3, <1>4 DEF GoalInv

\* Types and the parts of the invariant hold of the goals whatever the steps of Tasks do:
\* handlers that were interrupted, routed, killed or overtaken by each other included.
THEOREM GoalsInvariant == Spec => []GoalInv
  <1>1. Init => GoalInv
    BY GoalInvInit DEF Init
  <1> QED
    BY <1>1, GoalInvStep, PTL DEF Spec

\* What goal.yaml says and where it is, for any number of handlers at work at once: once
\* the handlers of a goal are done, _update_goal_yaml_fields and update_config have left
\* goal.yaml where the row says, and in agreement with the row.
THEOREM RowIsMirrored == Spec => []FileMirrorsRow
  <1>1. GoalInv => FileMirrorsRow
    <2> SUFFICES ASSUME GoalInv, NEW s \in Slugs, row[s] # None, s \notin torn \cup gone, AtRest(s)
                 PROVE  /\ file[s][row[s].folder] # None
                        /\ \A f \in Mirrored : \/ file[s][row[s].folder][f] = row[s][f]
                                               \/ f = "status" /\ row[s].status = "idea"
      BY DEF FileMirrorsRow
    <2>1. FileInOnePlace(s) /\ AllButPending(s)
      BY DEF GoalInv
    <2>2. \A w \in Writers : writer[w].goal # s
      BY DEF AtRest
    <2> QED
      BY <2>1, <2>2 DEF FileInOnePlace, AllButPending
  <1> QED
    BY <1>1, GoalsInvariant, PTL

\* A routed goal is linked in its project, however many goals share the project and move
\* through it (ensure_cast_symlink, remove_cast_symlink), unless the project was removed.
THEOREM RoutedIsLinked == Spec => []LinkedWhereRouted
  <1>1. GoalInv => LinkedWhereRouted
    BY DEF GoalInv, Housed, LinkedWhereRouted
  <1> QED
    BY <1>1, GoalsInvariant, PTL

-------------------------------------------------------------------------------
(* The board of a goal.                                                    *)

\* A task that is on the board, and the tasks that are.
OnBoard(tasks, s, t) ==
    /\ tasks[t] # None /\ tasks[t].goal = s /\ tasks[t].status \notin Hidden
    /\ \/ tasks[t].parent = None
       \/ \E p \in TaskIds : /\ p = tasks[t].parent /\ tasks[p] # None /\ tasks[p].goal = s
                             /\ tasks[p].status \notin Hidden /\ tasks[p].parent = None

LEMMA ListedIs ==
    ASSUME NEW tasks, NEW s
    PROVE  Listed(tasks, s) = {[id |-> t, under |-> tasks[t].parent, status |-> tasks[t].status] :
                                  t \in {u \in TaskIds : OnBoard(tasks, s, u)}}
  <1> DEFINE shown == {t \in TasksOf(tasks, s) : tasks[t].status \notin Hidden}
             top == {t \in shown : tasks[t].parent = None}
             on == top \cup {u \in shown : tasks[u].parent \in top}
  <1>1. on = {u \in TaskIds : OnBoard(tasks, s, u)}
    BY DEF TasksOf, OnBoard
  <1>2. Listed(tasks, s) = {[id |-> t, under |-> tasks[t].parent, status |-> tasks[t].status] : t \in on}
    BY DEF Listed
  <1> HIDE DEF on
  <1> QED
    BY <1>1, <1>2, Zenon

LEMMA ListedTyped ==
    ASSUME NEW tasks \in [TaskIds -> TaskRows \cup {None}], NEW s PROVE Listed(tasks, s) \in SUBSET Lines
  <1> SUFFICES ASSUME NEW t \in TaskIds, OnBoard(tasks, s, t)
               PROVE  [id |-> t, under |-> tasks[t].parent, status |-> tasks[t].status] \in Lines
    BY ListedIs
  <1>1. tasks[t] \in TaskRows
    BY DEF OnBoard
  <1> QED
    BY <1>1 DEF TaskRows, Lines

\* A handler of the tasks of a goal: tasks keep their goal, those that are new are of this
\* goal, and of the tasks of other goals it touches suggestions that are nested under one
\* of this goal, which are on no board and are on none then.
Handled(s) ==
    /\ task' \in [TaskIds -> TaskRows \cup {None}]
    /\ \A t \in TaskIds : task[t] # None => task'[t] # None /\ task'[t].goal = task[t].goal
    /\ \A t \in TaskIds : task[t] = None /\ task'[t] # None => task'[t].goal = s
    /\ \A t \in TaskIds : task[t] # None /\ task[t].goal # s /\ task'[t] # task[t] =>
          /\ task[t].status = "suggested"
          /\ task[t].parent \in TaskIds /\ task[task[t].parent] # None /\ task[task[t].parent].goal = s
          /\ task'[t].parent = task[t].parent \/ task'[t].status \in Hidden

\* It leaves the boards of the other goals as they are.
LEMMA OthersListed ==
    ASSUME TaskTyping, NEW s, Handled(s), NEW z, z # s
    PROVE  /\ Listed(task', z) = Listed(task, z)
           /\ TasksOf(task', z) = TasksOf(task, z)
  <1>1. \A t \in TaskIds : OnBoard(task, z, t) => task'[t] = task[t]
    BY DEF OnBoard, Handled, Hidden
  <1>2. ASSUME NEW t \in TaskIds, OnBoard(task, z, t) PROVE OnBoard(task', z, t)
    <2>1. task'[t] = task[t]
      BY <1>1, <1>2
    <2>2. ASSUME NEW p \in TaskIds, p = task[t].parent, task[p] # None, task[p].goal = z,
                 task[p].status \notin Hidden, task[p].parent = None
          PROVE  task'[p] = task[p]
      BY <2>2 DEF Handled, Hidden
    <2> QED
      BY <1>2, <2>1, <2>2 DEF OnBoard
  <1>3. ASSUME NEW t \in TaskIds, OnBoard(task', z, t) PROVE OnBoard(task, z, t)
    <2>1. task[t] # None /\ task[t].goal = z /\ task'[t].goal = z
      BY <1>3 DEF OnBoard, Handled
    <2>2. ASSUME NEW p \in TaskIds, task'[p] # None, task'[p].goal = z, task'[p].status \notin Hidden,
                 task'[p].parent = None
          PROVE  task'[p] = task[p]
      <3>1. task[p] # None /\ task[p].goal = z
        BY <2>2 DEF Handled
      <3> QED
        BY <2>2, <3>1, TaskConstants DEF Handled
    <2>3. task'[t] = task[t]
      <3> SUFFICES ASSUME task'[t] # task[t] PROVE FALSE
        OBVIOUS
      <3>1. /\ task[t].parent \in TaskIds /\ task[task[t].parent] # None /\ task[task[t].parent].goal = s
            /\ task'[t].parent = task[t].parent
        BY <1>3, <2>1 DEF Handled, OnBoard
      <3>2. task'[task[t].parent].goal = s
        BY <3>1 DEF Handled
      <3> QED
        BY <1>3, <3>1, <3>2, TaskConstants DEF OnBoard
    <2> QED
      BY <1>3, <2>1, <2>2, <2>3 DEF OnBoard
  <1>4. {u \in TaskIds : OnBoard(task', z, u)} = {u \in TaskIds : OnBoard(task, z, u)}
    BY <1>2, <1>3
  <1>5. Listed(task', z) = Listed(task, z)
    <2> DEFINE on == {u \in TaskIds : OnBoard(task, z, u)}
    <2>1. Listed(task', z) = {[id |-> t, under |-> task'[t].parent, status |-> task'[t].status] : t \in on}
      BY <1>4, ListedIs
    <2>2. Listed(task, z) = {[id |-> t, under |-> task[t].parent, status |-> task[t].status] : t \in on}
      BY ListedIs
    <2>3. \A t \in on : task'[t] = task[t]
      BY <1>1
    <2> HIDE DEF on
    <2> QED
      BY <2>1, <2>2, <2>3
  <1>6. TasksOf(task', z) = TasksOf(task, z)
    BY DEF TasksOf, Handled
  <1> QED
    BY <1>5, <1>6

-------------------------------------------------------------------------------
(* What the handlers of tasks change.                                      *)

Restated(x, status) == [x EXCEPT !.status = status]
Parentless(x) == [x EXCEPT !.parent = None]

LEMMA RestatedTyped ==
    ASSUME NEW x \in TaskRows, NEW status \in TaskStatuses
    PROVE  /\ Restated(x, status) \in TaskRows /\ Restated(x, status).goal = x.goal
           /\ Restated(x, status).parent = x.parent
           /\ Parentless(x) \in TaskRows /\ Parentless(x).goal = x.goal /\ Parentless(x).status = x.status
  BY DEF TaskRows, Restated, Parentless

\* A task nested under t that is still a suggestion, of whatever goal, or t itself.
Under(t, u) ==
    task[u] # None /\ (u # t => task[u].status = "suggested" /\ task[u].parent = t)

LEMMA MovesHandled ==
    ASSUME TaskTyping, NEW t \in TaskIds, task[t] # None, NEW ts, NEW status \in TaskStatuses,
           \A u \in ts \cap TaskIds : Under(t, u), Moves(ts, status)
    PROVE  Handled(task[t].goal)
  <1> DEFINE s == task[t].goal
  <1>1. ASSUME NEW u \in TaskIds
        PROVE  /\ task'[u] \in TaskRows \cup {None}
               /\ task[u] # None => task'[u] # None /\ task'[u].goal = task[u].goal /\ task'[u].parent = task[u].parent
               /\ task[u] = None => task'[u] = None
               /\ u \notin ts => task'[u] = task[u]
    <2>1. CASE u \in ts
      <3>1. task[u] # None /\ task[u] \in TaskRows
        BY <2>1 DEF Under, TaskTyping
      <3>2. task'[u] = Restated(task[u], status)
        BY <2>1 DEF Moves, Restated
      <3> QED
        BY <2>1, <3>1, <3>2, RestatedTyped, TaskConstants
    <2>2. CASE u \notin ts
      BY <2>2 DEF Moves, TaskTyping
    <2> QED
      BY <2>1, <2>2
  <1>2. task' \in [TaskIds -> TaskRows \cup {None}]
    <2>1. DOMAIN task' = TaskIds /\ task' = [u \in TaskIds |-> task'[u]]
      BY DEF Moves
    <2> QED
      BY <1>1, <2>1
  <1>3. ASSUME NEW u \in TaskIds, task[u] # None, task[u].goal # s, task'[u] # task[u]
        PROVE  /\ task[u].status = "suggested"
               /\ task[u].parent \in TaskIds /\ task[task[u].parent] # None /\ task[task[u].parent].goal = s
               /\ task'[u].parent = task[u].parent
    BY <1>1, <1>3 DEF Under
  <1> QED
    BY <1>1, <1>2, <1>3 DEF Handled

LEMMA ParentHandled ==
    ASSUME TaskTyping, NEW t \in TaskIds, ApproveParentOnly(t)
    PROVE  Handled(task[t].goal)
  <1> DEFINE s == task[t].goal
  <1>1. ASSUME NEW u \in TaskIds
        PROVE  /\ task'[u] \in TaskRows \cup {None}
               /\ task[u] # None => task'[u] # None /\ task'[u].goal = task[u].goal
               /\ task[u] = None => task'[u] = None
               /\ u # t /\ task'[u] # task[u] =>
                     task[u].status = "suggested" /\ task[u].parent = t /\ task'[u].status = "suggested"
    <2>1. CASE u \in Suggested({t})
      <3>1. task[u] # None /\ task[u] \in TaskRows /\ u = t
        BY <2>1 DEF ApproveParentOnly, Has, Suggested, TaskTyping
      <3>2. task'[u] = Restated(task[u], "pending") /\ "pending" \in TaskStatuses
        BY <2>1 DEF ApproveParentOnly, TaskStatuses, Restated
      <3> QED
        BY <3>1, <3>2, RestatedTyped, TaskConstants
    <2>2. CASE u \notin Suggested({t}) /\ u \in Suggested(Children(t))
      <3>1. task[u] # None /\ task[u] \in TaskRows /\ task[u].status = "suggested" /\ task[u].parent = t
        BY <2>2 DEF Children, Suggested, TaskTyping
      <3>2. task'[u] = Parentless(task[u]) /\ "pending" \in TaskStatuses
        BY <2>2 DEF ApproveParentOnly, TaskStatuses, Parentless
      <3> QED
        BY <3>1, <3>2, RestatedTyped, TaskConstants
    <2>3. CASE u \notin Suggested({t}) /\ u \notin Suggested(Children(t))
      BY <2>3 DEF ApproveParentOnly, TaskTyping
    <2> QED
      BY <2>1, <2>2, <2>3
  <1>2. task' \in [TaskIds -> TaskRows \cup {None}]
    <2>1. DOMAIN task' = TaskIds /\ task' = [u \in TaskIds |-> task'[u]]
      BY DEF ApproveParentOnly
    <2> QED
      BY <1>1, <2>1
  <1>3. task[t] # None
    BY DEF ApproveParentOnly, Has
  <1>4. ASSUME NEW u \in TaskIds, task[u] # None, task[u].goal # s, task'[u] # task[u]
        PROVE  /\ task[u].status = "suggested"
               /\ task[u].parent \in TaskIds /\ task[task[u].parent] # None /\ task[task[u].parent].goal = s
               /\ task'[u].status \in Hidden
    BY <1>1, <1>3, <1>4 DEF Hidden
  <1> QED
    BY <1>1, <1>2, <1>4 DEF Handled

\* A new task.
LEMMA AddHandled ==
    ASSUME TaskTyping, NEW s \in Slugs, NEW parent \in TaskIds \cup {None}, NEW status \in TaskStatuses,
           NEW t \in Next1, task' = [task EXCEPT ![t] = New(s, parent, status)]
    PROVE  Handled(s)
  <1>1. New(s, parent, status) \in TaskRows /\ New(s, parent, status).goal = s
    BY DEF New, TaskRows
  <1>2. t \in TaskIds /\ task[t] = None
    BY DEF Next1
  <1> QED
    BY <1>1, <1>2, TaskConstants DEF TaskTyping, Handled

\* A step of a task changes the tasks as a handler of the task's goal does and has the
\* board written, or only runs and what a kill changes.
LEMMA TaskSteps ==
    ASSUME TaskTyping, NEW t \in TaskIds, TaskNext(t)
    PROVE  \/ /\ task[t] # None /\ Free /\ Handled(task[t].goal)
              /\ Rendered(task[t].goal) \/ NotRendered(task[t].goal)
           \/ UNCHANGED goalVars /\ UNCHANGED <<task, board, behind>>
           \/ KillGoals /\ UNCHANGED <<task, board, behind>>
  <1>1. ASSUME NEW ts, NEW status \in TaskStatuses, Has(t), ts \subseteq {t} \cup Suggested(Children(t)), Moves(ts, status)
        PROVE  task[t] # None /\ Free /\ Handled(task[t].goal)
    <2>1. \A u \in ts \cap TaskIds : Under(t, u)
      BY <1>1 DEF Under, Suggested, Children, Has
    <2> QED
      BY <1>1, <2>1, MovesHandled DEF Has
  <1>2. {"completed", "pending", "declined", "in_progress"} \subseteq TaskStatuses
    BY DEF TaskStatuses
  <1>3. ASSUME NEW status \in TaskStatuses, UpdateTaskStatus(t, status)
        PROVE  task[t] # None /\ Free /\ Handled(task[t].goal) /\ Rendered(task[t].goal)
    BY <1>1, <1>3 DEF UpdateTaskStatus
  <1>4. ASSUME UpdateTask(t)
        PROVE  task[t] # None /\ Free /\ Handled(task[t].goal) /\ Rendered(task[t].goal)
    BY <1>4 DEF UpdateTask, Has, Handled, TaskTyping
  <1>5. ASSUME Approve(t)
        PROVE  task[t] # None /\ Free /\ Handled(task[t].goal) /\ Rendered(task[t].goal)
    BY <1>2, <1>3, <1>5 DEF Approve
  <1>6. ASSUME ApproveGroup(t)
        PROVE  task[t] # None /\ Free /\ Handled(task[t].goal) /\ Rendered(task[t].goal)
    <2>1. Suggested({t} \cup Children(t)) \subseteq {t} \cup Suggested(Children(t))
      BY DEF Suggested
    <2> QED
      BY <1>1, <1>2, <1>6, <2>1 DEF ApproveGroup
  <1>7. ASSUME ApproveParentOnly(t)
        PROVE  task[t] # None /\ Free /\ Handled(task[t].goal) /\ Rendered(task[t].goal)
    <2>1. Handled(task[t].goal)
      BY <1>7, ParentHandled
    <2> QED
      BY <1>7, <2>1 DEF ApproveParentOnly, Has
  <1>8. ASSUME Decline(t) \/ DeclineGroup(t)
        PROVE  task[t] # None /\ Free /\ Handled(task[t].goal) /\ NotRendered(task[t].goal)
    BY <1>1, <1>2, <1>8 DEF Decline, DeclineGroup
  <1>9. ASSUME NEW status, RunAgent(t, status)
        PROVE  \/ task[t] # None /\ Free /\ Handled(task[t].goal) /\ Rendered(task[t].goal)
               \/ KillGoals /\ UNCHANGED <<task, board, behind>>
    BY <1>1, <1>2, <1>9 DEF RunAgent, Startable
  <1>10. ASSUME Trigger(t) PROVE UNCHANGED goalVars /\ UNCHANGED <<task, board, behind>>
    BY <1>10 DEF Trigger
  <1> QED
    BY <1>3, <1>4, <1>5, <1>6, <1>7, <1>8, <1>9, <1>10 DEF TaskNext

-------------------------------------------------------------------------------
(* Every step keeps the boards.                                            *)

\* Where a quiet step leaves a goal that is there and nothing befell.
Stays(z) ==
    /\ row[z] # None => row'[z] # None
    /\ row'[z] # None /\ z \notin torn' \cup gone' =>
          /\ z \notin torn \cup gone
          /\ row[z] # None => row'[z].folder = row[z].folder
          /\ row[z] = None => row'[z].folder = Home /\ writer'["loop"].at = "tasks" /\ writer'["loop"].goal = z
          /\ writer["loop"].at = "tasks" /\ writer["loop"].goal = z =>
                writer'["loop"].at = "tasks" /\ writer'["loop"].goal = z

LEMMA QuietStays ==
    ASSUME GoalInv, QuietStep, NEW z \in Slugs PROVE Stays(z)
  <1> USE DEF GoalInv
  <1>l. "loop" \in Writers
    BY DEF Writers
  <1>f. row[z] # None => row[z].folder \in Places
    BY DEF GoalTyping, Rows
  <1>0. CASE UNCHANGED goalVars
    BY <1>0 DEF goalVars, Stays
  <1>1. ASSUME NEW s \in Slugs, NEW status \in {"accepted", "idea"}, CreateGoal(s, status) PROVE Stays(z)
    <2>1. /\ row'[z] = (IF z = s THEN NewRow ELSE row[z]) /\ writer["loop"] = Idle
          /\ writer'["loop"].at = "tasks" /\ writer'["loop"].goal = s
      BY <1>1, CreateTyping
    <2>2. gone' = gone /\ torn \subseteq torn' /\ (s \notin torn' => \A p \in Dirs : file[s][p] = None)
      BY <1>1 DEF CreateGoal
    <2>3. NewRow # None /\ NewRow.folder = Home /\ Places = {Home} \cup Dirs
      BY NewTyped, GoalConstants DEF NewRow, Places
    <2>4. row[z] # None /\ z = s /\ z \notin torn' \cup gone' => row[z].folder = Home
      BY <1>f, <2>2, <2>3 DEF FileInOnePlace
    <2> QED
      BY <2>1, <2>2, <2>3, <2>4 DEF Idle, Stays
  <1>2. ASSUME NEW w \in Writers, NEW s \in Slugs, NEW c \in Changed(w), Change(w, s, c) PROVE Stays(z)
    <2>1. /\ row[s] # None /\ row'[s] \in Rows /\ Fielded(c) /\ writer[w] = Idle
          /\ \A x \in Writers : x # w => writer'[x] = writer[x]
          /\ \A y \in Slugs : y # s => row'[y] = row[y]
          /\ \A f \in Mirrored \cup {"folder"} : row'[s][f] = IF f \in DOMAIN c THEN c[f] ELSE row[s][f]
      BY <1>2, ChangeTyping
    <2>2. row'[s]["folder"] = row[s]["folder"] /\ row'[s] # None
      BY <2>1, GoalConstants DEF Fielded
    <2>3. gone' = gone /\ torn \subseteq torn'
      BY <1>2 DEF Change, Changes
    <2> QED
      BY <1>l, <2>1, <2>2, <2>3 DEF Idle, Stays
  <1>3. ASSUME NEW w \in Writers, ReadFile(w) \/ WriteFile(w) PROVE Stays(z)
    <2>1. /\ UNCHANGED <<row, gone>> /\ torn \subseteq torn' /\ writer[w].at # "tasks"
          /\ \A x \in Writers : x # w => writer'[x] = writer[x]
      BY <1>3, ReadTyping, WriteTyping
    <2> QED
      BY <1>l, <2>1 DEF Stays
  <1>4. ASSUME NEW s \in Slugs, LaunchLink(s) PROVE Stays(z)
    BY <1>4 DEF LaunchLink, Stays
  <1>5. CASE KillGoals
    <2>1. /\ UNCHANGED <<row, gone>> /\ torn \subseteq torn'
          /\ \A w \in Writers : writer[w] # Idle => writer[w].goal \in torn'
      BY <1>5, KillTyping
    <2> QED
      BY <1>l, <2>1 DEF Idle, Stays
  <1> QED
    BY <1>0, <1>1, <1>2, <1>3, <1>4, <1>5 DEF QuietStep

\* While the goals change, the tasks and the boards do not.
LEMMA QuietBoards ==
    ASSUME GoalInv, TaskInv, QuietStep, UNCHANGED <<task, board, behind>> PROVE TaskInv'
  <1>1. TaskTyping'
    BY DEF TaskInv, TaskTyping
  <1>2. Owned'
    BY QuietStays DEF TaskInv, Owned, TaskTyping, TaskRows, Stays
  <1>3. ASSUME NEW z \in Slugs PROVE BoardInOnePlace(z)' /\ Listing(z)'
    <2>1. Stays(z) /\ BoardInOnePlace(z) /\ Listing(z)
      BY <1>3, QuietStays DEF TaskInv
    <2>2. row[z] = None => TasksOf(task, z) = {}
      BY DEF TaskInv, Owned, TasksOf
    <2>3. TasksOf(task', z) = TasksOf(task, z) /\ Listed(task', z) = Listed(task, z)
      OBVIOUS
    <2>4. row'[z] = None => row[z] = None
      BY <2>1 DEF Stays
    <2>5. BoardInOnePlace(z)'
      BY <2>1, <2>4 DEF BoardInOnePlace, Stays
    <2>6. Listing(z)'
      BY <2>1, <2>2, <2>3 DEF Listing, Stays
    <2> QED
      BY <2>5, <2>6
  <1> QED
    BY <1>1, <1>2, <1>3 DEF TaskInv

\* A handler of the tasks of goal s, whose board is written or the server killed first.
LEMMA HandledBoards ==
    ASSUME GoalInv, TaskInv, NEW s \in Slugs, row[s] # None, Free, Handled(s), Rendered(s) \/ NotRendered(s)
    PROVE  TaskInv'
  <1> USE DEF TaskInv
  <1>l. "loop" \in Writers /\ writer["loop"] = Idle
    BY DEF Writers, Free
  <1>p. Place(s) \in Places
    BY PlaceTyped DEF GoalInv
  <1>1. /\ row' = row /\ gone' = gone /\ torn \subseteq torn'
    <2>1. CASE UNCHANGED goalVars
      BY <2>1 DEF goalVars
    <2>2. CASE KillGoals
      BY <2>2 DEF KillGoals
    <2> QED
      BY <2>1, <2>2 DEF Rendered, NotRendered
  <1>2. /\ behind' \subseteq Slugs /\ \A z \in Slugs : z # s => (z \in behind' <=> z \in behind)
        /\ \/ board' = board /\ (s \notin behind' => s \notin behind /\ Listed(task', s) = Listed(task, s))
           \/ board' = [board EXCEPT ![s][Place(s)] = Listed(task', s)]
    BY DEF Rendered, NotRendered, BoardPlace, TaskTyping
  <1>3. TaskTyping'
    <2>1. task' \in [TaskIds -> TaskRows \cup {None}]
      BY DEF Handled
    <2>2. Listed(task', s) \in SUBSET Lines
      BY <2>1, ListedTyped
    <2>3. board' \in [Slugs -> [Places -> (SUBSET Lines) \cup {None}]]
      BY <1>2, <1>p, <2>2 DEF TaskTyping
    <2> QED
      BY <1>2, <2>1, <2>3 DEF TaskTyping
  <1>4. Owned'
    BY <1>1 DEF Owned, Handled
  <1>5. ASSUME NEW z \in Slugs PROVE BoardInOnePlace(z)' /\ Listing(z)'
    <2>0. BoardInOnePlace(z) /\ Listing(z) /\ Housed(z)
      BY DEF GoalInv
    <2>1. CASE z # s
      <3>1. Listed(task', z) = Listed(task, z) /\ board'[z] = board[z]
        BY <1>2, <2>1, OthersListed DEF TaskTyping
      <3>2. BoardInOnePlace(z)'
        BY <1>1, <2>0, <3>1 DEF BoardInOnePlace
      <3>3. Listing(z)'
        BY <1>1, <1>2, <1>l, <2>0, <2>1, <3>1 DEF Listing, Idle
      <3> QED
        BY <3>2, <3>3
    <2>2. CASE z = s
      <3>1. SUFFICES ASSUME z \notin torn' \cup gone' PROVE BoardInOnePlace(z)' /\ Listing(z)'
        BY <1>1, <2>2 DEF BoardInOnePlace, Listing
      <3>2. z \notin torn \cup gone /\ row[z] # None /\ Place(z) = row[z].folder
        BY <1>1, <2>0, <2>2, <3>1, PlaceIsFolder DEF GoalInv
      <3>3. CASE board' = board /\ (s \notin behind' => s \notin behind /\ Listed(task', s) = Listed(task, s))
        BY <1>1, <1>l, <2>0, <2>2, <3>2, <3>3 DEF BoardInOnePlace, Listing, Idle
      <3>4. CASE board' = [board EXCEPT ![s][Place(s)] = Listed(task', s)]
        <4>1. /\ board'[z][row[z].folder] = Listed(task', z)
              /\ \A p \in Places \ {row[z].folder} : board'[z][p] = board[z][p]
          BY <1>p, <2>2, <3>2, <3>4 DEF TaskTyping
        <4> QED
          BY <1>1, <2>0, <3>2, <4>1 DEF BoardInOnePlace, Listing
      <3> QED
        BY <1>2, <3>3, <3>4
    <2> QED
      BY <2>1, <2>2
  <1> QED
    BY <1>3, <1>4, <1>5

\* The starter tasks of goal s: made, made before a kill, or there already.
LEMMA StarterBoards ==
    ASSUME GoalInv, TaskInv, NEW s \in Slugs, StarterTasks(s) PROVE TaskInv'
  <1> USE DEF TaskInv
  <1> DEFINE makes == TasksOf(task, s) = {}
  <1>l. "loop" \in Writers /\ writer["loop"].at = "tasks" /\ writer["loop"].goal = s
    BY DEF Writers, StarterTasks
  <1>r. row[s] # None
    BY <1>l DEF Agrees, Idle, GoalInv
  <1>p. Place(s) \in Places
    BY PlaceTyped DEF GoalInv
  <1>1. ASSUME NEW t \in Next1, task' = [task EXCEPT ![t] = New(s, None, "pending")] PROVE Handled(s)
    BY <1>1, AddHandled DEF TaskStatuses
  <1>2. ASSUME Starts(s)
        PROVE  /\ UNCHANGED <<torn, gone>> /\ writer'["loop"] = Idle
               /\ \A z \in Slugs : z # s => row'[z] = row[z]
               /\ row'[s] # None /\ row'[s].folder = row[s].folder
    <2> DEFINE c == writer["loop"].fields
    <2>1. /\ UNCHANGED <<torn, gone>> /\ writer'["loop"] = Idle /\ c \in Starting /\ row'[s] \in Rows
          /\ \A z \in Slugs : z # s => row'[z] = row[z]
          /\ \A f \in Mirrored \cup {"folder"} : row'[s][f] = IF f \in DOMAIN c THEN c[f] ELSE row[s][f]
      BY <1>2, <1>r, StartsTyping DEF GoalInv
    <2>2. row'[s]["folder"] = row[s]["folder"] /\ row'[s] # None
      BY <2>1, StartingIsFielded, GoalConstants DEF Fielded
    <2> QED
      BY <2>1, <2>2
  <1>3. CASE Starts(s) /\ ~makes /\ UNCHANGED <<task, board, behind>>
    <2>1. TaskTyping' /\ Owned'
      BY <1>2, <1>3 DEF TaskTyping, Owned, TaskRows
    <2>2. ASSUME NEW z \in Slugs PROVE BoardInOnePlace(z)' /\ Listing(z)'
      <3>1. Listed(task', z) = Listed(task, z) /\ BoardInOnePlace(z) /\ Listing(z)
        BY <1>3
      <3>2. (row'[z] = None <=> row[z] = None) /\ row'[z].folder = row[z].folder
        BY <1>2, <1>3, <1>r
      <3> QED
        BY <1>2, <1>3, <1>l, <3>1, <3>2 DEF BoardInOnePlace, Listing
    <2> QED
      BY <2>1, <2>2
  <1>4. CASE /\ Starts(s) /\ makes
             /\ \E t \in Next1 : task' = [task EXCEPT ![t] = New(s, None, "pending")]
             /\ board' = [board EXCEPT ![s][BoardPlace(s)] = Listed(task', s)] /\ behind' = behind \ {s}
    <2>1. Handled(s)
      BY <1>1, <1>4
    <2>2. Listed(task', s) \in SUBSET Lines
      BY <2>1, ListedTyped DEF Handled
    <2>3. TaskTyping' /\ Owned'
      <3>1. board' \in [Slugs -> [Places -> (SUBSET Lines) \cup {None}]]
        BY <1>4, <1>p, <2>2 DEF TaskTyping, BoardPlace
      <3>2. TaskTyping'
        BY <1>4, <2>1, <3>1 DEF TaskTyping, Handled
      <3>3. ASSUME NEW t \in TaskIds, task'[t] # None PROVE row'[task'[t].goal] # None
        <4>1. task'[t] \in TaskRows
          BY <2>1, <3>3 DEF Handled
        <4>2. task'[t].goal \in Slugs /\ row[task'[t].goal] # None
          BY <1>r, <2>1, <3>3, <4>1 DEF Handled, Owned, TaskRows
        <4> QED
          BY <1>2, <1>4, <4>2
      <3> QED
        BY <3>2, <3>3 DEF Owned
    <2>4. ASSUME NEW z \in Slugs PROVE BoardInOnePlace(z)' /\ Listing(z)'
      <3>0. BoardInOnePlace(z) /\ Listing(z) /\ Housed(z)
        BY DEF GoalInv
      <3>1. CASE z # s
        <4>1. Listed(task', z) = Listed(task, z)
          BY <2>1, <3>1, OthersListed
        <4>2. board'[z] = board[z] /\ row'[z] = row[z]
          BY <1>2, <1>4, <3>1 DEF TaskTyping
        <4> QED
          BY <1>2, <1>4, <1>l, <3>0, <3>1, <4>1, <4>2 DEF BoardInOnePlace, Listing
      <3>2. CASE z = s
        <4>1. SUFFICES ASSUME z \notin torn \cup gone PROVE BoardInOnePlace(z)' /\ Listing(z)'
          BY <1>2, <1>4, <3>2 DEF BoardInOnePlace, Listing
        <4>2. Place(s) = row[s].folder
          BY <1>r, <3>0, <3>2, <4>1, PlaceIsFolder DEF GoalInv
        <4>3. /\ board'[z][row[z].folder] = Listed(task', z)
              /\ \A p \in Places \ {row[z].folder} : board'[z][p] = board[z][p]
          BY <1>4, <1>p, <3>2, <4>2 DEF TaskTyping, BoardPlace
        <4> QED
          BY <1>2, <1>4, <1>r, <3>0, <3>2, <4>1, <4>3 DEF BoardInOnePlace, Listing
      <3> QED
        BY <3>1, <3>2
    <2> QED
      BY <2>3, <2>4
  <1>5. CASE /\ KillGoals /\ \E t \in Next1 : task' = [task EXCEPT ![t] = New(s, None, "pending")]
             /\ UNCHANGED <<board, behind>>
    <2>1. Handled(s)
      BY <1>1, <1>5
    <2>2. row' = row /\ gone' = gone /\ torn \subseteq torn' /\ s \in torn'
      <3>1. writer["loop"] # Idle
        BY <1>l DEF Idle
      <3> QED
        BY <1>5, <1>l, <3>1, KillTyping DEF GoalInv
    <2>3. TaskTyping' /\ Owned'
      BY <1>5, <1>r, <2>1, <2>2 DEF TaskTyping, Owned, Handled
    <2>4. ASSUME NEW z \in Slugs PROVE BoardInOnePlace(z)' /\ Listing(z)'
      <3>0. BoardInOnePlace(z) /\ Listing(z)
        OBVIOUS
      <3>1. CASE z # s
        <4>1. Listed(task', z) = Listed(task, z)
          BY <2>1, <3>1, OthersListed
        <4> QED
          BY <1>5, <1>l, <2>2, <3>0, <3>1, <4>1 DEF BoardInOnePlace, Listing
      <3>2. CASE z = s
        BY <1>5, <1>r, <2>2, <3>2 DEF BoardInOnePlace, Listing
      <3> QED
        BY <3>1, <3>2
    <2> QED
      BY <2>3, <2>4
  <1> QED
    BY <1>3, <1>4, <1>5 DEF StarterTasks, Starts

\* Goal s takes its board with it.
LEMMA RouteBoards ==
    ASSUME GoalInv, TaskInv, NEW s \in Slugs, NEW d \in Dirs, Route(s, d) PROVE TaskInv'
  <1> USE DEF TaskInv
  <1> DEFINE old == row[s].folder
             T == (SUBSET Lines) \cup {None}
  <1>1. /\ UNCHANGED <<writer, torn, gone>> /\ writer["loop"] = Idle /\ row[s] # None /\ row[s] \in Rows
        /\ row'[s] # None /\ row'[s].folder = d /\ d # Home /\ d \in Places
        /\ \A z \in Slugs : z # s => row'[z] = row[z]
    BY ConfigTyping, GoalConstants DEF Route, GoalInv, Places
  <1>2. /\ UNCHANGED <<task, behind>>
        /\ board' = [board EXCEPT ![s] = IF old # d THEN Moved(board[s], old, d) ELSE board[s]]
    BY Zenon DEF Route
  <1>3. old \in Places /\ board[s] \in [Places -> T] /\ None \in T
    BY <1>1 DEF Rows, TaskTyping
  <1> HIDE DEF T
  <1>4. /\ Moved(board[s], old, d) \in [Places -> T]
        /\ \A q \in Places \ {old, d} : Moved(board[s], old, d)[q] = board[s][q]
        /\ old # d /\ board[s][d] = None /\ (old = Home \/ old \in there) =>
              Moved(board[s], old, d)[d] = board[s][old] /\ Moved(board[s], old, d)[old] = None
    <2> HIDE DEF old
    <2> QED
      BY <1>1, <1>3, MovedFiles
  <1>5. /\ board' \in [Slugs -> [Places -> T]] /\ \A z \in Slugs : z # s => board'[z] = board[z]
        /\ board'[s] = IF old # d THEN Moved(board[s], old, d) ELSE board[s]
    BY <1>2, <1>3, <1>4 DEF TaskTyping, T
  <1>6. TaskTyping' /\ Owned'
    BY <1>1, <1>2, <1>5 DEF TaskTyping, Owned, TaskRows, T
  <1>7. ASSUME NEW z \in Slugs PROVE BoardInOnePlace(z)' /\ Listing(z)'
    <2>0. BoardInOnePlace(z) /\ Listing(z) /\ Housed(z) /\ Listed(task', z) = Listed(task, z)
      BY <1>2 DEF GoalInv
    <2>1. CASE z # s
      BY <1>1, <1>2, <1>5, <2>0, <2>1 DEF BoardInOnePlace, Listing
    <2>2. CASE z = s
      <3>1. SUFFICES ASSUME z \notin torn \cup gone PROVE BoardInOnePlace(z)' /\ Listing(z)'
        BY <1>1, <2>2 DEF BoardInOnePlace, Listing
      <3>2. /\ old \in there \cup {Home} /\ \A p \in Places \ {old} : board[s][p] = None
            /\ s \notin behind => board[s][old] = Listed(task, s)
        BY <1>1, <2>0, <2>2, <3>1, PlaceIsFolder DEF GoalInv, BoardInOnePlace, Listing, Idle
      <3>3. /\ \A p \in Places \ {d} : board'[s][p] = None
            /\ board'[s][d] = board[s][old]
        <4>1. CASE old = d
          BY <1>5, <3>2, <4>1
        <4>2. CASE old # d
          BY <1>1, <1>3, <1>4, <1>5, <3>2, <4>2
        <4> QED
          BY <4>1, <4>2
      <3> QED
        BY <1>1, <1>2, <2>0, <2>2, <3>2, <3>3 DEF BoardInOnePlace, Listing
    <2> QED
      BY <2>1, <2>2
  <1> QED
    BY <1>6, <1>7

\* What was in a project that is removed is gone with it.
LEMMA RemoveBoards ==
    ASSUME GoalInv, TaskInv, NEW d \in Dirs, Remove(d) PROVE TaskInv'
  <1> USE DEF TaskInv
  <1>1. /\ UNCHANGED <<row, writer, torn>> /\ gone \subseteq gone'
        /\ \A s \in Slugs : row[s] # None /\ row[s].folder = d => s \in gone'
    BY RemoveTyping DEF Remove, GoalInv
  <1>2. UNCHANGED <<task, behind>> /\ board' = [s \in Slugs |-> [board[s] EXCEPT ![d] = None]]
    BY DEF Remove
  <1>3. /\ board' \in [Slugs -> [Places -> (SUBSET Lines) \cup {None}]]
        /\ \A s \in Slugs, p \in Places : board'[s][p] = IF p = d THEN None ELSE board[s][p]
    BY <1>2 DEF TaskTyping
  <1>4. TaskTyping' /\ Owned'
    BY <1>1, <1>2, <1>3 DEF TaskTyping, Owned
  <1>5. ASSUME NEW z \in Slugs PROVE BoardInOnePlace(z)' /\ Listing(z)'
    <2>1. BoardInOnePlace(z) /\ Listing(z) /\ Listed(task', z) = Listed(task, z)
          /\ TasksOf(task', z) = TasksOf(task, z)
      BY <1>2
    <2>2. row[z] # None => row[z].folder \in Places
      BY DEF GoalInv, GoalTyping, Rows
    <2> QED
      BY <1>1, <1>2, <1>3, <2>1, <2>2 DEF BoardInOnePlace, Listing
  <1> QED
    BY <1>4, <1>5

LEMMA TaskInvInit == Init => TaskInv
  <1> SUFFICES ASSUME Init PROVE TaskInv
    OBVIOUS
  <1>1. /\ task = [t \in TaskIds |-> None] /\ board = [s \in Slugs |-> [p \in Places |-> None]] /\ behind = {}
        /\ row = [s \in Slugs |-> None]
    BY DEF Init, GoalInit
  <1> QED
    BY <1>1 DEF TaskInv, TaskTyping, Owned, BoardInOnePlace, Listing

LEMMA TaskInvStep ==
    ASSUME GoalInv, TaskInv, [Next]_vars PROVE TaskInv'
  <1>0. CASE UNCHANGED vars
    <2>1. QuietStep /\ UNCHANGED <<task, board, behind>>
      BY <1>0 DEF vars, taskVars, QuietStep
    <2> QED
      BY <2>1, QuietBoards
  <1>1. ASSUME NEW s \in scenario.goals, GoalNext(s), UNCHANGED taskVars PROVE TaskInv'
    <2>1. QuietStep /\ UNCHANGED <<task, board, behind>>
      BY <1>1, GoalNextQuiet, InScenario DEF GoalInv, taskVars
    <2> QED
      BY <2>1, QuietBoards
  <1>2. ASSUME NEW w \in Writers, ReadFile(w) \/ WriteFile(w) \/ KillGoals, UNCHANGED taskVars PROVE TaskInv'
    <2>1. QuietStep /\ UNCHANGED <<task, board, behind>>
      BY <1>2 DEF QuietStep, taskVars
    <2> QED
      BY <2>1, QuietBoards
  <1>3. ASSUME NEW s \in scenario.goals, StarterTasks(s) PROVE TaskInv'
    BY <1>3, StarterBoards, InScenario DEF GoalInv
  <1>4. ASSUME NEW s \in scenario.goals, NEW d \in scenario.dirs, Route(s, d) PROVE TaskInv'
    BY <1>4, RouteBoards, InScenario DEF GoalInv
  <1>5. ASSUME NEW d \in scenario.dirs, Remove(d) PROVE TaskInv'
    BY <1>5, RemoveBoards, InScenario DEF GoalInv
  <1>6. ASSUME NEW s \in scenario.goals, NEW p \in TaskIds \cup {None}, NEW status \in {"pending", "suggested"},
               Create(s, p, status)
        PROVE  TaskInv'
    <2>1. s \in Slugs /\ status \in TaskStatuses
      BY InScenario DEF GoalInv, TaskStatuses
    <2>2. Handled(s)
      BY <1>6, <2>1, AddHandled DEF Create, TaskInv
    <2> QED
      BY <1>6, <2>1, <2>2, HandledBoards DEF Create
  <1>7. ASSUME NEW t \in TaskIds, TaskNext(t) PROVE TaskInv'
    <2>1. CASE /\ task[t] # None /\ Free /\ Handled(task[t].goal)
               /\ Rendered(task[t].goal) \/ NotRendered(task[t].goal)
      <3>1. task[t].goal \in Slugs /\ row[task[t].goal] # None
        BY <2>1 DEF TaskInv, TaskTyping, TaskRows, Owned
      <3> QED
        BY <2>1, <3>1, HandledBoards
    <2>2. CASE UNCHANGED goalVars /\ UNCHANGED <<task, board, behind>>
      BY <2>2, QuietBoards DEF QuietStep
    <2>3. CASE KillGoals /\ UNCHANGED <<task, board, behind>>
      BY <2>3, QuietBoards DEF QuietStep
    <2> QED
      BY <1>7, <2>1, <2>2, <2>3, TaskSteps DEF TaskInv
  <1>8. ASSUME NEW r \in Runs, RunStep(r) \/ Continue(r) PROVE TaskInv'
    <2>1. QuietStep /\ UNCHANGED <<task, board, behind>>
      BY <1>8 DEF RunStep, Continue, QuietStep
    <2> QED
      BY <2>1, QuietBoards
  <1>9. "loop" \in Writers
    BY DEF Writers
  <1> QED
    BY <1>0, <1>1, <1>2, <1>3, <1>4, <1>5, <1>6, <1>7, <1>8, <1>9 DEF Next

\* tasks.md, for any number of tasks nested under tasks of any goal, of suggestions and of
\* routings: the board that _rerender_tasks_md last wrote is where the goal is and lists
\* the goal's tasks, although handlers of other goals touch them.
THEOREM BoardIsCurrent == Spec => []BoardCurrent
  <1>1. Init => GoalInv /\ TaskInv
    BY GoalInvInit, TaskInvInit DEF Init
  <1>2. GoalInv /\ TaskInv /\ [Next]_vars => (GoalInv /\ TaskInv)'
    BY GoalInvStep, TaskInvStep
  <1>3. GoalInv /\ TaskInv => BoardCurrent
    <2> SUFFICES ASSUME TaskInv, NEW s \in Slugs, row[s] # None, s \notin behind \cup torn \cup gone, AtRest(s)
                 PROVE  board[s][row[s].folder] = Listed(task, s)
      BY DEF BoardCurrent
    <2>1. writer["loop"].goal # s
      BY DEF AtRest, Writers
    <2> QED
      BY <2>1 DEF TaskInv, Listing
  <1> QED
    BY <1>1, <1>2, <1>3, PTL DEF Spec

-------------------------------------------------------------------------------
(* The runs of a task.                                                     *)

RunInv == RunTyping /\ SingleRun

LEMMA NewRunKeeps ==
    ASSUME RunInv, NEW t \in TaskIds, NEW status \in {"pending", "scheduled"}, NEW asked \in BOOLEAN,
           NewRun(t, status, asked), asked => \A r \in RunsOf(t) : ~Active(r)
    PROVE  RunInv'
  <1> DEFINE new == [task |-> t, status |-> status, asked |-> asked, again |-> FALSE]
  <1>1. PICK r \in Runs : run[r] = None /\ run' = [run EXCEPT ![r] = new]
    BY Zenon DEF NewRun
  <1>2. new \in RunRows /\ new.task = t /\ (new.asked <=> asked)
    BY DEF RunRows
  <1> HIDE DEF new
  <1>3. RunTyping'
    BY <1>1, <1>2 DEF RunInv, RunTyping
  <1>4. \A q \in Runs : q # r => run'[q] = run[q] /\ (Counts(q)' <=> Counts(q))
    BY <1>1 DEF RunInv, RunTyping, Counts
  <1>5. run'[r] = new /\ (Counts(r)' => asked)
    BY <1>1, <1>2 DEF RunInv, RunTyping, Counts
  <1>6. \A q \in Runs : Counts(q) /\ run[q].task = t => q \in RunsOf(t) /\ Active(q)
    BY DEF Counts, RunsOf, Active, ActiveStatuses
  <1> QED
    BY <1>2, <1>3, <1>4, <1>5, <1>6 DEF RunInv, SingleRun

Stepped(x, to, again) == [x EXCEPT !.status = to, !.again = again]

\* A run that moves on counts only if it did.
LEMMA RunMovesKeep ==
    ASSUME RunInv, NEW r \in Runs, RunStep(r) \/ Continue(r)
    PROVE  RunInv'
  <1>1. run[r] # None /\ run[r] \in RunRows
    BY DEF RunStep, Continue, RunInv, RunTyping
  <1> DEFINE late == run[r].again \/ run[r].status = "rate_limited"
  <1>2. PICK to \in {"scheduled", "pending", "running", "rate_limited", "ended"}, again \in BOOLEAN :
           /\ run' = [run EXCEPT ![r] = Stepped(run[r], to, again)]
           /\ \/ again \/ to \in {"rate_limited", "ended"}
              \/ ~run[r].again /\ run[r].status \in {"scheduled", "pending"}
    <2>1. CASE RunStep(r)
      <3>1. PICK to \in {m[2] : m \in {n \in RunMoves : n[1] = run[r].status}} :
               run' = [run EXCEPT ![r] = Stepped(run[r], to, late)]
        BY <2>1, Zenon DEF RunStep, Stepped
      <3>2. /\ to \in {"scheduled", "pending", "running", "rate_limited", "ended"}
            /\ run[r].status \in {"scheduled", "pending", "running", "rate_limited"}
            /\ run[r].status = "running" => to \in {"rate_limited", "ended"}
        BY DEF RunMoves
      <3>3. late \in BOOLEAN
        BY <1>1 DEF RunRows
      <3>4. late \/ (~run[r].again /\ run[r].status # "rate_limited")
        OBVIOUS
      <3> HIDE DEF late
      <3> QED
        BY <3>1, <3>2, <3>3, <3>4
    <2>2. CASE Continue(r)
      <3>1. run' = [run EXCEPT ![r] = Stepped(run[r], "running", TRUE)]
        BY <2>2, Zenon DEF Continue, Stepped
      <3> QED
        BY <3>1
    <2> QED
      BY <2>1, <2>2
  <1>3. /\ Stepped(run[r], to, again) \in RunRows /\ Stepped(run[r], to, again).task = run[r].task
        /\ Stepped(run[r], to, again).asked = run[r].asked /\ Stepped(run[r], to, again).status = to
        /\ Stepped(run[r], to, again).again = again
    BY <1>1 DEF Stepped, RunRows
  <1>4. /\ \A q \in Runs : q # r => run'[q] = run[q]
        /\ run'[r] = Stepped(run[r], to, again)
        /\ RunTyping'
    BY <1>2, <1>3 DEF RunInv, RunTyping
  <1>5. \A q \in Runs : Counts(q)' => Counts(q) /\ run'[q].task = run[q].task
    <2>1. ASSUME Counts(r)' PROVE Counts(r)
      BY <1>1, <1>2, <1>3, <1>4, <2>1 DEF Counts
    <2> QED
      BY <1>3, <1>4, <2>1 DEF Counts
  <1> QED
    BY <1>4, <1>5 DEF RunInv, SingleRun

LEMMA RunInvStep ==
    ASSUME RunInv, [Next]_vars PROVE RunInv'
  <1>0. ASSUME run' = run PROVE RunInv'
    BY <1>0 DEF RunInv, RunTyping, SingleRun, Counts
  <1>1. ASSUME NEW t \in TaskIds, TaskNext(t) PROVE RunInv'
    <2>1. ASSUME NEW status \in {"pending", "scheduled"}, RunAgent(t, status) PROVE RunInv'
      BY <2>1, NewRunKeeps DEF RunAgent
    <2>2. ASSUME Trigger(t) PROVE RunInv'
      BY <2>2, NewRunKeeps DEF Trigger
    <2> QED
      BY <1>0, <1>1, <2>1, <2>2
         DEF TaskNext, UpdateTaskStatus, UpdateTask, Approve, ApproveGroup, ApproveParentOnly, Decline, DeclineGroup
  <1>2. ASSUME NEW r \in Runs, RunStep(r) \/ Continue(r) PROVE RunInv'
    BY <1>2, RunMovesKeep
  <1>3. ASSUME NEW s, StarterTasks(s) \/ \E d : Route(s, d) PROVE run' = run
    BY <1>3 DEF StarterTasks, Route
  <1>4. ASSUME NEW d, Remove(d) PROVE run' = run
    BY <1>4 DEF Remove
  <1>5. ASSUME NEW s, NEW p, NEW status, Create(s, p, status) PROVE run' = run
    BY <1>5 DEF Create
  <1> QED
    BY <1>0, <1>1, <1>2, <1>3, <1>4, <1>5 DEF Next, vars, taskVars

\* run_agent_for_task starts no second run of a task beside one that it started and that
\* is active, for any number of runs and whatever moves them: the trigger endpoint, the
\* dispatcher, rate limits and continuations.
THEOREM OneRunAtATime == Spec => []OneRun
  <1>1. Init => RunInv
    BY DEF Init, RunInv, RunTyping, SingleRun, Counts
  <1>2. RunInv => OneRun
    <2> SUFFICES ASSUME RunInv, NEW t \in TaskIds
                 PROVE  Cardinality({r \in RunsOf(t) : run[r].status \in {"scheduled", "pending", "running"}
                                                       /\ run[r].asked /\ ~run[r].again}) <= 1
      BY DEF OneRun
    <2> DEFINE active == {r \in RunsOf(t) : run[r].status \in {"scheduled", "pending", "running"}
                                            /\ run[r].asked /\ ~run[r].again}
    <2>1. \A q, r \in active : q = r
      BY DEF RunInv, SingleRun, Counts, RunsOf
    <2> HIDE DEF active
    <2>2. CASE active = {}
      BY <2>2, FS_EmptySet DEF active
    <2>3. CASE active # {}
      <3>1. PICK r \in active : TRUE
        BY <2>3
      <3>2. active = {r}
        BY <2>1, <3>1
      <3>3. Cardinality({r}) = 1
        BY FS_Singleton
      <3> QED
        BY <3>2, <3>3 DEF active
    <2> QED
      BY <2>2, <2>3
  <1> QED
    BY <1>1, <1>2, RunInvStep, PTL DEF Spec

===============================================================================
