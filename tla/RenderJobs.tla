------------------------------- MODULE RenderJobs -------------------------------
(* The background jobs that render the requirements of one goal to HTML:       *)
(* request_render and its registry, the threads, the slots and the reaper of   *)
(* job_runtime, the publication of a page, and the browsers that wait for it.  *)
(* A content of the requirements file stands for its hash.  What the agents of *)
(* a job do is left open: the job ends with a page, with nothing, or raises.   *)
EXTENDS Naturals, Sequences, FiniteSets

CONSTANTS
    Contents,      \* the contents the requirements may have, stubs apart
    Stub,          \* the content of a file that is still a stub
    None,          \* no file, no page, no job
    Viewers,       \* browsers
    MaxInflight,   \* RENDER_MAX_INFLIGHT
    MaxJobs,       \* bound: rows of render_jobs
    MaxEdits,      \* bound: changes of the file
    MaxFaults,     \* bound: exceptions in the job threads
    MaxRestarts    \* bound: restarts of the server

ASSUME RenderConstants ==
    /\ MaxInflight \in Nat \ {0}
    /\ {MaxJobs, MaxEdits, MaxFaults, MaxRestarts} \subseteq Nat
    /\ Stub \notin Contents /\ None \notin Contents \cup {Stub}

VARIABLES
    source,     \* refined_requirements.collab.md
    page,       \* refined_requirements.html: its source-hash stamp
    rows,       \* the table render_jobs
    thread,     \* the thread of each job: where it is and what it is about to write
    registry,   \* JobRegistry.registry: the job of each hash
    held,       \* the jobs with slot_held
    permits,    \* the value of the semaphore
    viewer,     \* each browser: which step its request is at
    edits, faults, restarts

jobs == <<rows, thread, registry>>
slots == <<held, permits>>
counts == <<edits, faults, restarts>>
vars == <<source, page, jobs, slots, viewer, counts>>

Jobs == 1 .. MaxJobs
File == Contents \cup {Stub, None}

NoThread == [at |-> "none", carry |-> None]
Rest(where) == [at |-> where, hash |-> None, orphans |-> {}]

Init ==
    /\ source \in File
    /\ page = None
    /\ rows = <<>>
    /\ thread = [i \in Jobs |-> NoThread]
    /\ registry = [c \in Contents |-> 0]
    /\ held = {}
    /\ permits = MaxInflight
    /\ viewer = [v \in Viewers |-> Rest("idle")]
    /\ edits = 0 /\ faults = 0 /\ restarts = 0

\* The thread of a job is alive (Thread.is_alive).
Alive(i) == thread[i].at \notin {"none", "dead"}

\* Seeded fault: any page will do.
AnyPage == page # None

\* The page on disk was made from the file as it is.
Fresh == page # None /\ page = source

\* rerender_requirements_html: nothing to do without a file or for a fresh page.
NeedsPage == source # None /\ ~Fresh

-------------------------------------------------------------------------------
(* GET /render.                                                            *)

\* Rows that reap_stale_jobs selects: running, with a heartbeat past the ceiling.
StaleRows == {i \in DOMAIN rows : rows[i].status = "running" /\ rows[i].old}

\* requirements_render classifies the file and the page, and for a page to be
\* made enters request_render, whose reaper selects its rows.
Resolve(v) ==
    /\ viewer[v].at \in {"idle", "polling"}
    /\ viewer' = [viewer EXCEPT ![v] =
          IF source = None \/ (source # Stub /\ Fresh) THEN Rest("idle")
          ELSE IF source = Stub THEN Rest("stub")
          ELSE [Rest("reaping") EXCEPT !.orphans = StaleRows]]
    /\ UNCHANGED <<source, page, jobs, slots, counts>>

\* The registry has a live thread for that hash.
Live(c) == registry[c] # 0 /\ Alive(registry[c])

\* Seeded fault: a selected row is marked whether or not its thread lives.
ReapedAll(v) == viewer[v].orphans

\* The selected rows for whose hash no thread lives.
Reaped(v) == {i \in viewer[v].orphans : ~Live(rows[i].hash)}

\* release_slot: once, by the slot_held flag.
Free(js) ==
    /\ held' = held \ js
    /\ permits' = permits + Cardinality(held \cap js)

\* reap_stale_jobs marks what it finds orphaned, and request_render reads the
\* file: a job is started or joined for what it reads.
Reap(v) ==
    /\ viewer[v].at = "reaping"
    /\ rows' = [i \in DOMAIN rows |->
          IF i \in Reaped(v) THEN [rows[i] EXCEPT !.status = "failed"] ELSE rows[i]]
    /\ LET hashes == {rows[i].hash : i \in Reaped(v)} IN
       /\ registry' = [c \in Contents |-> IF c \in hashes THEN 0 ELSE registry[c]]
       /\ Free({registry[c] : c \in hashes})
    /\ viewer' = [viewer EXCEPT ![v] =
          IF source = None THEN Rest("polling")
          ELSE IF source = Stub THEN Rest("late stub")
          ELSE [Rest("starting") EXCEPT !.hash = source]]
    /\ UNCHANGED <<source, page, thread, counts>>

\* Seeded fault: no look into the registry.
JoinsNever(c) == FALSE

\* The job of that hash runs: request_render joins it.
Joins(c) == Live(c)

\* Under the registry lock: join the job of this hash or start one; the browser
\* gets a page that polls.
Start(v) ==
    /\ viewer[v].at = "starting"
    /\ LET c == viewer[v].hash IN
       \/ /\ Joins(c)
          /\ UNCHANGED jobs
       \/ /\ ~Joins(c)
          /\ Len(rows) < MaxJobs
          /\ rows' = Append(rows, [hash |-> c, status |-> "running", old |-> FALSE])
          /\ thread' = [thread EXCEPT ![Len(rows')] = [NoThread EXCEPT !.at = "queued"]]
          /\ registry' = [registry EXCEPT ![c] = Len(rows')]
    /\ viewer' = [viewer EXCEPT ![v] = Rest("polling")]
    /\ UNCHANGED <<source, page, slots, counts>>

\* What a request for a stub does when the page is there: a late one, which the
\* route took for a render to generate, gets a page that polls.
Served(v) == Rest(IF viewer[v].at = "stub" THEN "idle" ELSE "polling")

\* rerender_requirements_html for a stub: it reads the file and the page first
\* and writes afterwards.
StubReads(v) ==
    /\ viewer[v].at \in {"stub", "late stub"} /\ viewer[v].hash = None
    /\ viewer' = [viewer EXCEPT ![v] = IF NeedsPage THEN [@ EXCEPT !.hash = source] ELSE Served(v)]
    /\ UNCHANGED <<source, page, jobs, slots, counts>>

StubWrites(v) ==
    /\ viewer[v].at \in {"stub", "late stub"} /\ viewer[v].hash # None
    /\ page' = viewer[v].hash
    /\ viewer' = [viewer EXCEPT ![v] = Served(v)]
    /\ UNCHANGED <<source, jobs, slots, counts>>

RowsOf(c) == {i \in DOMAIN rows : rows[i].hash = c}

\* Seeded fault: any failed row of this hash counts, not only the last one.
GaveUpOnce(c) == \E i \in RowsOf(c) : rows[i].status = "failed"

\* latest_job_row: the last row of this hash is failed.
GaveUp(c) ==
    \E i \in RowsOf(c) : rows[i].status = "failed" /\ \A j \in RowsOf(c) : j <= i

\* requirements_render_status.
PollAnswer ==
    IF source = None THEN "failed"
    ELSE IF source = Stub \/ Fresh THEN "ready"
    ELSE IF GaveUp(source) THEN "failed" ELSE "generating"

\* The poll script stops on these answers; on generating it asks again.
Poll(v) ==
    /\ viewer[v].at = "polling"
    /\ PollAnswer \in {"ready", "failed"}
    /\ viewer' = [viewer EXCEPT ![v] = Rest("idle")]
    /\ UNCHANGED <<source, page, jobs, slots, counts>>

-------------------------------------------------------------------------------
(* The thread of a job.                                                    *)

At(i, where) == thread[i].at = where
GoTo(i, where) == thread' = [thread EXCEPT ![i] = [NoThread EXCEPT !.at = where]]
Finalized(i, status) == rows' = [rows EXCEPT ![i].status = status]

Acquire(i) ==
    /\ At(i, "queued")
    /\ permits > 0
    /\ permits' = permits - 1
    /\ held' = held \cup {i}
    /\ GoTo(i, "pipeline")
    /\ UNCHANGED <<source, page, rows, registry, viewer, counts>>

\* How a job ends whose content is not that of the file.
Outcome == IF source = None THEN "failed" ELSE "superseded"

\* Compare with the file as it is now: the job goes on only for its own content.
Compare(i, next) ==
    \/ /\ source = rows[i].hash
       /\ rows' = [rows EXCEPT ![i].old = FALSE]
       /\ GoTo(i, next)
    \/ /\ source # rows[i].hash
       /\ rows' = [rows EXCEPT ![i].old = FALSE, ![i].status = Outcome]
       /\ GoTo(i, "release")

\* The stages and the quality loop end with an attempt to publish or with none;
\* each stage stamps the heartbeat.
PipelineEnds(i) ==
    /\ At(i, "pipeline")
    /\ \E next \in {"replace", "fallback"} : Compare(i, next)
    /\ UNCHANGED <<source, page, registry, slots, viewer, counts>>

\* publish_maker_html, after the comparison.
Replace(i) ==
    /\ At(i, "replace")
    /\ page' = rows[i].hash
    /\ GoTo(i, "record")
    /\ UNCHANGED <<source, rows, registry, slots, viewer, counts>>

Record(i) ==
    /\ At(i, "record")
    /\ Finalized(i, "published")
    /\ GoTo(i, "reanchor")
    /\ UNCHANGED <<source, page, registry, slots, viewer, counts>>

\* The comments of changed blocks are anchored again.
Reanchor(i) ==
    /\ At(i, "reanchor")
    /\ GoTo(i, "release")
    /\ UNCHANGED <<source, page, rows, registry, slots, viewer, counts>>

\* An exception in the pipeline, in the fallback or after the publication gets
\* to the handler of the thread; one in the handler fails the job.
Raise(i) ==
    /\ faults < MaxFaults
    /\ faults' = faults + 1
    /\ \/ /\ thread[i].at \in {"pipeline", "replace", "fallback", "reanchor"}
          /\ GoTo(i, "rescue")
          /\ UNCHANGED rows
       \/ /\ At(i, "rescue")
          /\ Finalized(i, "failed")
          /\ GoTo(i, "release")
    /\ UNCHANGED <<source, page, registry, slots, viewer, edits, restarts>>

\* It reads the file and the page first and writes afterwards.
Rerender(i) ==
    /\ thread[i].at \in {"fallback", "rescue"}
    /\ thread' = [thread EXCEPT ![i] =
          IF NeedsPage THEN [at |-> "write", carry |-> source] ELSE [NoThread EXCEPT !.at = "settle"]]
    /\ UNCHANGED <<source, page, rows, registry, slots, viewer, counts>>

Write(i) ==
    /\ At(i, "write")
    /\ page' = thread[i].carry
    /\ GoTo(i, "settle")
    /\ UNCHANGED <<source, rows, registry, slots, viewer, counts>>

Settle(i) ==
    /\ At(i, "settle")
    /\ Finalized(i, "fallback")
    /\ GoTo(i, "release")
    /\ UNCHANGED <<source, page, registry, slots, viewer, counts>>

\* Seeded fault: the slot is not given back.
LeaveOnly(i) ==
    /\ At(i, "release")
    /\ GoTo(i, "leave")
    /\ UNCHANGED <<source, page, rows, registry, slots, viewer, counts>>

\* The finally of the thread: the slot first, then the registry.
Release(i) ==
    /\ At(i, "release")
    /\ Free({i})
    /\ GoTo(i, "leave")
    /\ UNCHANGED <<source, page, rows, registry, viewer, counts>>

Leave(i) ==
    /\ At(i, "leave")
    /\ registry' = [c \in Contents |-> IF registry[c] = i THEN 0 ELSE registry[c]]
    /\ GoTo(i, "dead")
    /\ UNCHANGED <<source, page, rows, slots, viewer, counts>>

-------------------------------------------------------------------------------
(* The surroundings.                                                       *)

\* Refinement, the write-back, an editor or the removal of the goal.
Edit ==
    /\ edits < MaxEdits
    /\ edits' = edits + 1
    /\ source' \in File \ {source}
    /\ UNCHANGED <<page, jobs, slots, viewer, faults, restarts>>

\* A heartbeat gets older than the ceiling: of a job that waits for its slot or
\* of one without a thread.  The stages of a running job are shorter.
HeartbeatAges(i) ==
    /\ i \in DOMAIN rows
    /\ rows[i].status = "running" /\ ~rows[i].old
    /\ thread[i].at \in {"queued", "dead"}
    /\ rows' = [rows EXCEPT ![i].old = TRUE]
    /\ UNCHANGED <<source, page, thread, registry, slots, viewer, counts>>

\* The server restarts: threads are daemons and the registry is in memory; a
\* browser that polls keeps polling.
Restart ==
    /\ restarts < MaxRestarts
    /\ restarts' = restarts + 1
    /\ thread' = [i \in Jobs |-> IF Alive(i) THEN [NoThread EXCEPT !.at = "dead"] ELSE thread[i]]
    /\ registry' = [c \in Contents |-> 0]
    /\ held' = {}
    /\ permits' = MaxInflight
    /\ viewer' = [v \in Viewers |-> IF viewer[v].at = "polling" THEN viewer[v] ELSE Rest("idle")]
    /\ UNCHANGED <<source, page, rows, edits, faults>>

View(v) == Reap(v) \/ Start(v) \/ StubReads(v) \/ StubWrites(v) \/ Poll(v)

Work(i) ==
    \/ Acquire(i) \/ PipelineEnds(i) \/ Replace(i) \/ Record(i) \/ Reanchor(i)
    \/ Rerender(i) \/ Write(i) \/ Settle(i) \/ Release(i) \/ Leave(i)

Next ==
    \/ \E v \in Viewers : Resolve(v) \/ View(v)
    \/ \E i \in Jobs : Work(i) \/ Raise(i) \/ HeartbeatAges(i)
    \/ Edit
    \/ Restart

Spec == Init /\ [][Next]_vars

\* Threads and requests go on, and the poll script polls; nothing is assumed of
\* people, so a page need not be viewed again.
FairSpec ==
    /\ Spec
    /\ \A v \in Viewers : WF_vars(View(v))
    /\ \A i \in Jobs : WF_vars(Work(i))

-------------------------------------------------------------------------------
(* Properties.                                                             *)

Statuses == {"running", "published", "superseded", "fallback", "failed"}
Places   == {"none", "queued", "pipeline", "replace", "record", "reanchor", "fallback",
             "rescue", "write", "settle", "release", "leave", "dead"}

TypeOK ==
    /\ source \in File
    /\ page \in File
    /\ rows \in Seq([hash : Contents, status : Statuses, old : BOOLEAN])
    /\ Len(rows) <= MaxJobs
    /\ thread \in [Jobs -> [at : Places, carry : File]]
    /\ registry \in [Contents -> {0} \cup DOMAIN rows]
    /\ held \subseteq DOMAIN rows
    /\ permits \in 0 .. MaxInflight
    /\ viewer \in [Viewers -> [at : {"idle", "stub", "late stub", "reaping", "starting", "polling"},
                              hash : File, orphans : SUBSET DOMAIN rows]]
    /\ edits \in Nat /\ faults \in Nat /\ restarts \in Nat

\* The job has a slot and has not given it back.
Inflight == {i \in Jobs : Alive(i) /\ thread[i].at \notin {"queued", "leave"}}

\* No more jobs than RENDER_MAX_INFLIGHT work at one time, whatever the reaper,
\* which frees slots too, made of rows with old heartbeats.
InflightBounded == Cardinality(Inflight) <= MaxInflight

\* One content of the file is rendered by one thread at a time, however many
\* browsers ask, jobs end and rows are reaped meanwhile.
SingleFlight ==
    \A i, j \in DOMAIN rows : Alive(i) /\ Alive(j) /\ rows[i].hash = rows[j].hash => i = j

\* When a browser is told that the render failed and stops asking, no thread is
\* at work on a page for it.
FailedMeansNoJob ==
    PollAnswer = "failed" =>
        \A i \in DOMAIN rows :
            rows[i].hash = source => ~Alive(i) \/ thread[i].at \in {"release", "leave"}

\* Every job that was started ends, also those that wait for a slot.
JobsEnd == \A i \in Jobs : Alive(i) ~> ~Alive(i)

\* Browsers keep coming back.
Returning == \A v \in Viewers : WF_vars(Resolve(v))

\* If the page is viewed again and again, a page for the content of the file gets
\* there, through superseded jobs, exceptions and restarts (as long as the bound
\* on jobs allows one more).
FreshWhenViewed ==
    Returning =>
        \A c \in Contents :
            source = c ~> source # c \/ page = c \/ Len(rows) = MaxJobs

\* A browser that waits is answered in the end: it does not poll for ever
\* (_poll_script).
PollEnds == \A v \in Viewers : viewer[v].at = "polling" ~> viewer[v].at # "polling"

===============================================================================
