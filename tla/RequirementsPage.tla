--------------------------- MODULE RequirementsPage ---------------------------
(* How the page of a goal's requirements follows its source over many renders  *)
(* (services/render_job_service.py with requirements_render/block_splice.py,   *)
(* block_diff.py and maker_gate.py): a job renders the page anew, or keeps the *)
(* units of the page that is there and splices in the changed ones; on the way *)
(* it asks upstream for what is missing and gates the comments people left on  *)
(* the page (services/comment_service.py).  The loop over attempts is that of  *)
(* QualityLoop, the threads are those of RenderJobs.                           *)
EXTENDS Naturals, FiniteSets

CONSTANTS
    Units,        \* canonical refs of the source: user stories, requirements, criteria
    Texts,        \* bound: what a unit, or the text without a ref, may say
    Words,        \* how the maker may put it
    Plain,        \* how the deterministic page puts it
    Gaps,         \* fingerprints of what the source may leave open
    Comments,     \* comments people may leave
    Jobs,         \* render jobs, 1 .. n
    Slots,        \* RENDER_MAX_INFLIGHT
    MaxChanged,   \* RENDER_UPDATE_MAX_CHANGED_FRACTION, in units
    Scenarios,    \* bounds that go together: jobs, their QUALITY_MAX_ATTEMPTS, the
                  \* words, gaps and comments there may be, changes of the source,
                  \* whether job directories are removed
    None

ASSUME PageConstants ==
    /\ IsFiniteSet(Units) /\ Units # {}
    /\ Jobs \subseteq Nat
    /\ {Slots, MaxChanged} \subseteq Nat
    /\ Scenarios \subseteq [jobs : SUBSET Jobs, attempts : Nat, words : SUBSET Words, gaps : SUBSET Gaps,
                           comments : SUBSET Comments, edits : Nat, wipes : BOOLEAN]
    /\ Plain \notin Words
    /\ None \notin Texts \cup Words \cup Units \cup {Plain}
    /\ None \notin [of : Texts, words : Words \cup {Plain}]

VARIABLES
    scenario,
    source,    \* refined_requirements.collab.md: a text for each unit in it, and the rest
    page,      \* refined_requirements.html with its envelope, or None
    dir,       \* per digest: source.md, what-doc.md and gaps-state.json of its job
    requests,  \* change requests of the gapfill: their gap, job and status
    comment,   \* per comment: its row, or None
    job,       \* per job: its JobState
    edits

vars == <<scenario, source, page, dir, requests, comment, job, edits>>

Present(src) == {u \in Units : src.text[u] # None}

NewJob == [at       |-> "new",     \* the stage the thread is at
           of       |-> None,      \* the source it parsed
           beside   |-> {},        \* jobs at work when it started
           mode     |-> "create",
           prior    |-> None,      \* the page it found
           modified |-> {},        \* update_modified_refs
           declared |-> {},        \* open_gaps
           grounded |-> {},        \* gaps answered with evidence that locates
           live     |-> {},        \* gaps it found a live request for
           settled  |-> {},        \* those of an applied request
           open     |-> {},        \* gaps_state, without the applied
           markers  |-> {},        \* open_gap_markers
           attempts |-> 0,
           tried    |-> {},        \* attempts_history
           html     |-> None,      \* the last extractable attempt
           expected |-> {},        \* last_survival: expected misses
           gated    |-> {},        \* the open comments it was gated with
           served   |-> None,
           flagged  |-> FALSE]

Init ==
    /\ scenario \in Scenarios
    /\ source \in [text : [Units -> Texts], loose : Texts]
    /\ page = None
    /\ dir = [d \in {} |-> None]
    /\ requests = {}
    /\ comment = [c \in Comments |-> None]
    /\ job = [j \in Jobs |-> NewJob]
    /\ edits = 0

At(j, stage) == job[j].at = stage
AtWork(j) == job[j].at \notin {"new", "done"}
Running == {j \in Jobs : AtWork(j)}

Ends(j) == job' = [job EXCEPT ![j] = [NewJob EXCEPT !.at = "done", !.beside = job[j].beside]]

-------------------------------------------------------------------------------
(* The mode.                                                               *)

\* request_render: a page of another source, or none, and no thread on this one.
Start(j) ==
    /\ At(j, "new") /\ \A i \in scenario.jobs : i < j => ~At(i, "new")
    /\ page # None => page.of # source
    /\ \A i \in Running : job[i].of # source
    /\ Cardinality(Running) < Slots
    /\ job' = [job EXCEPT ![j] = [@ EXCEPT !.at = "prepare", !.of = source, !.beside = Running]]
    /\ UNCHANGED <<scenario, source, page, dir, requests, comment, edits>>

\* diff_blocks: the units whose text differs, those only on one side included.
Changed(old, new) == {u \in Units : old.text[u] # new.text[u]}

\* Seeded fault: a change of the text without a ref is spliced like any other.
SplicesAnything(old, new) == Cardinality(Changed(old, new)) \in 1 .. MaxChanged

\* What the splice can express: few units changed, some did, and nothing that has
\* no ref.
Splices(old, new) ==
    /\ old.loose = new.loose
    /\ Cardinality(Changed(old, new)) \in 1 .. MaxChanged

\* decide_mode and _prepare_mode: only from a clean page of the maker whose source
\* is still in its job directory.
DecideMode(j) ==
    IF /\ page # None
       /\ page.by = "maker" /\ ~page.flagged
       /\ page.of \in DOMAIN dir
       /\ Splices(page.of, job[j].of)
    THEN "update" ELSE "create"

Artifacts(d) == IF d \in DOMAIN dir THEN dir[d] ELSE [plan |-> None, gaps |-> None]
Kept(d, artifacts) == [e \in DOMAIN dir \cup {d} |-> IF e = d THEN artifacts ELSE dir[e]]

\* source.md is written first, for the job that comes after this one.
Prepare(j) ==
    /\ At(j, "prepare")
    /\ dir' = Kept(job[j].of, Artifacts(job[j].of))
    /\ job' = [job EXCEPT ![j] = [@ EXCEPT
          !.at = "plan",
          !.mode = DecideMode(j),
          !.prior = IF DecideMode(j) = "update" THEN page ELSE None,
          !.modified = IF DecideMode(j) = "update" THEN Changed(page.of, job[j].of) ELSE {}]]
    /\ UNCHANGED <<scenario, source, page, requests, comment, edits>>

\* check_what_doc on the plan of the prior page: it must map the units there are.
Reusable(j) ==
    /\ job[j].mode = "update"
    /\ Artifacts(job[j].prior.of).plan # None
    /\ Present(job[j].prior.of) = Present(job[j].of)

\* _reuse_prior_what and _reuse_prior_gaps: the plan is kept with the record of its
\* gaps; nothing is asked upstream and no marker is to be rendered.
ReusePlan(j) ==
    /\ At(j, "plan") /\ Reusable(j)
    /\ LET old == Artifacts(job[j].prior.of) IN
       /\ dir' = Kept(job[j].of, [Artifacts(job[j].of) EXCEPT !.plan = old.plan])
       /\ job' = [job EXCEPT ![j] = [@ EXCEPT
             !.at = "how",
             !.open = IF old.gaps = None THEN {} ELSE old.gaps]]
    /\ UNCHANGED <<scenario, source, page, requests, comment, edits>>

\* run_what, the probe, ask_what, run_gapfill and validate_evidence: some gaps are
\* declared and for some of those the agent quotes what the upstream files do say.
\* Without a doc the page is the fallback; an update that cannot be is a creation.
WritePlan(j) ==
    /\ At(j, "plan") /\ ~Reusable(j)
    /\ \/ \E declared \in SUBSET scenario.gaps : \E grounded \in SUBSET declared :
             /\ dir' = Kept(job[j].of, [Artifacts(job[j].of) EXCEPT !.plan = "written"])
             /\ job' = [job EXCEPT ![j] = [@ EXCEPT
                   !.at = "look", !.mode = "create", !.prior = None, !.modified = {},
                   !.declared = declared, !.grounded = grounded]]
       \/ /\ job' = [job EXCEPT ![j] = [@ EXCEPT
                   !.at = "fallback", !.mode = "create", !.prior = None, !.modified = {}]]
          /\ UNCHANGED dir
    /\ UNCHANGED <<scenario, source, page, requests, comment, edits>>

-------------------------------------------------------------------------------
(* The gaps.                                                               *)

\* Seeded fault: a request that was refused leaves the gap to be asked again.
LiveUnlessRefused == {"applied", "proposed", "rejected"}

LiveStatuses == {"applied", "conflicted", "proposed", "rejected"}

\* _existing_gap_cr, for every gap that may be proposed.
Look(j) ==
    /\ At(j, "look")
    /\ job' = [job EXCEPT ![j] = [@ EXCEPT
          !.at = "emit",
          !.live = {g \in job[j].grounded : \E q \in requests : q.gap = g /\ q.status \in LiveStatuses},
          !.settled = {g \in job[j].grounded : \E q \in requests : q.gap = g /\ q.status = "applied"}]]
    /\ UNCHANGED <<scenario, source, page, dir, requests, comment, edits>>

\* emit_change_requests: a grounded gap nobody asked about is proposed; what is not
\* applied stays open and gets a marker.
Emit(j) ==
    /\ At(j, "emit")
    /\ LET open == job[j].declared \ job[j].settled IN
       /\ requests' = requests \cup
             {[gap |-> g, by |-> j, status |-> "proposed"] : g \in job[j].grounded \ job[j].live}
       /\ dir' = Kept(job[j].of, [Artifacts(job[j].of) EXCEPT !.gaps = open])
       /\ job' = [job EXCEPT ![j] = [@ EXCEPT
             !.at = "how", !.open = open, !.markers = open,
             !.declared = {}, !.grounded = {}, !.live = {}, !.settled = {}]]
    /\ UNCHANGED <<scenario, source, page, comment, edits>>

-------------------------------------------------------------------------------
(* The attempts.                                                           *)

Told(text, words) == [of |-> text, words |-> words]

\* A page written anew: some of the units, some of the markers, which are in one
\* place: in a unit, or beside the units.
Anew(j, shown, words, marked, place) ==
    [units |-> [u \in Units |-> IF u \in shown THEN Told(job[j].of.text[u], words[u]) ELSE None],
     loose |-> job[j].of.loose,
     marks |-> [g \in Gaps |-> IF g \in marked THEN place ELSE None]]

\* splice_update: the changed units for which there is a fragment, and what was in
\* them, are replaced; everything else is the prior page.  None was added or removed:
\* the plan would not have been reusable.
Spliced(j, words, given) ==
    LET prior == job[j].prior.body IN
    [prior EXCEPT
        !.units = [u \in Units |-> IF u \in given THEN Told(job[j].of.text[u], words[u]) ELSE prior.units[u]],
        !.marks = [g \in Gaps |-> IF prior.marks[g] \in given THEN None ELSE prior.marks[g]]]

Marked(body) == {g \in Gaps : body.marks[g] # None}

\* A comment places where its words are in the unit it was left on.
Places(body, c) ==
    /\ body.units[c.unit] # None
    /\ body.units[c.unit].words = c.words

OpenComments == {c \in Comments : comment[c] # None /\ comment[c].state = "open"}

\* check_comment_survival: a miss is expected in a unit this update has changed and
\* a structural violation everywhere else.
Missed(body) == {c \in OpenComments : ~Places(body, comment[c])}

\* Seeded fault: on a page written anew any comment may be lost.
SurvivesUpdatesOnly(j, body) ==
    \/ job[j].mode = "create"
    \/ \A c \in Missed(body) : comment[c].unit \in job[j].modified

Survives(j, body) == \A c \in Missed(body) : comment[c].unit \in job[j].modified

\* check_html: each unit of the source has its container, and nothing else has one.
Corresponds(j, body) == {u \in Units : body.units[u] # None} = Present(job[j].of)

\* check_update_fidelity: what has not changed is as it was.
Faithful(j, body) ==
    job[j].mode = "update" =>
        \A u \in Units \ job[j].modified : body.units[u] = job[j].prior.body.units[u]

\* gate_html: each open gap has its marker and no other marker is there; no fragment
\* is missing.
Valid(j, body, given) ==
    /\ Corresponds(j, body)
    /\ Marked(body) = job[j].markers
    /\ Faithful(j, body)
    /\ given = job[j].modified
    /\ Survives(j, body)

Attempted(j, body, ok, pass) ==
    job' = [job EXCEPT ![j] = [@ EXCEPT
        !.attempts = job[j].attempts + 1,
        !.html = body,
        !.expected = {c \in Missed(body) : comment[c].unit \in job[j].modified},
        !.gated = {<<c, comment[c]>> : c \in OpenComments},
        !.tried = IF ok /\ pass THEN {} ELSE job[j].tried \cup {[body |-> body, valid |-> ok]},
        !.served = IF ok /\ pass THEN body ELSE None,
        !.at = IF ok /\ pass THEN "publish" ELSE "how"]]

\* One turn of the loop: run_how, gate_html and the checker.
Attempt(j) ==
    /\ At(j, "how") /\ job[j].attempts < scenario.attempts
    /\ \/ job' = [job EXCEPT ![j].attempts = @ + 1]
       \/ \E words \in [Units -> scenario.words], pass \in BOOLEAN :
             \/ /\ job[j].mode = "create"
                /\ \E shown \in SUBSET Present(job[j].of), marked \in SUBSET scenario.gaps,
                      place \in Present(job[j].of) \cup {"aside"} :
                      LET body == Anew(j, shown, words, marked, place) IN
                      Attempted(j, body, Valid(j, body, {}), pass)
             \/ /\ job[j].mode = "update"
                /\ \E given \in SUBSET job[j].modified :
                      LET body == Spliced(j, words, given) IN
                      Attempted(j, body, Valid(j, body, given), pass)
    /\ UNCHANGED <<scenario, source, page, dir, requests, comment, edits>>

\* decide_quality: an attempt is served flagged, a sound one if there is any.
Decide(j) ==
    /\ At(j, "how") /\ job[j].attempts = scenario.attempts
    /\ LET valid == {a \in job[j].tried : a.valid} IN
       \/ /\ job[j].tried = {}
          /\ job' = [job EXCEPT ![j].at = "fallback"]
       \/ \E a \in IF valid = {} THEN job[j].tried ELSE valid :
             job' = [job EXCEPT ![j] = [@ EXCEPT
                !.at = "publish", !.served = a.body, !.flagged = TRUE, !.tried = {}]]
    /\ UNCHANGED <<scenario, source, page, dir, requests, comment, edits>>

Page(j, by, body) ==
    [of |-> job[j].of, by |-> by, flagged |-> job[j].flagged, body |-> body,
     open |-> job[j].open, job |-> j]

\* _compare_and_publish; what follows a publication is the re-anchoring.
Publish(j) ==
    /\ At(j, "publish")
    /\ IF source # job[j].of
       THEN Ends(j) /\ UNCHANGED page
       ELSE /\ page' = Page(j, "maker", job[j].served)
            /\ IF job[j].expected = {} THEN Ends(j) ELSE job' = [job EXCEPT ![j].at = "dispatch"]
    /\ UNCHANGED <<scenario, source, dir, requests, comment, edits>>

\* _publish_fallback: the deterministic page, unless the source has moved.
Fallback(j) ==
    /\ At(j, "fallback")
    /\ page' = IF source # job[j].of THEN page
               ELSE Page(j, "deterministic", Anew(j, Present(job[j].of), [u \in Units |-> Plain], {}, None))
    /\ Ends(j)
    /\ UNCHANGED <<scenario, source, dir, requests, comment, edits>>

-------------------------------------------------------------------------------
(* The comments.                                                           *)

Set(c, row) == comment' = [comment EXCEPT ![c] = row]

\* _post_publish_reanchor asks the agent about the misses that are still open.
Dispatch(j) ==
    /\ At(j, "dispatch")
    /\ IF job[j].expected \cap OpenComments = {} THEN Ends(j)
       ELSE job' = [job EXCEPT ![j] = [@ EXCEPT !.at = "reanchor", !.expected = job[j].expected \cap OpenComments]]
    /\ UNCHANGED <<scenario, source, page, dir, requests, comment, edits>>

Says(body, words) == \E u \in Units : body.units[u] # None /\ body.units[u].words = words

\* _apply_reanchor_verdicts: whatever has become of a comment by then, it is moved,
\* when its new words are on the last attempt, or orphaned, or, unless it is,
\* resolved.  The agent may also fail, or pass a comment over.
Reanchor(j) ==
    /\ At(j, "reanchor")
    /\ \E verdict \in [job[j].expected -> scenario.words \cup {"resolved", "orphaned", "none"}] :
          comment' = [c \in Comments |->
             IF c \notin DOMAIN verdict \/ verdict[c] = "none" THEN comment[c]
             ELSE IF verdict[c] = "resolved" THEN [comment[c] EXCEPT !.state = "resolved"]
             ELSE IF verdict[c] \in Words /\ Says(job[j].html, verdict[c])
             THEN [comment[c] EXCEPT !.words = verdict[c]]
             ELSE [comment[c] EXCEPT !.state = "orphaned"]]
    /\ Ends(j)
    /\ UNCHANGED <<scenario, source, page, dir, requests, edits>>

\* create_comment: on words of a unit of the served page.
AddComment(c, u) ==
    /\ comment[c] = None /\ page # None /\ page.body.units[u] # None
    /\ Set(c, [state |-> "open", unit |-> u, words |-> page.body.units[u].words])

\* resolve_comment refuses a resolved one, reopen_comment an open one.
Resolve(c) ==
    /\ comment[c] # None /\ comment[c].state # "resolved"
    /\ Set(c, [comment[c] EXCEPT !.state = "resolved"])

Reopen(c) ==
    /\ comment[c] # None /\ comment[c].state # "open"
    /\ Set(c, [comment[c] EXCEPT !.state = "open"])

Orphan(c) ==
    /\ comment[c] # None
    /\ Set(c, [comment[c] EXCEPT !.state = "orphaned"])

\* The relocate route: any words of the served page, the unit stays.
Relocate(c, words) ==
    /\ comment[c] # None /\ page # None /\ Says(page.body, words)
    /\ Set(c, [comment[c] EXCEPT !.words = words])

People ==
    /\ \E c \in scenario.comments :
          \/ \E u \in Units : AddComment(c, u)
          \/ Resolve(c) \/ Reopen(c) \/ Orphan(c)
          \/ \E words \in scenario.words : Relocate(c, words)
    /\ UNCHANGED <<scenario, source, page, dir, requests, job, edits>>

-------------------------------------------------------------------------------
(* The source.                                                             *)

\* A unit is changed, added or taken out, or the text without a ref is changed.
Revised(src) ==
    {s \in [text : [Units -> Texts \cup {None}], loose : Texts] :
        /\ Present(s) # {}
        /\ \/ s.text = src.text /\ s.loose # src.loose
           \/ s.loose = src.loose /\ Cardinality(Changed(src, s)) = 1}

Edit ==
    /\ edits < scenario.edits
    /\ edits' = edits + 1
    /\ source' \in Revised(source)
    /\ UNCHANGED <<scenario, page, dir, requests, comment, job>>

Status(q, status) == requests' = (requests \ {q}) \cup {[q EXCEPT !.status = status]}

\* apply_change_request, whatever the status: it is refused, or changes the source.
Review(q) ==
    /\ \/ /\ Status(q, "conflicted")
          /\ UNCHANGED <<source, edits>>
       \/ /\ edits < scenario.edits
          /\ edits' = edits + 1
          /\ source' \in Revised(source)
          /\ Status(q, "applied")
    /\ UNCHANGED <<scenario, page, dir, comment, job>>

\* The job directories are build output: they may be removed at any time.
Wipe ==
    /\ scenario.wipes /\ DOMAIN dir # {}
    /\ dir' = [d \in {} |-> None]
    /\ UNCHANGED <<scenario, source, page, requests, comment, job, edits>>

Work(j) ==
    \/ Prepare(j) \/ ReusePlan(j) \/ WritePlan(j) \/ Look(j) \/ Emit(j)
    \/ Attempt(j) \/ Decide(j) \/ Publish(j) \/ Fallback(j) \/ Dispatch(j) \/ Reanchor(j)

Next ==
    \/ \E j \in scenario.jobs : Start(j) \/ Work(j)
    \/ People \/ Edit \/ Wipe
    \/ \E q \in requests : Review(q)

Spec == Init /\ [][Next]_vars

-------------------------------------------------------------------------------
(* Properties.                                                             *)

Sources == [text : [Units -> Texts \cup {None}], loose : Texts]
Bodies == [units : [Units -> {None} \cup [of : Texts, words : Words \cup {Plain}]],
           loose : Texts, marks : [Gaps -> Units \cup {"aside", None}]]

\* Every variable stays within the shapes of the code's records.
TypeOK ==
    /\ source \in Sources /\ edits \in 0 .. scenario.edits
    /\ page # None =>
          /\ page.of \in Sources /\ page.by \in {"maker", "deterministic"}
          /\ page.flagged \in BOOLEAN /\ page.body \in Bodies
    /\ DOMAIN dir \subseteq Sources
    /\ \A q \in requests : q.gap \in Gaps /\ q.by \in Jobs /\ q.status \in {"applied", "conflicted", "proposed"}
    /\ \A c \in Comments : comment[c] # None =>
          comment[c] \in [state : {"open", "resolved", "orphaned"}, unit : Units, words : Words \cup {Plain}]
    /\ \A j \in Jobs : job[j].of \in Sources \cup {None} /\ job[j].attempts \in 0 .. scenario.attempts

CleanPage == page # None /\ page.by = "maker" /\ ~page.flagged

\* A page the maker published without a flag shows every unit, and the text without
\* a ref, as the source had it that is stamped on the page, over any number of
\* splices onto splices and with job directories that come and go.
CleanPageShowsSource ==
    CleanPage =>
        /\ page.body.loose = page.of.loose
        /\ \A u \in Units :
              IF u \in Present(page.of)
              THEN page.body.units[u] # None /\ page.body.units[u].of = page.of.text[u]
              ELSE page.body.units[u] = None

\* A gap has two live requests only when the jobs that proposed them were at work
\* side by side (_existing_gap_cr, "no CR spam"): never because a later render, from
\* another source, asks again.
ProposedOnce ==
    \A p \in requests, q \in requests :
        (p # q /\ p.gap = q.gap) => p.by \in job[q.by].beside \/ q.by \in job[p.by].beside

\* A clean page keeps the place of every comment that was open when it passed its
\* gate and has not been touched since; only one whose unit reads differently from
\* the page that was updated may lose it, and is sent to re-anchoring then.
CommentsKept ==
    [][\A j \in Jobs : page' # page /\ At(j, "publish") /\ ~At(j, "publish")' /\ ~job[j].flagged =>
          \A c \in OpenComments : <<c, comment[c]>> \in job[j].gated =>
              \/ Places(page'.body, comment[c])
              \/ /\ job[j].prior # None
                 /\ comment[c].unit \in Changed(job[j].prior.of, page'.of)
                 /\ c \in job'[j].expected]_vars

\* Every gap that the job of a clean page recorded as open has its marker on the
\* page (maker_gate: "a gap is never silently dropped").
OpenGapsMarked == CleanPage => page.open \subseteq Marked(page.body)

===============================================================================
