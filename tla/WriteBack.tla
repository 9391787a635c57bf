------------------------------- MODULE WriteBack -------------------------------
(***************************************************************************)
(* The round trip of a requirements change: a change request is taken in   *)
(* (routes/change_requests.py), a separate process applies it to the       *)
(* goal's refined_requirements.collab.md and cuts a version                *)
(* (services/change_request_service.py, requirement_version_service.py),   *)
(* and a relay in the server shows its alert                               *)
(* (services/notification_service.py).  Meanwhile people edit the same     *)
(* file (routes/api_artifacts.py) and agents post versions of it           *)
(* (routes/api_requirements.py).                                           *)
(*                                                                         *)
(* An applier is a process of its own and interleaves with everything at   *)
(* each file access and each transaction.  A route runs on the event loop  *)
(* of the server and is interrupted only where it awaits; other processes  *)
(* still come between two of its statements on the database.               *)
(*                                                                         *)
(* The file is a set of regions, the lines a quote can be found on, each   *)
(* holding a text, and how often each addition stands in it.  Where in its *)
(* section an addition stands is left out.                                 *)
(***************************************************************************)
EXTENDS Integers, Sequences, FiniteSets

CONSTANTS
    Regions,        \* the lines of the file that requests may target
    Appliers,       \* processes that run the apply command
    Posts,          \* requests that post a version
    None,           \* no file, no region, no text
    Policy,         \* WRITEBACK_GATE_POLICY
    Enabled,        \* which accidents and repetitions may happen
    MaxRequests,    \* bound: change requests ever made
    MaxTrail,       \* bound: events of one request before it is applied no more
    MaxEdits,       \* bound: saves by people
    MaxVersions,    \* bound: versions after which no process starts to cut one
    MaxKills,       \* bound: appliers killed
    MaxCrashes      \* bound: crashes of the server

Requests == 1 .. MaxRequests
Cutters  == Appliers \cup Posts

Text == [by : {"draft", "person", "request"}, n : Nat, quoted : BOOLEAN]
Doc  == [lines : [Regions -> Text], added : [Requests -> Nat]]

ASSUME WriteBackAssumption ==
    /\ Appliers \cap Posts = {}
    /\ None \notin Regions
    /\ None \notin Doc
    /\ None \notin Text
    /\ Policy \in {"gate-all", "gate-except-additions", "gate-none"}
    /\ Enabled \subseteq {"absent", "race", "kill", "crash", "reapply"}
    /\ {MaxRequests, MaxTrail, MaxEdits, MaxVersions, MaxKills, MaxCrashes} \subseteq Nat

VARIABLES
    file,       \* refined_requirements.collab.md
    versions,   \* requirement_versions of the goal: the contents, by number
    current,    \* the numbers of the versions with status current
    request,    \* change_requests
    trail,      \* change_request_events of each request
    outbox,     \* notifications_outbox
    proc,       \* where each applier and each post is
    answer,     \* what the last apply command of each applier printed
    relay,      \* drain_outbox: the rows it has to deliver, the one it is at
    editor,     \* the content a person has open in the artifact editor
    edits,      \* saves so far
    kills,      \* appliers killed so far
    crashes     \* crashes of the server so far

db     == <<versions, current, request, trail, outbox>>
people == <<editor, edits>>
counts == <<kills, crashes>>
vars   == <<file, db, proc, answer, relay, people, counts>>

Draft == [lines |-> [r \in Regions |-> [by |-> "draft", n |-> 0, quoted |-> TRUE]],
          added |-> [c \in Requests |-> 0]]

NoRequest == [kind |-> "none", status |-> "none", base |-> 0, target |-> None, keeps |-> FALSE]
NoAnswer  == [request |-> 0, verdict |-> "none"]
Idle      == [at |-> "idle", request |-> 0, doc |-> None, verdict |-> "none",
              seen |-> 0, number |-> 0]
Resting   == [batch |-> {}, telling |-> 0]

Init ==
    /\ file = IF "absent" \in Enabled THEN None ELSE Draft
    /\ versions = <<>>
    /\ current = {}
    /\ request = [c \in Requests |-> NoRequest]
    /\ trail = [c \in Requests |-> <<>>]
    /\ outbox = <<>>
    /\ proc = [p \in Cutters |-> Idle]
    /\ answer = [p \in Appliers |-> NoAnswer]
    /\ relay = Resting
    /\ editor = None
    /\ edits = 0
    /\ kills = 0
    /\ crashes = 0

\* The event loop is free: no post is between two statements of create_snapshot
\* and the relay is not in the middle of a drain.
LoopFree ==
    /\ \A p \in Posts : proc[p].at \notin {"number", "insert"}
    /\ relay = Resting

\* Without races an apply or a post starts only when none is under way.
Undisturbed == "race" \in Enabled \/ \A p \in Cutters : proc[p].at = "idle"

-------------------------------------------------------------------------------
(* Intake.                                                                 *)

GateStatus(kind) ==
    IF Policy = "gate-none" \/ (Policy = "gate-except-additions" /\ kind = "addition")
    THEN "applied" ELSE "proposed"

Event(type, version) == [type |-> type, version |-> version]
Alert(c) == [request |-> c, status |-> "pending", told |-> 0]

\* Mutant: a request that has an alert gets no second one.
WithFirstAlert(c) ==
    IF \E o \in DOMAIN outbox : outbox[o].request = c THEN outbox ELSE Append(outbox, Alert(c))

WithAlert(c) == Append(outbox, Alert(c))

\* Mutant: the requests that wait for a human are announced.
IntakeAlertsGated(c, kind) == IF GateStatus(kind) = "proposed" THEN WithAlert(c) ELSE outbox

\* Only a request applied at once is announced at intake.
IntakeAlerts(c, kind) == IF GateStatus(kind) = "applied" THEN WithAlert(c) ELSE outbox

\* POST /change-requests.  An annotation goes the way of a modification.  The
\* base version is whatever the emitter says, a number without a version too; a
\* body may keep the quote it targets or drop it.  An addition has no target, and
\* nothing ever looks at its base.
Propose(c, kind, base, target, keeps) ==
    /\ LoopFree
    /\ request[c] = NoRequest
    /\ c > 1 => request[c - 1] # NoRequest
    /\ IF kind = "addition" THEN target = None /\ keeps /\ base = 1 ELSE target # None
    /\ request' = [request EXCEPT ![c] = [kind |-> kind, status |-> GateStatus(kind),
                       base |-> base, target |-> target, keeps |-> keeps]]
    /\ trail' = [trail EXCEPT ![c] = <<Event("proposed", 0)>>]
    /\ outbox' = IntakeAlerts(c, kind)
    /\ UNCHANGED <<file, versions, current, proc, answer, relay, people, counts>>

-------------------------------------------------------------------------------
(* The apply command.                                                      *)

Body(c) == [by |-> "request", n |-> c, quoted |-> request[c].keeps]

\* The text of a region at the version the request assumed.
BaseText(c, r) ==
    IF request[c].base \in DOMAIN versions THEN versions[request[c].base].lines[r] ELSE None

LastEvent(c) == trail[c][Len(trail[c])].type

\* The agent applies a request once, and once more, with a quote that
\* cast-comment-reanchor found for it, if the first answer was "orphaned".
FirstTry(c) == LastEvent(c) = "proposed"
Retry(c)    == LastEvent(c) = "orphaned" /\ Len(trail[c]) = 2
MayApply(c) ==
    /\ request[c] # NoRequest
    /\ Len(trail[c]) < MaxTrail
    /\ FirstTry(c) \/ Retry(c) \/ "reapply" \in Enabled

\* The regions in which the quote is found: its own while that still quotes it,
\* or wherever the reanchor agent says.
Sites(c) ==
    IF request[c].kind = "addition" THEN {None}
    ELSE IF Retry(c) THEN Regions \cup {None}
    ELSE IF file.lines[request[c].target].quoted THEN {request[c].target}
    ELSE {None}

\* Mutant: a quote that is found is as good as an unchanged region.
VerdictByQuote(c, site) ==
    IF request[c].kind # "addition" /\ site = None THEN "orphaned" ELSE "clean"

\* detect_conflict
Verdict(c, site) ==
    IF request[c].kind = "addition" THEN "clean"
    ELSE IF site = None THEN "orphaned"
    ELSE IF file.lines[site] = BaseText(c, site) THEN "clean"
    ELSE "conflicted"

\* What the file becomes: one line more, or one region replaced.
Spliced(c, site) ==
    IF request[c].kind = "addition"
    THEN [file EXCEPT !.added[c] = @ + 1]
    ELSE [file EXCEPT !.lines[site] = Body(c)]

\* apply_change_request from its start to the last thing it computes in memory.
\* The status of the request plays no part.
ApplyReads(p, c, site) ==
    /\ proc[p] = Idle
    /\ Undisturbed
    /\ MayApply(c)
    /\ Len(versions) < MaxVersions
    /\ file # None
    /\ site \in Sites(c)
    /\ LET verdict == Verdict(c, site) IN
       proc' = [proc EXCEPT ![p] = [Idle EXCEPT
                    !.at = IF verdict = "clean" THEN "replace" ELSE "refuse",
                    !.request = c,
                    !.verdict = verdict,
                    !.doc = IF verdict = "clean" THEN Spliced(c, site) ELSE None]]
    /\ answer' = [answer EXCEPT ![p] = NoAnswer]
    /\ UNCHANGED <<file, db, relay, people, counts>>

\* There is no file: refused as orphaned before anything is written.
ApplyFindsNoFile(p, c) ==
    /\ proc[p] = Idle
    /\ MayApply(c)
    /\ file = None
    /\ answer' = [answer EXCEPT ![p] = [request |-> c, verdict |-> "orphaned"]]
    /\ UNCHANGED <<file, db, proc, relay, people, counts>>

\* A conflict shows in the status, whatever that was.
RefusedStatus(verdict, status) == IF verdict = "conflicted" THEN verdict ELSE status

\* Mutant: an orphan changes no status and so leaves no event.
RefusalOfConflict(c, verdict) ==
    IF verdict = "conflicted" THEN Append(trail[c], Event(verdict, 0)) ELSE trail[c]

RefusalTrail(c, verdict) == Append(trail[c], Event(verdict, 0))

\* _record_refusal
Refuse(p) ==
    LET c == proc[p].request
        v == proc[p].verdict
    IN
    /\ proc[p].at = "refuse"
    /\ trail' = [trail EXCEPT ![c] = RefusalTrail(c, v)]
    /\ request' = [request EXCEPT ![c].status = RefusedStatus(v, @)]
    /\ answer' = [answer EXCEPT ![p] = [request |-> c, verdict |-> v]]
    /\ proc' = [proc EXCEPT ![p] = Idle]
    /\ UNCHANGED <<file, versions, current, outbox, relay, people, counts>>

\* _commit_spliced: os.replace
Replace(p) ==
    /\ proc[p].at = "replace"
    /\ file' = proc[p].doc
    /\ proc' = [proc EXCEPT ![p].at = "current"]
    /\ UNCHANGED <<db, answer, relay, people, counts>>

\* Mutant: the version that was current before.
PriorVersion(p) == proc[p].seen

\* The version create_next returned.
AppliedVersion(p) == proc[p].number

\* The apply transaction: status, applied event and alert.
Commit(p) ==
    LET c == proc[p].request IN
    /\ proc[p].at = "commit"
    /\ request' = [request EXCEPT ![c].status = "applied"]
    /\ trail' = [trail EXCEPT ![c] = Append(@, Event("applied", AppliedVersion(p)))]
    /\ outbox' = WithAlert(c)
    /\ answer' = [answer EXCEPT ![p] = [request |-> c, verdict |-> "applied"]]
    /\ proc' = [proc EXCEPT ![p] = Idle]
    /\ UNCHANGED <<file, versions, current, relay, people, counts>>

-------------------------------------------------------------------------------
(* create_snapshot, in an applier or in POST /versions.                    *)

\* The route has read the file and awaits the body of the request.
PostReads(p) ==
    /\ proc[p] = Idle
    /\ Undisturbed
    /\ LoopFree
    /\ Len(versions) < MaxVersions
    /\ file # None
    /\ proc' = [proc EXCEPT ![p] = [Idle EXCEPT !.at = "current", !.doc = file]]
    /\ UNCHANGED <<file, db, answer, relay, people, counts>>

\* Mutant: with the version cut the apply is over.
CutAndReturn(p, number) == proc' = [proc EXCEPT ![p] = Idle]

\* An applier goes on to its transaction, a post is over.
Cut(p, number) ==
    proc' = [proc EXCEPT ![p] =
                IF p \in Posts THEN Idle ELSE [@ EXCEPT !.at = "commit", !.number = number]]

\* The first SELECT: a current version with this very content is kept.
SelectCurrent(p, row) ==
    /\ proc[p].at = "current"
    /\ p \in Posts => LoopFree
    /\ row \in IF current = {} THEN {0} ELSE current
    /\ IF row > 0 /\ versions[row] = proc[p].doc
       THEN Cut(p, row)
       ELSE proc' = [proc EXCEPT ![p].at = "number", ![p].seen = row]
    /\ UNCHANGED <<file, db, answer, relay, people, counts>>

\* The second SELECT.
SelectMax(p) ==
    /\ proc[p].at = "number"
    /\ proc' = [proc EXCEPT ![p].at = "insert", ![p].number = Len(versions) + 1]
    /\ UNCHANGED <<file, db, answer, relay, people, counts>>

\* Mutant: no row is archived.
KeepingPrior(seen, number) == current \cup {number}

\* Mutant: the rows of the goal are archived after the insert.
ArchivingLast(seen, number) == {}

\* The row of the first SELECT is archived, the inserted one is current.
Promoted(seen, number) == (current \ {seen}) \cup {number}

\* One transaction archives the row of the first SELECT and inserts the new one.
Insert(p) ==
    /\ proc[p].at = "insert"
    /\ proc[p].number = Len(versions) + 1
    /\ versions' = Append(versions, proc[p].doc)
    /\ current' = Promoted(proc[p].seen, proc[p].number)
    /\ Cut(p, proc[p].number)
    /\ UNCHANGED <<file, request, trail, outbox, answer, relay, people, counts>>

\* UNIQUE(goal_slug, version) is violated: the transaction is rolled back and
\* the process dies of the exception.
InsertFails(p) ==
    /\ proc[p].at = "insert"
    /\ proc[p].number # Len(versions) + 1
    /\ proc' = [proc EXCEPT ![p] = Idle]
    /\ UNCHANGED <<file, db, answer, relay, people, counts>>

-------------------------------------------------------------------------------
(* The relay.                                                              *)

Pending == {o \in DOMAIN outbox : outbox[o].status = "pending"}

RelayReads ==
    /\ LoopFree
    /\ Pending # {}
    /\ relay' = [batch |-> Pending, telling |-> 0]
    /\ UNCHANGED <<file, db, proc, answer, people, counts>>

\* _deliver, for the rows in the order of their ids.
RelayDelivers(o) ==
    /\ relay.telling = 0
    /\ o \in relay.batch
    /\ \A q \in relay.batch : o <= q
    /\ outbox' = [outbox EXCEPT ![o].told = @ + 1]
    /\ relay' = [relay EXCEPT !.telling = o]
    /\ UNCHANGED <<file, versions, current, request, trail, proc, answer, people, counts>>

\* Mutant: the flip is not committed.
Unflipped(o) == outbox

Flipped(o) == [outbox EXCEPT ![o].status = "delivered"]

\* The committed flip of the row just delivered.
RelayFlips(o) ==
    /\ relay.telling = o
    /\ outbox' = Flipped(o)
    /\ relay' = [batch |-> relay.batch \ {o}, telling |-> 0]
    /\ UNCHANGED <<file, versions, current, request, trail, proc, answer, people, counts>>

-------------------------------------------------------------------------------
(* People, and accidents.                                                  *)

\* The refine agent writes the first file (external).
DraftWritten ==
    /\ file = None
    /\ file' = Draft
    /\ UNCHANGED <<db, proc, answer, relay, people, counts>>

\* GET /edit
EditorOpens ==
    /\ LoopFree
    /\ editor = None
    /\ file # None
    /\ edits < MaxEdits
    /\ editor' = file
    /\ UNCHANGED <<file, db, proc, answer, relay, edits, counts>>

\* PUT /save: the whole content of the editor, with one region rewritten.
EditorSaves(r, quoted) ==
    /\ LoopFree
    /\ editor # None
    /\ "race" \in Enabled \/ \A p \in Appliers : proc[p].at # "replace"
    /\ file' = [editor EXCEPT !.lines[r] =
                    [by |-> "person", n |-> edits + 1, quoted |-> quoted]]
    /\ edits' = edits + 1
    /\ editor' = None
    /\ UNCHANGED <<db, proc, answer, relay, counts>>

Killed(p) ==
    /\ "kill" \in Enabled
    /\ kills < MaxKills
    /\ proc[p] # Idle
    /\ proc' = [proc EXCEPT ![p] = Idle]
    /\ kills' = kills + 1
    /\ UNCHANGED <<file, db, answer, relay, people, crashes>>

\* A crash of the server and its restart: posts and the relay start over.
Crash ==
    /\ "crash" \in Enabled
    /\ crashes < MaxCrashes
    /\ proc' = [p \in Cutters |-> IF p \in Posts THEN Idle ELSE proc[p]]
    /\ relay' = Resting
    /\ crashes' = crashes + 1
    /\ UNCHANGED <<file, db, answer, people, kills>>

-------------------------------------------------------------------------------
Apply(p) ==
    \/ \E c \in Requests, site \in Regions \cup {None} : ApplyReads(p, c, site)
    \/ \E c \in Requests : ApplyFindsNoFile(p, c)
    \/ Refuse(p)
    \/ Replace(p)
    \/ Commit(p)
    \/ Killed(p)

Snapshot(p) ==
    \/ \E row \in 0 .. Len(versions) : SelectCurrent(p, row)
    \/ SelectMax(p)
    \/ Insert(p)
    \/ InsertFails(p)

Relay == RelayReads \/ \E o \in DOMAIN outbox : RelayDelivers(o) \/ RelayFlips(o)

Intake == \E c \in Requests, kind \in {"addition", "modification"},
             base \in 1 .. Len(versions) + 1, target \in Regions \cup {None},
             keeps \in BOOLEAN : Propose(c, kind, base, target, keeps)

Person == DraftWritten \/ EditorOpens \/ \E r \in Regions, quoted \in BOOLEAN : EditorSaves(r, quoted)

Next ==
    \/ Intake
    \/ \E p \in Appliers : Apply(p)
    \/ \E p \in Posts : PostReads(p)
    \/ \E p \in Cutters : Snapshot(p)
    \/ Relay
    \/ Person
    \/ Crash

Spec == Init /\ [][Next]_vars

\* The relay loop of the server never ends and a route that has begun to cut a
\* version goes on; nothing is assumed of appliers and people.
FairSpec ==
    /\ Spec
    /\ WF_vars(Relay)
    /\ \A p \in Posts : WF_vars(Snapshot(p))

-------------------------------------------------------------------------------
(* Safety.                                                                 *)

Verdicts == {"none", "clean", "orphaned", "conflicted", "applied"}
Steps    == {"idle", "refuse", "replace", "current", "number", "insert", "commit"}

Rows ==
    [kind : {"none", "addition", "modification"},
     status : {"none", "proposed", "applied", "conflicted"},
     base : Nat, target : Regions \cup {None}, keeps : BOOLEAN]
Events  == [type : {"proposed", "orphaned", "conflicted", "applied"}, version : Nat]
Alerts  == [request : Requests, status : {"pending", "delivered"}, told : Nat]
Places  == [at : Steps, request : {0} \cup Requests, doc : Doc \cup {None},
            verdict : Verdicts, seen : Nat, number : Nat]
Answers == [request : {0} \cup Requests, verdict : Verdicts]

\* The types of the tables and of the processes; the relay only ever works on
\* rows of the outbox.
TypeOK ==
    /\ file \in Doc \cup {None}
    /\ versions \in Seq(Doc)
    /\ current \subseteq DOMAIN versions
    /\ request \in [Requests -> Rows]
    /\ trail \in [Requests -> Seq(Events)]
    /\ outbox \in Seq(Alerts)
    /\ proc \in [Cutters -> Places]
    /\ answer \in [Appliers -> Answers]
    /\ relay \in [batch : SUBSET DOMAIN outbox, telling : {0} \cup DOMAIN outbox]
    /\ editor \in Doc \cup {None}
    /\ edits \in Nat /\ kills \in Nat /\ crashes \in Nat

\* The body of request c stands in a content.
Holds(doc, c) ==
    \/ request[c].kind = "addition" /\ doc.added[c] > 0
    \/ request[c].kind = "modification" /\ \E r \in Regions : doc.lines[r] = Body(c)

\* Every applied event names a version that exists and holds the change,
\* whatever other appliers, posts, people and kills did between the splice and
\* the event (apply_change_request takes the number from create_next).
AppliedHasVersion ==
    \A c \in Requests : \A i \in DOMAIN trail[c] :
        trail[c][i].type = "applied" =>
            /\ trail[c][i].version \in DOMAIN versions
            /\ Holds(versions[trail[c][i].version], c)

Applications(c) == {i \in DOMAIN trail[c] : trail[c][i].type = "applied"}
AlertsOf(c)     == {o \in DOMAIN outbox : outbox[o].request = c}
FastTracked(c)  == request[c] # NoRequest /\ GateStatus(request[c].kind) = "applied"

\* Each application has its alert and each alert its application, counting the
\* intake that applies at once (US5: no change without its alert and no alert
\* without its change).
AlertPerApply ==
    \A c \in Requests :
        Cardinality(AlertsOf(c)) = Cardinality(Applications(c)) + IF FastTracked(c) THEN 1 ELSE 0

\* The version with the highest number is always current, also when processes
\* cut versions at the same time.
NewestIsCurrent == versions # <<>> => Len(versions) \in current

\* At most one version is current (create_snapshot: no window where two rows
\* are 'current').
OneCurrent == Cardinality(current) <= 1

\* A body that stands in the file has been applied on the record, or is being
\* applied.
ChangeRecorded ==
    file # None =>
        \A c \in Requests : Holds(file, c) =>
            \/ Applications(c) # {}
            \/ \E p \in Appliers : proc[p].request = c /\ proc[p].at \notin {"refuse", "replace"}

\* An alert counts as delivered only after it was, and is delivered once unless
\* the server crashed between delivery and the record of it.
ToldOnce ==
    \A o \in DOMAIN outbox :
        /\ outbox[o].status = "delivered" => outbox[o].told >= 1
        /\ outbox[o].told <= 1 + crashes

\* No text a person wrote is replaced but by a person, or by a request that
\* assumed that very text (conflict.py: a region a human changed since base is
\* surfaced, never overwritten).
HumanTextKept ==
    [][file # None =>
        \A r \in Regions : file.lines[r].by = "person" /\ file'.lines[r] # file.lines[r] =>
            \/ edits' # edits
            \/ \E p \in Appliers : /\ proc[p].at = "replace" /\ proc'[p].at = "current"
                                  /\ BaseText(proc[p].request, r) = file.lines[r]]_vars

\* A request answered as orphaned or conflicted gets exactly one event for it
\* (WritebackRefused: a refusal is never a silent no-op).
RefusalRecorded ==
    [][\A p \in Appliers :
        answer'[p] # answer[p] /\ answer'[p].verdict \in {"orphaned", "conflicted"} =>
            LET c == answer'[p].request IN
            trail'[c] = Append(trail[c], Event(answer'[p].verdict, 0))]_vars

-------------------------------------------------------------------------------
(* The promise.                                                            *)

AppliedSet  == {c \in Requests : Applications(c) # {} \/ FastTracked(c)}
SurfacedSet == {c \in Requests : \E o \in AlertsOf(c) : outbox[o].status = "delivered"}
OwedSet     == {c \in Requests : AlertsOf(c) # {}} \ SurfacedSet

Promise == INSTANCE RoundTrip
           WITH applied <- AppliedSet, owed <- OwedSet, surfaced <- SurfacedSet

\* A request becomes applied together with its alert, and every alert surfaces
\* once, however often the request is applied (recent_writebacks shows a request
\* once, from the delivered rows).
PromiseKept == Promise!FairSpec

===============================================================================
