------------------------ MODULE RequirementsPageProofs ------------------------
(* Proofs about RequirementsPage, for any units, texts, gaps and comments, any *)
(* number of jobs, attempts and edits, and any share of changed units.         *)
EXTENDS RequirementsPage, TLAPS

-------------------------------------------------------------------------------
(* Type correctness.                                                       *)

Stages == {"new", "prepare", "plan", "look", "emit", "how", "publish", "fallback", "dispatch", "reanchor",
           "done"}

Contents == [of : Texts, words : Words \cup {Plain}]
Pages == [of : Sources, by : {"maker", "deterministic"}, flagged : BOOLEAN, body : Bodies,
          open : SUBSET Gaps, job : Jobs]
Rows == [state : {"open", "resolved", "orphaned"}, unit : Units, words : Words \cup {Plain}]
Records == [plan : {None, "written"}, gaps : (SUBSET Gaps) \cup {None}]
Requests == [gap : Gaps, by : Jobs, status : {"applied", "conflicted", "proposed"}]
Attempts == [body : Bodies, valid : BOOLEAN]

JobStates == [at : Stages, of : Sources \cup {None}, beside : SUBSET Jobs, mode : {"create", "update"},
              prior : Pages \cup {None}, modified : SUBSET Units, declared : SUBSET Gaps,
              grounded : SUBSET Gaps, live : SUBSET Gaps, settled : SUBSET Gaps, open : SUBSET Gaps,
              markers : SUBSET Gaps, attempts : Nat, tried : SUBSET Attempts, html : Bodies \cup {None},
              expected : SUBSET Comments, gated : SUBSET (Comments \X Rows), served : Bodies \cup {None},
              flagged : BOOLEAN]

Typing ==
    /\ scenario \in Scenarios
    /\ source \in Sources
    /\ page \in Pages \cup {None}
    /\ DOMAIN dir \subseteq Sources /\ \A d \in DOMAIN dir : dir[d] \in Records
    /\ requests \subseteq Requests
    /\ comment \in [Comments -> Rows \cup {None}]
    /\ job \in [Jobs -> JobStates]
    /\ edits \in 0 .. scenario.edits

\* What a job has when it is at work.
Carries(j) ==
    /\ AtWork(j) => job[j].of \in Sources
    /\ At(j, "publish") => job[j].served \in Bodies
    /\ job[j].at \in {"new", "prepare"} => job[j].mode = "create"
    /\ job[j].attempts <= scenario.attempts
    /\ \A c \in job[j].expected : comment[c] \in Rows

-------------------------------------------------------------------------------
(* The inductive invariant.                                                *)

\* The body says of every unit, and of the text without a ref, what the source says.
Shows(body, src) ==
    /\ body.loose = src.loose
    /\ \A u \in Units :
          IF u \in Present(src) THEN body.units[u] # None /\ body.units[u].of = src.text[u]
                                ELSE body.units[u] = None

Drafted(j) == job[j].at \notin {"new", "prepare", "plan"}

\* The page that is updated shows its source, from which that of the job differs in the
\* modified units only, and once the plan is settled has the same ones.
PriorShows(j) ==
    /\ job[j].mode = "create" => job[j].modified = {} /\ job[j].prior = None
    /\ job[j].mode = "update" =>
          LET prior == job[j].prior IN
          /\ prior \in Pages /\ prior # None
          /\ Shows(prior.body, prior.of)
          /\ prior.of.loose = job[j].of.loose
          /\ job[j].modified = Changed(prior.of, job[j].of)
          /\ Drafted(j) => Present(prior.of) = Present(job[j].of)

\* What has passed the gate shows the source and has every comment that was open then
\* where its words are, or is about to ask where it has gone.
Passed(j) ==
    At(j, "publish") /\ ~job[j].flagged =>
        /\ Shows(job[j].served, job[j].of)
        /\ \A c \in Comments, r \in Rows : <<c, r>> \in job[j].gated =>
              Places(job[j].served, r) \/ (r.unit \in job[j].modified /\ c \in job[j].expected)

PageShows == CleanPage => Shows(page.body, page.of)

Asked(j) == job[j].at \notin {"new", "prepare", "plan", "look", "emit"}

Met(i, j) == i \in job[j].beside \/ j \in job[i].beside

\* Jobs that are at work at once have met.
Meeting == \A i, j \in Jobs : i # j /\ AtWork(i) /\ AtWork(j) => Met(i, j)

\* A request is of a job that has asked, once for a gap.
Single ==
    /\ \A q \in requests : Asked(q.by)
    /\ \A p, q \in requests : p.gap = q.gap /\ p.by = q.by => p = q

\* Who has asked since a job looked has met it.
Unseen(j) ==
    At(j, "emit") =>
        \A q \in requests : q.gap \in job[j].grounded \ job[j].live => Met(q.by, j)

Asking == Meeting /\ Single /\ (\A j \in Jobs : Unseen(j)) /\ ProposedOnce

Inv ==
    /\ Typing /\ PageShows
    /\ \A j \in Jobs : Carries(j) /\ PriorShows(j) /\ Passed(j)

-------------------------------------------------------------------------------
(* The states the actions give a job.                                      *)

Started(z, o, b) == [z EXCEPT !.at = "prepare", !.of = o, !.beside = b]
Prepared(z, m, p, d) == [z EXCEPT !.at = "plan", !.mode = m, !.prior = p, !.modified = d]
Reused(z, o) == [z EXCEPT !.at = "how", !.open = o]
Planned(z, d, g) ==
    [z EXCEPT !.at = "look", !.mode = "create", !.prior = None, !.modified = {}, !.declared = d, !.grounded = g]
Dropped(z) == [z EXCEPT !.at = "fallback", !.mode = "create", !.prior = None, !.modified = {}]
Looked(z, l, s) == [z EXCEPT !.at = "emit", !.live = l, !.settled = s]
Emitted(z, o) ==
    [z EXCEPT !.at = "how", !.open = o, !.markers = o, !.declared = {}, !.grounded = {}, !.live = {},
              !.settled = {}]
Turned(z, n) == [z EXCEPT !.attempts = n]
Tried(z, n, h, e, g, t, b, s) ==
    [z EXCEPT !.attempts = n, !.html = h, !.expected = e, !.gated = g, !.tried = t, !.served = b, !.at = s]
Chosen(z, b) == [z EXCEPT !.at = "publish", !.served = b, !.flagged = TRUE, !.tried = {}]
Sent(z, e) == [z EXCEPT !.at = "reanchor", !.expected = e]
Moved(z, s) == [z EXCEPT !.at = s]
Left(z) == [NewJob EXCEPT !.at = "done", !.beside = z.beside]

\* What no action but the one that starts a job changes, and what its mode rests on.
SameStart(y, z) == y.of = z.of /\ y.beside = z.beside
SameMode(y, z) == y.mode = z.mode /\ y.prior = z.prior /\ y.modified = z.modified
SameGate(y, z) ==
    /\ y.attempts = z.attempts /\ y.expected = z.expected /\ y.gated = z.gated
    /\ y.served = z.served /\ y.flagged = z.flagged
SameAsked(y, z) == y.grounded = z.grounded /\ y.live = z.live

LEMMA StartedState ==
  ASSUME NEW z \in JobStates, NEW o \in Sources, NEW b \in SUBSET Jobs
  PROVE  LET y == Started(z, o, b) IN
         /\ y \in JobStates /\ y.at = "prepare" /\ y.of = o /\ y.beside = b
         /\ SameMode(y, z) /\ SameGate(y, z) /\ SameAsked(y, z)
BY DEF Started, JobStates, Stages, SameMode, SameGate, SameAsked

LEMMA PreparedState ==
  ASSUME NEW z \in JobStates, NEW m \in {"create", "update"}, NEW p \in Pages \cup {None},
         NEW d \in SUBSET Units
  PROVE  LET y == Prepared(z, m, p, d) IN
         /\ y \in JobStates /\ y.at = "plan" /\ y.mode = m /\ y.prior = p /\ y.modified = d
         /\ SameStart(y, z) /\ SameGate(y, z) /\ SameAsked(y, z)
BY DEF Prepared, JobStates, Stages, SameStart, SameGate, SameAsked

LEMMA ReusedState ==
  ASSUME NEW z \in JobStates, NEW o \in SUBSET Gaps
  PROVE  LET y == Reused(z, o) IN
         /\ y \in JobStates /\ y.at = "how"
         /\ SameStart(y, z) /\ SameMode(y, z) /\ SameGate(y, z) /\ SameAsked(y, z)
BY DEF Reused, JobStates, Stages, SameStart, SameMode, SameGate, SameAsked

LEMMA PlannedState ==
  ASSUME NEW z \in JobStates, NEW d \in SUBSET Gaps, NEW g \in SUBSET Gaps
  PROVE  LET y == Planned(z, d, g) IN
         /\ y \in JobStates /\ y.at = "look" /\ y.mode = "create" /\ y.prior = None /\ y.modified = {}
         /\ SameStart(y, z) /\ SameGate(y, z)
BY DEF Planned, JobStates, Stages, SameStart, SameGate

LEMMA DroppedState ==
  ASSUME NEW z \in JobStates
  PROVE  LET y == Dropped(z) IN
         /\ y \in JobStates /\ y.at = "fallback" /\ y.mode = "create" /\ y.prior = None /\ y.modified = {}
         /\ SameStart(y, z) /\ SameGate(y, z)
BY DEF Dropped, JobStates, Stages, SameStart, SameGate

LEMMA LookedState ==
  ASSUME NEW z \in JobStates, NEW l \in SUBSET Gaps, NEW s \in SUBSET Gaps
  PROVE  LET y == Looked(z, l, s) IN
         /\ y \in JobStates /\ y.at = "emit" /\ y.live = l /\ y.grounded = z.grounded
         /\ SameStart(y, z) /\ SameMode(y, z) /\ SameGate(y, z)
BY DEF Looked, JobStates, Stages, SameStart, SameMode, SameGate

LEMMA EmittedState ==
  ASSUME NEW z \in JobStates, NEW o \in SUBSET Gaps
  PROVE  LET y == Emitted(z, o) IN
         /\ y \in JobStates /\ y.at = "how"
         /\ SameStart(y, z) /\ SameMode(y, z) /\ SameGate(y, z)
BY DEF Emitted, JobStates, Stages, SameStart, SameMode, SameGate

LEMMA TurnedState ==
  ASSUME NEW z \in JobStates, NEW n \in Nat
  PROVE  LET y == Turned(z, n) IN
         /\ y \in JobStates /\ y.at = z.at /\ y.attempts = n /\ y.expected = z.expected
         /\ SameStart(y, z) /\ SameMode(y, z)
BY DEF Turned, JobStates, Stages, SameStart, SameMode

LEMMA TriedState ==
  ASSUME NEW z \in JobStates, NEW n \in Nat, NEW h \in Bodies, NEW e \in SUBSET Comments,
         NEW g \in SUBSET (Comments \X Rows), NEW t \in SUBSET Attempts, NEW b \in Bodies \cup {None},
         NEW s \in {"publish", "how"}
  PROVE  LET y == Tried(z, n, h, e, g, t, b, s) IN
         /\ y \in JobStates /\ y.at = s /\ y.attempts = n /\ y.expected = e /\ y.gated = g /\ y.served = b
         /\ SameStart(y, z) /\ SameMode(y, z)
<1>1. Tried(z, n, h, e, g, t, b, s) \in JobStates
  BY DEF Tried, JobStates, Stages
<1>2. LET y == Tried(z, n, h, e, g, t, b, s) IN
      /\ y.at = s /\ y.attempts = n /\ y.expected = e /\ y.gated = g /\ y.served = b
      /\ y.of = z.of /\ y.beside = z.beside /\ y.mode = z.mode /\ y.prior = z.prior /\ y.modified = z.modified
  BY DEF Tried, JobStates
<1> QED
  BY <1>1, <1>2 DEF SameStart, SameMode

LEMMA ChosenState ==
  ASSUME NEW z \in JobStates, NEW b \in Bodies
  PROVE  LET y == Chosen(z, b) IN
         /\ y \in JobStates /\ y.at = "publish" /\ y.served = b /\ y.flagged
         /\ y.attempts = z.attempts /\ y.expected = z.expected
         /\ SameStart(y, z) /\ SameMode(y, z)
BY DEF Chosen, JobStates, Stages, SameStart, SameMode

LEMMA SentState ==
  ASSUME NEW z \in JobStates, NEW e \in SUBSET Comments
  PROVE  LET y == Sent(z, e) IN
         /\ y \in JobStates /\ y.at = "reanchor" /\ y.expected = e /\ y.attempts = z.attempts
         /\ SameStart(y, z) /\ SameMode(y, z)
BY DEF Sent, JobStates, Stages, SameStart, SameMode

LEMMA MovedState ==
  ASSUME NEW z \in JobStates, NEW s \in Stages
  PROVE  LET y == Moved(z, s) IN
         /\ y \in JobStates /\ y.at = s
         /\ SameStart(y, z) /\ SameMode(y, z) /\ SameGate(y, z) /\ SameAsked(y, z)
BY DEF Moved, JobStates, SameStart, SameMode, SameGate, SameAsked

LEMMA NewState ==
  /\ NewJob \in JobStates /\ NewJob.at = "new" /\ NewJob.mode = "create" /\ NewJob.prior = None
  /\ NewJob.modified = {} /\ NewJob.expected = {} /\ NewJob.attempts = 0 /\ NewJob.beside = {}
BY DEF NewJob, JobStates, Stages

LEMMA DoneState ==
  ASSUME NEW z \in JobStates, NEW b \in SUBSET Jobs
  PROVE  LET y == [z EXCEPT !.at = "done", !.beside = b] IN
         /\ y \in JobStates /\ y.at = "done" /\ y.beside = b /\ y.mode = z.mode /\ y.prior = z.prior
         /\ y.modified = z.modified /\ y.expected = z.expected /\ y.attempts = z.attempts
<1>1. [z EXCEPT !.at = "done", !.beside = b] \in JobStates
  BY DEF JobStates, Stages
<1>2. LET y == [z EXCEPT !.at = "done", !.beside = b] IN
         /\ y.at = "done" /\ y.beside = b /\ y.mode = z.mode /\ y.prior = z.prior
         /\ y.modified = z.modified /\ y.expected = z.expected /\ y.attempts = z.attempts
  BY DEF JobStates
<1> QED
  BY <1>1, <1>2

LEMMA LeftState ==
  ASSUME NEW z \in JobStates
  PROVE  LET y == Left(z) IN
         /\ y \in JobStates /\ y.at = "done" /\ y.beside = z.beside /\ y.mode = "create" /\ y.prior = None
         /\ y.modified = {} /\ y.expected = {} /\ y.attempts = 0
<1>1. NewJob \in JobStates
  BY NewState
<1>2. z.beside \in SUBSET Jobs
  BY DEF JobStates
<1> QED
  BY <1>1, <1>2, DoneState, NewState DEF Left

-------------------------------------------------------------------------------
(* What the operators of the model return.                                 *)

LEMMA ScenarioTypes ==
  ASSUME Typing
  PROVE  /\ scenario.jobs \subseteq Jobs /\ scenario.words \subseteq Words /\ scenario.gaps \subseteq Gaps
         /\ scenario.comments \subseteq Comments /\ scenario.attempts \in Nat /\ scenario.edits \in Nat
BY PageConstants DEF Typing

LEMMA ContentsNotNone ==
  ASSUME NEW t \in Texts, NEW w \in Words \cup {Plain}
  PROVE  Told(t, w) \in Contents /\ Told(t, w) # None /\ Told(t, w).of = t /\ Told(t, w).words = w
BY PageConstants DEF Told, Contents

\* A page written anew has the units that are shown, with the texts of the source.
LEMMA AnewBody ==
  ASSUME NEW j \in Jobs, job[j].of \in Sources, NEW shown \in SUBSET Present(job[j].of),
         NEW words \in [Units -> Words \cup {Plain}], NEW marked, NEW place \in Units \cup {"aside", None}
  PROVE  LET body == Anew(j, shown, words, marked, place) IN
         /\ body \in Bodies
         /\ body.loose = job[j].of.loose
         /\ \A u \in Units :
               body.units[u] = IF u \in shown THEN Told(job[j].of.text[u], words[u]) ELSE None
<1> DEFINE us == [u \in Units |-> IF u \in shown THEN Told(job[j].of.text[u], words[u]) ELSE None]
           ms == [g \in Gaps |-> IF g \in marked THEN place ELSE None]
<1>1. job[j].of.loose \in Texts /\ \A u \in shown : u \in Units /\ job[j].of.text[u] \in Texts
  BY DEF Sources, Present
<1>2. us \in [Units -> {None} \cup Contents]
  <2> SUFFICES ASSUME NEW u \in Units
               PROVE  (IF u \in shown THEN Told(job[j].of.text[u], words[u]) ELSE None) \in {None} \cup Contents
    OBVIOUS
  <2>1. words[u] \in Words \cup {Plain}
    OBVIOUS
  <2>2. CASE u \in shown
    BY <1>1, <2>1, <2>2, ContentsNotNone
  <2> QED
    BY <2>2
<1>3. ms \in [Gaps -> Units \cup {"aside", None}]
  OBVIOUS
<1>4. Anew(j, shown, words, marked, place) = [units |-> us, loose |-> job[j].of.loose, marks |-> ms]
  BY DEF Anew
<1>5. \A u \in Units : us[u] = IF u \in shown THEN Told(job[j].of.text[u], words[u]) ELSE None
  OBVIOUS
<1> HIDE DEF us, ms
<1> QED
  BY <1>1, <1>2, <1>3, <1>4, <1>5 DEF Bodies, Contents

\* A splice has the fragments that were given, and otherwise the units of the prior page.
LEMMA SplicedBody ==
  ASSUME NEW j \in Jobs, job[j].of \in Sources, job[j].prior \in Pages,
         NEW given \in SUBSET Present(job[j].of), NEW words \in [Units -> Words \cup {Plain}]
  PROVE  LET body == Spliced(j, words, given) IN
         /\ body \in Bodies
         /\ body.loose = job[j].prior.body.loose
         /\ \A u \in Units :
               body.units[u] = IF u \in given THEN Told(job[j].of.text[u], words[u])
                                              ELSE job[j].prior.body.units[u]
<1> DEFINE old == job[j].prior.body
           us == [u \in Units |-> IF u \in given THEN Told(job[j].of.text[u], words[u]) ELSE old.units[u]]
           ms == [g \in Gaps |-> IF old.marks[g] \in given THEN None ELSE old.marks[g]]
           Put(z, x, y) == [z EXCEPT !.units = x, !.marks = y]
<1>0. old \in Bodies
  BY DEF Pages
<1>1. \A u \in given : u \in Units /\ job[j].of.text[u] \in Texts
  BY DEF Sources, Present
<1>6. old.units \in [Units -> {None} \cup Contents] /\ old.marks \in [Gaps -> Units \cup {"aside", None}]
  BY <1>0 DEF Bodies, Contents
<1>2. us \in [Units -> {None} \cup Contents]
  <2> SUFFICES ASSUME NEW u \in Units
               PROVE  (IF u \in given THEN Told(job[j].of.text[u], words[u]) ELSE old.units[u])
                         \in {None} \cup Contents
    OBVIOUS
  <2>1. words[u] \in Words \cup {Plain} /\ old.units[u] \in {None} \cup Contents
    BY <1>6
  <2>2. CASE u \in given
    BY <1>1, <2>1, <2>2, ContentsNotNone
  <2> QED
    BY <2>1, <2>2
<1>3. ms \in [Gaps -> Units \cup {"aside", None}]
  <2> SUFFICES ASSUME NEW g \in Gaps
               PROVE  (IF old.marks[g] \in given THEN None ELSE old.marks[g]) \in Units \cup {"aside", None}
    OBVIOUS
  <2> QED
    BY <1>6
<1>4. Spliced(j, words, given) = Put(old, us, ms)
  BY DEF Spliced
<1>5. \A u \in Units : us[u] = IF u \in given THEN Told(job[j].of.text[u], words[u]) ELSE old.units[u]
  OBVIOUS
<1> HIDE DEF us, ms, old
<1>7. ASSUME NEW z \in Bodies, NEW x \in [Units -> {None} \cup Contents],
             NEW y \in [Gaps -> Units \cup {"aside", None}]
      PROVE  Put(z, x, y) \in Bodies /\ Put(z, x, y).units = x /\ Put(z, x, y).loose = z.loose
  BY DEF Bodies, Contents
<1> HIDE DEF Put
<1>8. LET b == Spliced(j, words, given) IN b \in Bodies /\ b.units = us /\ b.loose = old.loose
  BY <1>0, <1>2, <1>3, <1>4, <1>7
<1> QED
  BY <1>5, <1>8 DEF old

\* The wanted result of the gate: a sound body shows the source.
LEMMA AnewShows ==
  ASSUME NEW j \in Jobs, job[j].of \in Sources, NEW shown \in SUBSET Present(job[j].of),
         NEW words \in [Units -> Words \cup {Plain}], NEW marked, NEW place \in Units \cup {"aside", None},
         Corresponds(j, Anew(j, shown, words, marked, place))
  PROVE  Shows(Anew(j, shown, words, marked, place), job[j].of)
<1> DEFINE body == Anew(j, shown, words, marked, place)
<1>1. /\ body.loose = job[j].of.loose
      /\ \A u \in Units : body.units[u] = IF u \in shown THEN Told(job[j].of.text[u], words[u]) ELSE None
  BY AnewBody
<1>2. \A u \in Units : u \in Present(job[j].of) <=> body.units[u] # None
  BY DEF Corresponds, Present
<1>3. ASSUME NEW u \in Units
      PROVE  IF u \in Present(job[j].of) THEN body.units[u] # None /\ body.units[u].of = job[j].of.text[u]
                                         ELSE body.units[u] = None
  <2>1. CASE u \in shown
    <3>1. job[j].of.text[u] \in Texts /\ words[u] \in Words \cup {Plain}
      BY <2>1 DEF Present, Sources
    <3> QED
      BY <1>1, <1>2, <2>1, <3>1, ContentsNotNone
  <2>2. CASE u \notin shown
    BY <1>1, <1>2, <2>2
  <2> QED
    BY <2>1, <2>2
<1> QED
  BY <1>1, <1>3 DEF Shows

LEMMA SplicedShows ==
  ASSUME NEW j \in Jobs, job[j].of \in Sources, PriorShows(j), job[j].mode = "update", Drafted(j),
         NEW words \in [Units -> Words \cup {Plain}]
  PROVE  /\ job[j].modified \subseteq Present(job[j].of)
         /\ Shows(Spliced(j, words, job[j].modified), job[j].of)
<1> DEFINE src == job[j].of
           old == job[j].prior
           given == job[j].modified
           body == Spliced(j, words, given)
<1>0. /\ old \in Pages /\ old.of \in Sources /\ src \in Sources
      /\ Shows(old.body, old.of)
      /\ old.of.loose = src.loose
      /\ given = Changed(old.of, src)
      /\ Present(old.of) = Present(src)
  <2>1. old \in Pages
    BY DEF PriorShows
  <2> QED
    BY <2>1 DEF PriorShows, Pages
<1>1. given \subseteq Present(src)
  <2> SUFFICES ASSUME NEW u \in Units, old.of.text[u] # src.text[u], src.text[u] = None PROVE FALSE
    BY <1>0 DEF Changed, Present
  <2>1. u \notin Present(src)
    BY DEF Present
  <2>2. u \notin Present(old.of)
    BY <1>0, <2>1
  <2> QED
    BY <2>2 DEF Present
<1>2. /\ body.loose = old.body.loose
      /\ \A u \in Units : body.units[u] = IF u \in given THEN Told(src.text[u], words[u]) ELSE old.body.units[u]
  BY <1>0, <1>1, SplicedBody
<1> HIDE DEF body
<1>3. ASSUME NEW u \in Units
      PROVE  IF u \in Present(src) THEN body.units[u] # None /\ body.units[u].of = src.text[u]
                                   ELSE body.units[u] = None
  <2>1. CASE u \in given
    <3>1. u \in Present(src) /\ src.text[u] \in Texts /\ words[u] \in Words \cup {Plain}
      BY <1>0, <1>1, <2>1 DEF Present, Sources
    <3>2. body.units[u] = Told(src.text[u], words[u])
      BY <1>2, <2>1
    <3> QED
      BY <3>1, <3>2, ContentsNotNone
  <2>2. CASE u \notin given
    <3>1. old.of.text[u] = src.text[u]
      BY <1>0, <2>2 DEF Changed
    <3>2. body.units[u] = old.body.units[u]
      BY <1>2, <2>2
    <3>3. IF u \in Present(old.of) THEN old.body.units[u] # None /\ old.body.units[u].of = old.of.text[u]
                                   ELSE old.body.units[u] = None
      BY <1>0 DEF Shows
    <3> QED
      BY <1>0, <3>1, <3>2, <3>3
  <2> QED
    BY <2>1, <2>2
<1>4. body.loose = src.loose
  BY <1>0, <1>2 DEF Shows
<1> QED
  BY <1>1, <1>3, <1>4 DEF Shows, body

-------------------------------------------------------------------------------
(* What a step of a job does to it.                                        *)

Sound(j) == Carries(j) /\ PriorShows(j) /\ Passed(j)

OnlyJob(j) == job' \in [Jobs -> JobStates] /\ \A i \in Jobs \ {j} : job'[i] = job[i]

\* A step of a job at work: it stays sound, and does not forget whom it has met and
\* that it has asked.
Advances(j) ==
    /\ OnlyJob(j) /\ Sound(j)'
    /\ AtWork(j) /\ job'[j].beside = job[j].beside
    /\ Asked(j) => Asked(j)'

LEMMA PutJob ==
  ASSUME Typing, NEW j \in Jobs, NEW y \in JobStates, job' = [job EXCEPT ![j] = y]
  PROVE  OnlyJob(j) /\ job'[j] = y
BY DEF Typing, OnlyJob

LEMMA JobState ==
  ASSUME Typing, NEW j \in Jobs
  PROVE  /\ job[j] \in JobStates
         /\ job[j].at \in Stages /\ job[j].of \in Sources \cup {None} /\ job[j].beside \in SUBSET Jobs
         /\ job[j].mode \in {"create", "update"} /\ job[j].prior \in Pages \cup {None}
         /\ job[j].modified \in SUBSET Units /\ job[j].declared \in SUBSET Gaps
         /\ job[j].grounded \in SUBSET Gaps /\ job[j].live \in SUBSET Gaps /\ job[j].attempts \in Nat
         /\ job[j].tried \in SUBSET Attempts /\ job[j].html \in Bodies \cup {None}
         /\ job[j].expected \in SUBSET Comments /\ job[j].gated \in SUBSET (Comments \X Rows)
         /\ job[j].served \in Bodies \cup {None} /\ job[j].flagged \in BOOLEAN
         /\ job[j].open \in SUBSET Gaps /\ job[j].settled \in SUBSET Gaps
<1>1. job[j] \in JobStates
  BY DEF Typing
<1> QED
  BY <1>1 DEF JobStates

LEMMA StartStep ==
  ASSUME Inv, NEW j \in Jobs, Start(j)
  PROVE  /\ OnlyJob(j) /\ Sound(j)'
         /\ At(j, "new") /\ At(j, "prepare")' /\ job'[j].beside = Running
         /\ job'[j].grounded = job[j].grounded /\ job'[j].live = job[j].live
<1> DEFINE y == Started(job[j], source, Running)
<1>1. job' = [job EXCEPT ![j] = y]
  BY Zenon DEF Start, Started
<1>2. job[j] \in JobStates /\ source \in Sources /\ Running \in SUBSET Jobs
  BY JobState DEF Inv, Typing, Running
<1>3. /\ y \in JobStates /\ y.at = "prepare" /\ y.of = source /\ y.beside = Running
      /\ SameMode(y, job[j]) /\ SameGate(y, job[j]) /\ SameAsked(y, job[j])
  BY <1>2, StartedState
<1>4. OnlyJob(j) /\ job'[j] = y
  BY <1>1, <1>3, PutJob DEF Inv
<1> HIDE DEF y
<1>5. At(j, "new")
  BY DEF Start
<1>6. Sound(j) /\ scenario' = scenario /\ comment' = comment
  BY DEF Inv, Sound, Start
<1>7. Carries(j)'
  BY <1>3, <1>4, <1>5, <1>6, <1>2 DEF Carries, Sound, At, AtWork, SameMode, SameGate
<1>8. PriorShows(j)'
  <2>1. job[j].mode = "create"
    BY <1>5, <1>6 DEF Sound, Carries, At
  <2> QED
    BY <2>1, <1>3, <1>4, <1>6 DEF PriorShows, Sound, SameMode
<1>9. Passed(j)'
  BY <1>3, <1>4 DEF Passed, At
<1> QED
  BY <1>3, <1>4, <1>5, <1>7, <1>8, <1>9 DEF Sound, SameAsked, At

LEMMA PrepareStep ==
  ASSUME Inv, NEW j \in Jobs, Prepare(j)
  PROVE  Advances(j) /\ At(j, "plan")'
<1> DEFINE m == DecideMode(j)
           p == IF DecideMode(j) = "update" THEN page ELSE None
           d == IF DecideMode(j) = "update" THEN Changed(page.of, job[j].of) ELSE {}
           y == Prepared(job[j], m, p, d)
<1>1. job' = [job EXCEPT ![j] = y]
  BY Zenon DEF Prepare, Prepared
<1>2. job[j] \in JobStates /\ m \in {"create", "update"} /\ p \in Pages \cup {None} /\ d \in SUBSET Units
  BY JobState DEF Inv, Typing, DecideMode, Changed
<1>3. /\ y \in JobStates /\ y.at = "plan" /\ y.mode = m /\ y.prior = p /\ y.modified = d
      /\ SameStart(y, job[j]) /\ SameGate(y, job[j])
  BY <1>2, PreparedState
<1>4. OnlyJob(j) /\ job'[j] = y
  BY <1>1, <1>3, PutJob DEF Inv
<1>5. m = "update" => /\ page # None /\ page \in Pages /\ CleanPage
                      /\ Splices(page.of, job[j].of)
  BY DEF DecideMode, CleanPage, Inv, Typing
<1>6. m = "update" => p = page /\ d = Changed(page.of, job[j].of)
  OBVIOUS
<1>7. m = "create" => p = None /\ d = {}
  OBVIOUS
<1>8. At(j, "prepare") /\ Sound(j) /\ PageShows /\ scenario' = scenario /\ comment' = comment
  BY DEF Inv, Sound, Prepare
<1> HIDE DEF y, m, p, d
<1>9. Carries(j)'
  BY <1>3, <1>4, <1>8 DEF Carries, Sound, At, AtWork, SameStart, SameGate
<1>10. PriorShows(j)'
  <2>1. ~Drafted(j)'
    BY <1>3, <1>4 DEF Drafted
  <2>2. CASE m = "create"
    BY <1>3, <1>4, <1>7, <2>2 DEF PriorShows
  <2>3. CASE m = "update"
    <3>1. /\ p \in Pages /\ p # None /\ Shows(p.body, p.of) /\ p.of.loose = job[j].of.loose
          /\ d = Changed(p.of, job[j].of)
      BY <1>5, <1>6, <1>8, <2>3 DEF PageShows, Splices
    <3> QED
      BY <1>3, <1>4, <2>1, <2>3, <3>1 DEF PriorShows, SameStart
  <2> QED
    BY <1>2, <2>2, <2>3
<1>11. Passed(j)'
  BY <1>3, <1>4 DEF Passed, At
<1> QED
  BY <1>3, <1>4, <1>8, <1>9, <1>10, <1>11 DEF Advances, Sound, SameStart, At, AtWork, Asked

\* A step that keeps the mode, once the plan is settled.
LEMMA Onwards ==
  ASSUME Inv, NEW j \in Jobs, OnlyJob(j), AtWork(j), Drafted(j),
         scenario' = scenario, comment' = comment,
         SameStart(job'[j], job[j]), SameMode(job'[j], job[j]),
         job'[j].at \in Stages \ {"new", "prepare"},
         job'[j].attempts <= scenario.attempts,
         \A c \in job'[j].expected : comment[c] \in Rows,
         At(j, "publish")' => job'[j].served \in Bodies,
         Passed(j)'
  PROVE  Sound(j)'
<1>1. job[j].of \in Sources /\ PriorShows(j)
  BY DEF Inv, Carries
<1>2. Carries(j)'
  BY <1>1 DEF Carries, At, AtWork, SameStart
<1>3. PriorShows(j)'
  BY <1>1 DEF PriorShows, SameStart, SameMode
<1> QED
  BY <1>2, <1>3 DEF Sound

LEMMA ReusePlanStep ==
  ASSUME Inv, NEW j \in Jobs, ReusePlan(j)
  PROVE  Advances(j) /\ At(j, "how")'
<1> DEFINE old == Artifacts(job[j].prior.of)
           o == IF old.gaps = None THEN {} ELSE old.gaps
           y == Reused(job[j], o)
<1>1. job' = [job EXCEPT ![j] = y]
  BY Zenon DEF ReusePlan, Reused
<1>2. o \in SUBSET Gaps
  BY DEF Artifacts, Inv, Typing, Records
<1> HIDE DEF o
<1>3. /\ y \in JobStates /\ y.at = "how"
      /\ SameStart(y, job[j]) /\ SameMode(y, job[j]) /\ SameGate(y, job[j])
  BY <1>2, JobState, ReusedState DEF Inv
<1>4. OnlyJob(j) /\ job'[j] = y
  BY <1>1, <1>3, PutJob DEF Inv
<1> HIDE DEF y
<1>5. /\ At(j, "plan") /\ Sound(j) /\ scenario' = scenario /\ comment' = comment
      /\ job[j].mode = "update" /\ Present(job[j].prior.of) = Present(job[j].of)
  BY DEF Inv, Sound, ReusePlan, Reusable
<1>6. Carries(j)'
  BY <1>3, <1>4, <1>5 DEF Carries, Sound, At, AtWork, SameStart, SameGate
<1>7. PriorShows(j)'
  BY <1>3, <1>4, <1>5 DEF PriorShows, Sound, SameStart, SameMode
<1>8. Passed(j)'
  BY <1>3, <1>4 DEF Passed, At
<1> QED
  BY <1>3, <1>4, <1>5, <1>6, <1>7, <1>8 DEF Advances, Sound, SameStart, At, AtWork, Asked

LEMMA WritePlanStep ==
  ASSUME Inv, NEW j \in Jobs, WritePlan(j)
  PROVE  Advances(j) /\ ~At(j, "emit")'
<1> SUFFICES ASSUME NEW y \in JobStates, job' = [job EXCEPT ![j] = y],
                    y.at \in {"look", "fallback"}, y.mode = "create", y.prior = None, y.modified = {},
                    SameStart(y, job[j]), SameGate(y, job[j])
             PROVE  Advances(j) /\ ~At(j, "emit")'
  <2>1. ASSUME NEW declared \in SUBSET scenario.gaps, NEW grounded \in SUBSET declared,
               job' = [job EXCEPT ![j] = Planned(job[j], declared, grounded)]
        PROVE  Advances(j) /\ ~At(j, "emit")'
    <3>1. declared \in SUBSET Gaps /\ grounded \in SUBSET Gaps
      BY ScenarioTypes DEF Inv
    <3> QED
      BY <2>1, <3>1, JobState, PlannedState DEF Inv
  <2>2. ASSUME job' = [job EXCEPT ![j] = Dropped(job[j])]
        PROVE  Advances(j) /\ ~At(j, "emit")'
    BY <2>2, JobState, DroppedState DEF Inv
  <2>3. \/ \E declared \in SUBSET scenario.gaps : \E grounded \in SUBSET declared :
             job' = [job EXCEPT ![j] = Planned(job[j], declared, grounded)]
        \/ job' = [job EXCEPT ![j] = Dropped(job[j])]
    BY Zenon DEF WritePlan, Planned, Dropped
  <2> QED
    BY <2>1, <2>2, <2>3
<1>1. OnlyJob(j) /\ job'[j] = y
  BY PutJob DEF Inv
<1>2. At(j, "plan") /\ Sound(j) /\ scenario' = scenario /\ comment' = comment
  BY DEF Inv, Sound, WritePlan
<1>3. Carries(j)'
  BY <1>1, <1>2 DEF Carries, Sound, At, AtWork, SameStart, SameGate
<1>4. PriorShows(j)'
  BY <1>1 DEF PriorShows
<1>5. Passed(j)'
  BY <1>1 DEF Passed, At
<1> QED
  BY <1>1, <1>2, <1>3, <1>4, <1>5 DEF Advances, Sound, SameStart, At, AtWork, Asked

LEMMA LookStep ==
  ASSUME Inv, NEW j \in Jobs, Look(j)
  PROVE  /\ Advances(j) /\ At(j, "emit")'
         /\ job'[j].grounded = job[j].grounded
         /\ job'[j].live =
               {g \in job[j].grounded : \E q \in requests : q.gap = g /\ q.status \in LiveStatuses}
<1> DEFINE l == {g \in job[j].grounded : \E q \in requests : q.gap = g /\ q.status \in LiveStatuses}
           s == {g \in job[j].grounded : \E q \in requests : q.gap = g /\ q.status = "applied"}
           y == Looked(job[j], l, s)
<1>1. job' = [job EXCEPT ![j] = y]
  BY Zenon DEF Look, Looked
<1>2. l \in SUBSET Gaps /\ s \in SUBSET Gaps
  BY JobState DEF Inv
<1> HIDE DEF l, s
<1>3. /\ y \in JobStates /\ y.at = "emit" /\ y.live = l /\ y.grounded = job[j].grounded
      /\ SameStart(y, job[j]) /\ SameMode(y, job[j]) /\ SameGate(y, job[j])
  BY <1>2, JobState, LookedState DEF Inv
<1>4. OnlyJob(j) /\ job'[j] = y
  BY <1>1, <1>3, PutJob DEF Inv
<1> HIDE DEF y
<1>5. At(j, "look") /\ scenario' = scenario /\ comment' = comment
  BY DEF Look
<1>6. job[j].attempts <= scenario.attempts /\ \A c \in job[j].expected : comment[c] \in Rows
  BY DEF Inv, Carries
<1>7. Passed(j)' /\ ~At(j, "publish")'
  BY <1>3, <1>4 DEF Passed, At
<1>8. AtWork(j) /\ Drafted(j)
  BY <1>5 DEF At, AtWork, Drafted
<1>9. Sound(j)'
  BY <1>3, <1>4, <1>5, <1>6, <1>7, <1>8, Onwards DEF SameGate, Stages
<1> QED
  BY <1>3, <1>4, <1>5, <1>8, <1>9 DEF Advances, SameStart, At, Asked, l

LEMMA EmitStep ==
  ASSUME Inv, NEW j \in Jobs, Emit(j)
  PROVE  Advances(j) /\ At(j, "how")'
<1> DEFINE o == job[j].declared \ job[j].settled
           y == Emitted(job[j], o)
<1>1. job' = [job EXCEPT ![j] = y]
  BY Zenon DEF Emit, Emitted
<1>2. o \in SUBSET Gaps
  BY JobState DEF Inv
<1> HIDE DEF o
<1>3. /\ y \in JobStates /\ y.at = "how"
      /\ SameStart(y, job[j]) /\ SameMode(y, job[j]) /\ SameGate(y, job[j])
  BY <1>2, JobState, EmittedState DEF Inv
<1>4. OnlyJob(j) /\ job'[j] = y
  BY <1>1, <1>3, PutJob DEF Inv
<1> HIDE DEF y
<1>5. At(j, "emit") /\ scenario' = scenario /\ comment' = comment
  BY DEF Emit
<1>6. job[j].attempts <= scenario.attempts /\ \A c \in job[j].expected : comment[c] \in Rows
  BY DEF Inv, Carries
<1>7. Passed(j)' /\ ~At(j, "publish")'
  BY <1>3, <1>4 DEF Passed, At
<1>8. AtWork(j) /\ Drafted(j)
  BY <1>5 DEF At, AtWork, Drafted
<1>9. Sound(j)'
  BY <1>3, <1>4, <1>5, <1>6, <1>7, <1>8, Onwards DEF SameGate, Stages
<1> QED
  BY <1>3, <1>4, <1>5, <1>8, <1>9 DEF Advances, SameStart, At, Asked

\* An attempt that goes to publication has passed its gate.
LEMMA AttemptedStep ==
  ASSUME Inv, NEW j \in Jobs, At(j, "how"), job[j].attempts < scenario.attempts,
         NEW body \in Bodies, NEW ok \in BOOLEAN, NEW pass \in BOOLEAN, Attempted(j, body, ok, pass),
         scenario' = scenario, comment' = comment,
         ok => Shows(body, job[j].of) /\ Survives(j, body)
  PROVE  Advances(j) /\ ~At(j, "emit")'
<1> DEFINE e == {c \in Missed(body) : comment[c].unit \in job[j].modified}
           g == {<<c, comment[c]>> : c \in OpenComments}
           t == IF ok /\ pass THEN {} ELSE job[j].tried \cup {[body |-> body, valid |-> ok]}
           b == IF ok /\ pass THEN body ELSE None
           s == IF ok /\ pass THEN "publish" ELSE "how"
           y == Tried(job[j], job[j].attempts + 1, body, e, g, t, b, s)
<1>1. job' = [job EXCEPT ![j] = y]
  BY Zenon DEF Attempted, Tried
<1>2. \A c \in OpenComments : c \in Comments /\ comment[c] \in Rows
  BY DEF OpenComments, Inv, Typing
<1>3. Missed(body) \subseteq OpenComments
  BY DEF Missed
<1>4. e \in SUBSET Comments /\ g \in SUBSET (Comments \X Rows)
  BY <1>2, <1>3
<1>5. [body |-> body, valid |-> ok] \in Attempts /\ job[j].tried \in SUBSET Attempts
  BY JobState DEF Attempts, Inv
<1>6. t \in SUBSET Attempts /\ b \in Bodies \cup {None} /\ s \in {"publish", "how"}
  BY <1>5
<1>7. job[j].attempts + 1 \in Nat /\ job[j].attempts + 1 <= scenario.attempts
  BY JobState, ScenarioTypes DEF Inv
<1>8. s = "publish" => b = body /\ Shows(body, job[j].of) /\ Survives(j, body)
  OBVIOUS
<1>9. \A c \in Comments, r \in Rows : <<c, r>> \in g => c \in OpenComments /\ r = comment[c]
  OBVIOUS
<1>10. \A c \in e : comment[c] \in Rows
  BY <1>2, <1>3
<1>11. ASSUME s = "publish", NEW c \in Comments, NEW r \in Rows, <<c, r>> \in g
       PROVE  Places(body, r) \/ (r.unit \in job[j].modified /\ c \in e)
  <2>1. c \in OpenComments /\ r = comment[c]
    BY <1>9, <1>11
  <2>2. CASE Places(body, comment[c])
    BY <2>1, <2>2
  <2>3. CASE ~Places(body, comment[c])
    BY <1>8, <1>11, <2>1, <2>3 DEF Missed, Survives
  <2> QED
    BY <2>2, <2>3
<1> HIDE DEF e, g, t, b, s
<1>12. /\ y \in JobStates /\ y.at = s /\ y.attempts = job[j].attempts + 1 /\ y.expected = e /\ y.gated = g
       /\ y.served = b /\ SameStart(y, job[j]) /\ SameMode(y, job[j])
  BY <1>4, <1>6, <1>7, JobState, TriedState DEF Inv
<1>13. OnlyJob(j) /\ job'[j] = y
  BY <1>1, <1>12, PutJob DEF Inv
<1> HIDE DEF y
<1>14. Passed(j)'
  <2>1. SUFFICES ASSUME s = "publish"
                 PROVE  /\ Shows(b, job[j].of)
                        /\ \A c \in Comments, r \in Rows : <<c, r>> \in g =>
                              Places(b, r) \/ (r.unit \in job[j].modified /\ c \in e)
    BY <1>12, <1>13 DEF Passed, At, SameStart, SameMode
  <2> QED
    BY <1>8, <1>11, <2>1
<1>15. AtWork(j) /\ Drafted(j)
  BY DEF At, AtWork, Drafted
<1>16. At(j, "publish")' => job'[j].served \in Bodies
  BY <1>8, <1>12, <1>13 DEF At
<1>17. Sound(j)'
  BY <1>6, <1>7, <1>10, <1>12, <1>13, <1>14, <1>15, <1>16, Onwards DEF Stages
<1> QED
  BY <1>6, <1>12, <1>13, <1>15, <1>17 DEF Advances, SameStart, At, Asked

LEMMA AttemptStep ==
  ASSUME Inv, NEW j \in Jobs, Attempt(j)
  PROVE  Advances(j) /\ ~At(j, "emit")'
<1>1. /\ At(j, "how") /\ job[j].attempts < scenario.attempts
      /\ scenario' = scenario /\ comment' = comment
  BY DEF Attempt
<1>2. /\ AtWork(j) /\ Drafted(j) /\ job[j].of \in Sources /\ PriorShows(j)
      /\ \A c \in job[j].expected : comment[c] \in Rows
  BY <1>1 DEF At, AtWork, Drafted, Inv, Carries
<1>3. CASE job' = [job EXCEPT ![j].attempts = @ + 1]
  <2> DEFINE y == Turned(job[j], job[j].attempts + 1)
  <2>1. job' = [job EXCEPT ![j] = y]
    BY <1>3, Zenon DEF Turned
  <2>2. job[j].attempts + 1 \in Nat /\ job[j].attempts + 1 <= scenario.attempts
    BY <1>1, JobState, ScenarioTypes DEF Inv
  <2>3. /\ y \in JobStates /\ y.at = job[j].at /\ y.attempts = job[j].attempts + 1
        /\ y.expected = job[j].expected /\ SameStart(y, job[j]) /\ SameMode(y, job[j])
    BY <2>2, JobState, TurnedState DEF Inv
  <2>4. OnlyJob(j) /\ job'[j] = y
    BY <2>1, <2>3, PutJob DEF Inv
  <2> HIDE DEF y
  <2>5. Passed(j)' /\ ~At(j, "publish")' /\ ~At(j, "emit")' /\ At(j, "how")'
    BY <1>1, <2>3, <2>4 DEF Passed, At
  <2>6. Sound(j)'
    BY <1>1, <1>2, <2>2, <2>3, <2>4, <2>5, Onwards DEF Stages, At
  <2> QED
    BY <1>1, <1>2, <2>3, <2>4, <2>5, <2>6 DEF Advances, SameStart, At, Asked
<1>4. ASSUME NEW words \in [Units -> scenario.words], NEW pass \in BOOLEAN, job[j].mode = "create",
             NEW shown \in SUBSET Present(job[j].of), NEW marked \in SUBSET scenario.gaps,
             NEW place \in Present(job[j].of) \cup {"aside"},
             Attempted(j, Anew(j, shown, words, marked, place),
                       Valid(j, Anew(j, shown, words, marked, place), {}), pass)
      PROVE  Advances(j) /\ ~At(j, "emit")'
  <2> DEFINE body == Anew(j, shown, words, marked, place)
             ok == Valid(j, body, {})
  <2>1. words \in [Units -> Words \cup {Plain}] /\ place \in Units \cup {"aside", None}
    BY ScenarioTypes DEF Inv, Present
  <2>2. body \in Bodies
    BY <1>2, <2>1, AnewBody
  <2>3. ok \in BOOLEAN
    BY DEF Valid, Corresponds, Faithful, Survives
  <2>4. ok => Corresponds(j, body) /\ Survives(j, body)
    BY DEF Valid
  <2>5. ok => Shows(body, job[j].of)
    BY <1>2, <2>1, <2>4, AnewShows
  <2>6. Attempted(j, body, ok, pass)
    BY <1>4
  <2> HIDE DEF body, ok
  <2> QED
    BY <1>1, <2>2, <2>3, <2>4, <2>5, <2>6, AttemptedStep
<1>5. ASSUME NEW words \in [Units -> scenario.words], NEW pass \in BOOLEAN, job[j].mode = "update",
             NEW given \in SUBSET job[j].modified,
             Attempted(j, Spliced(j, words, given), Valid(j, Spliced(j, words, given), given), pass)
      PROVE  Advances(j) /\ ~At(j, "emit")'
  <2> DEFINE body == Spliced(j, words, given)
             ok == Valid(j, body, given)
  <2>1. words \in [Units -> Words \cup {Plain}]
    BY ScenarioTypes DEF Inv
  <2>2. /\ job[j].modified \subseteq Present(job[j].of)
        /\ Shows(Spliced(j, words, job[j].modified), job[j].of)
    BY <1>2, <1>5, <2>1, SplicedShows
  <2>3. given \in SUBSET Present(job[j].of) /\ job[j].prior \in Pages
    BY <1>2, <1>5, <2>2 DEF PriorShows
  <2>4. body \in Bodies
    BY <1>2, <2>1, <2>3, SplicedBody
  <2>5. ok \in BOOLEAN
    BY DEF Valid, Corresponds, Faithful, Survives
  <2>6. ok => given = job[j].modified /\ Survives(j, body)
    BY DEF Valid
  <2>7. ok => Shows(body, job[j].of)
    BY <2>2, <2>6
  <2>8. Attempted(j, body, ok, pass)
    BY <1>5
  <2> HIDE DEF body, ok
  <2> QED
    BY <1>1, <2>4, <2>5, <2>6, <2>7, <2>8, AttemptedStep
<1> QED
  BY <1>3, <1>4, <1>5, Zenon DEF Attempt

LEMMA DecideStep ==
  ASSUME Inv, NEW j \in Jobs, Decide(j)
  PROVE  Advances(j) /\ ~At(j, "emit")'
<1>1. At(j, "how") /\ scenario' = scenario /\ comment' = comment
  BY DEF Decide
<1>2. /\ AtWork(j) /\ Drafted(j) /\ job[j].attempts <= scenario.attempts
      /\ \A c \in job[j].expected : comment[c] \in Rows
  BY <1>1 DEF At, AtWork, Drafted, Inv, Carries
<1>3. CASE job' = [job EXCEPT ![j].at = "fallback"]
  <2> DEFINE y == Moved(job[j], "fallback")
  <2>1. job' = [job EXCEPT ![j] = y]
    BY <1>3, Zenon DEF Moved
  <2>2. "fallback" \in Stages
    BY DEF Stages
  <2>3. /\ y \in JobStates /\ y.at = "fallback"
        /\ SameStart(y, job[j]) /\ SameMode(y, job[j]) /\ SameGate(y, job[j])
    BY <2>2, JobState, MovedState DEF Inv
  <2>4. OnlyJob(j) /\ job'[j] = y
    BY <2>1, <2>3, PutJob DEF Inv
  <2> HIDE DEF y
  <2>5. Passed(j)' /\ ~At(j, "publish")'
    BY <2>3, <2>4 DEF Passed, At
  <2>6. Sound(j)'
    BY <1>1, <1>2, <2>3, <2>4, <2>5, Onwards DEF Stages, SameGate
  <2> QED
    BY <1>1, <1>2, <2>3, <2>4, <2>6 DEF Advances, SameStart, At, Asked
<1>4. ASSUME NEW a \in job[j].tried,
             job' = [job EXCEPT ![j] = [@ EXCEPT
                        !.at = "publish", !.served = a.body, !.flagged = TRUE, !.tried = {}]]
      PROVE  Advances(j) /\ ~At(j, "emit")'
  <2> DEFINE y == Chosen(job[j], a.body)
  <2>1. job' = [job EXCEPT ![j] = y]
    BY <1>4, Zenon DEF Chosen
  <2>2. a.body \in Bodies
    BY JobState DEF Inv, Attempts
  <2>3. /\ y \in JobStates /\ y.at = "publish" /\ y.served = a.body /\ y.flagged
        /\ y.attempts = job[j].attempts /\ y.expected = job[j].expected
        /\ SameStart(y, job[j]) /\ SameMode(y, job[j])
    BY <2>2, JobState, ChosenState DEF Inv
  <2>4. OnlyJob(j) /\ job'[j] = y
    BY <2>1, <2>3, PutJob DEF Inv
  <2> HIDE DEF y
  <2>5. Passed(j)' /\ job'[j].served \in Bodies
    BY <2>2, <2>3, <2>4 DEF Passed, At
  <2>6. Sound(j)'
    BY <1>1, <1>2, <2>3, <2>4, <2>5, Onwards DEF Stages
  <2> QED
    BY <1>1, <1>2, <2>3, <2>4, <2>6 DEF Advances, SameStart, At, Asked
<1> QED
  BY <1>3, <1>4, Zenon DEF Decide

LEMMA EndsStep ==
  ASSUME Inv, NEW j \in Jobs, AtWork(j), Ends(j), scenario' = scenario
  PROVE  Advances(j) /\ At(j, "done")'
<1> DEFINE y == Left(job[j])
<1>1. job' = [job EXCEPT ![j] = y]
  BY Zenon DEF Ends, Left
<1>2. /\ y \in JobStates /\ y.at = "done" /\ y.beside = job[j].beside /\ y.mode = "create" /\ y.prior = None
      /\ y.modified = {} /\ y.expected = {} /\ y.attempts = 0
  BY JobState, LeftState DEF Inv
<1>3. OnlyJob(j) /\ job'[j] = y
  BY <1>1, <1>2, PutJob DEF Inv
<1> HIDE DEF y
<1>4. 0 <= scenario.attempts
  BY ScenarioTypes DEF Inv
<1>5. Carries(j)'
  BY <1>2, <1>3, <1>4 DEF Carries, At, AtWork
<1>6. PriorShows(j)' /\ Passed(j)'
  BY <1>2, <1>3 DEF PriorShows, Passed, At
<1> QED
  BY <1>2, <1>3, <1>5, <1>6 DEF Advances, Sound, At, Asked

LEMMA PageTypes ==
  ASSUME Inv, NEW j \in Jobs, job[j].of \in Sources, NEW by \in {"maker", "deterministic"}, NEW body \in Bodies
  PROVE  /\ Page(j, by, body) \in Pages
         /\ Page(j, by, body).of = job[j].of /\ Page(j, by, body).by = by /\ Page(j, by, body).body = body
         /\ Page(j, by, body).flagged = job[j].flagged
BY JobState DEF Inv, Page, Pages

LEMMA PublishStep ==
  ASSUME Inv, NEW j \in Jobs, Publish(j)
  PROVE  /\ Advances(j) /\ ~At(j, "emit")' /\ At(j, "publish")
         /\ page' \in Pages \cup {None} /\ PageShows'
         /\ page' # page =>
               /\ page'.body = job[j].served /\ page'.of = job[j].of
               /\ job[j].expected # {} => job'[j].expected = job[j].expected
<1>1. At(j, "publish") /\ scenario' = scenario /\ comment' = comment
  BY DEF Publish
<1>2. /\ AtWork(j) /\ Drafted(j) /\ job[j].attempts <= scenario.attempts
      /\ job[j].of \in Sources /\ job[j].served \in Bodies /\ Passed(j)
      /\ \A c \in job[j].expected : comment[c] \in Rows
  BY <1>1 DEF At, AtWork, Drafted, Inv, Carries
<1> DEFINE new == Page(j, "maker", job[j].served)
<1>3. /\ new \in Pages /\ new.of = job[j].of /\ new.by = "maker" /\ new.body = job[j].served
      /\ new.flagged = job[j].flagged
  BY <1>2, PageTypes
<1>4. \/ Ends(j) /\ page' = page
      \/ page' = new /\ job[j].expected = {} /\ Ends(j)
      \/ page' = new /\ job' = [job EXCEPT ![j].at = "dispatch"]
  BY DEF Publish
<1> HIDE DEF new
<1>5. Ends(j) => Advances(j) /\ ~At(j, "emit")'
  BY <1>1, <1>2, EndsStep DEF At
<1>6. ASSUME job' = [job EXCEPT ![j].at = "dispatch"]
      PROVE  Advances(j) /\ ~At(j, "emit")' /\ job'[j].expected = job[j].expected
  <2> DEFINE y == Moved(job[j], "dispatch")
  <2>1. job' = [job EXCEPT ![j] = y]
    BY <1>6, Zenon DEF Moved
  <2>2. "dispatch" \in Stages
    BY DEF Stages
  <2>3. /\ y \in JobStates /\ y.at = "dispatch"
        /\ SameStart(y, job[j]) /\ SameMode(y, job[j]) /\ SameGate(y, job[j])
    BY <2>2, JobState, MovedState DEF Inv
  <2>4. OnlyJob(j) /\ job'[j] = y
    BY <2>1, <2>3, PutJob DEF Inv
  <2> HIDE DEF y
  <2>5. Passed(j)' /\ ~At(j, "publish")'
    BY <2>3, <2>4 DEF Passed, At
  <2>6. Sound(j)'
    BY <1>1, <1>2, <2>3, <2>4, <2>5, Onwards DEF Stages, SameGate
  <2> QED
    BY <1>1, <1>2, <2>3, <2>4, <2>6 DEF Advances, SameStart, SameGate, At, Asked
<1>7. page' = page \/ page' = new
  BY <1>4
<1>8. page' \in Pages \cup {None}
  BY <1>3, <1>7 DEF Inv, Typing
<1>9. PageShows'
  <2>1. CASE page' = page
    BY <2>1 DEF Inv, PageShows, CleanPage
  <2>2. CASE page' = new
    BY <1>1, <1>2, <1>3, <2>2 DEF PageShows, CleanPage, Passed
  <2> QED
    BY <1>7, <2>1, <2>2
<1> QED
  BY <1>1, <1>3, <1>4, <1>5, <1>6, <1>8, <1>9

LEMMA FallbackStep ==
  ASSUME Inv, NEW j \in Jobs, Fallback(j)
  PROVE  /\ Advances(j) /\ ~At(j, "emit")' /\ ~At(j, "publish")
         /\ page' \in Pages \cup {None} /\ PageShows'
<1>1. At(j, "fallback") /\ Ends(j) /\ scenario' = scenario
  BY DEF Fallback
<1>2. AtWork(j) /\ job[j].of \in Sources
  BY <1>1 DEF At, AtWork, Inv, Carries
<1>3. Advances(j) /\ ~At(j, "emit")'
  BY <1>1, <1>2, EndsStep DEF At
<1> DEFINE body == Anew(j, Present(job[j].of), [u \in Units |-> Plain], {}, None)
           new == Page(j, "deterministic", body)
<1>4. body \in Bodies
  BY <1>2, AnewBody
<1> HIDE DEF body
<1>5. new \in Pages /\ new.by = "deterministic"
  BY <1>2, <1>4, PageTypes
<1>6. page' = page \/ page' = new
  BY DEF Fallback, body
<1> HIDE DEF new
<1>7. page' \in Pages \cup {None}
  BY <1>5, <1>6 DEF Inv, Typing
<1>8. PageShows'
  BY <1>5, <1>6 DEF Inv, PageShows, CleanPage
<1> QED
  BY <1>1, <1>3, <1>7, <1>8 DEF At

LEMMA DispatchStep ==
  ASSUME Inv, NEW j \in Jobs, Dispatch(j)
  PROVE  Advances(j) /\ ~At(j, "emit")'
<1>1. At(j, "dispatch") /\ scenario' = scenario /\ comment' = comment
  BY DEF Dispatch
<1>2. /\ AtWork(j) /\ Drafted(j) /\ job[j].attempts <= scenario.attempts
      /\ \A c \in job[j].expected : comment[c] \in Rows
  BY <1>1 DEF At, AtWork, Drafted, Inv, Carries
<1>3. CASE Ends(j)
  BY <1>1, <1>2, <1>3, EndsStep DEF At
<1>4. CASE job' = [job EXCEPT ![j] = [@ EXCEPT !.at = "reanchor", !.expected = job[j].expected \cap OpenComments]]
  <2> DEFINE e == job[j].expected \cap OpenComments
             y == Sent(job[j], e)
  <2>1. job' = [job EXCEPT ![j] = y]
    BY <1>4, Zenon DEF Sent
  <2>2. e \in SUBSET Comments /\ \A c \in e : comment[c] \in Rows
    BY <1>2, JobState DEF Inv
  <2> HIDE DEF e
  <2>3. /\ y \in JobStates /\ y.at = "reanchor" /\ y.expected = e /\ y.attempts = job[j].attempts
        /\ SameStart(y, job[j]) /\ SameMode(y, job[j])
    BY <2>2, JobState, SentState DEF Inv
  <2>4. OnlyJob(j) /\ job'[j] = y
    BY <2>1, <2>3, PutJob DEF Inv
  <2> HIDE DEF y
  <2>5. Passed(j)' /\ ~At(j, "publish")'
    BY <2>3, <2>4 DEF Passed, At
  <2>6. Sound(j)'
    BY <1>1, <1>2, <2>2, <2>3, <2>4, <2>5, Onwards DEF Stages
  <2> QED
    BY <1>1, <1>2, <2>3, <2>4, <2>6 DEF Advances, SameStart, At, Asked
<1> QED
  BY <1>3, <1>4, Zenon DEF Dispatch

\* A row stays a row, whatever a verdict or a person does to it.
CommentsStay ==
    /\ comment' \in [Comments -> Rows \cup {None}]
    /\ \A c \in Comments : comment[c] \in Rows => comment'[c] \in Rows

LEMMA RowStates ==
  ASSUME NEW r \in Rows
  PROVE  /\ \A s \in {"open", "resolved", "orphaned"} : [r EXCEPT !.state = s] \in Rows
         /\ \A w \in Words \cup {Plain} : [r EXCEPT !.words = w] \in Rows
BY DEF Rows

LEMMA ReanchorStep ==
  ASSUME Inv, NEW j \in Jobs, Reanchor(j)
  PROVE  Advances(j) /\ ~At(j, "emit")' /\ ~At(j, "publish") /\ CommentsStay
<1>1. At(j, "reanchor") /\ Ends(j) /\ scenario' = scenario
  BY DEF Reanchor
<1>2. AtWork(j)
  BY <1>1 DEF At, AtWork
<1>3. Advances(j) /\ ~At(j, "emit")' /\ ~At(j, "publish")
  BY <1>1, <1>2, EndsStep DEF At
<1>4. PICK verdict \in [job[j].expected -> scenario.words \cup {"resolved", "orphaned", "none"}] :
         comment' = [c \in Comments |->
            IF c \notin DOMAIN verdict \/ verdict[c] = "none" THEN comment[c]
            ELSE IF verdict[c] = "resolved" THEN [comment[c] EXCEPT !.state = "resolved"]
            ELSE IF verdict[c] \in Words /\ Says(job[j].html, verdict[c])
            THEN [comment[c] EXCEPT !.words = verdict[c]]
            ELSE [comment[c] EXCEPT !.state = "orphaned"]]
  BY Zenon DEF Reanchor
<1>5. ASSUME NEW c \in Comments
      PROVE  /\ comment'[c] \in Rows \cup {None}
             /\ comment[c] \in Rows => comment'[c] \in Rows
  <2>1. CASE c \in job[j].expected
    <3>1. comment[c] \in Rows
      BY <2>1 DEF Inv, Carries
    <3>2. \/ comment'[c] = comment[c]
          \/ comment'[c] = [comment[c] EXCEPT !.state = "resolved"]
          \/ verdict[c] \in Words /\ comment'[c] = [comment[c] EXCEPT !.words = verdict[c]]
          \/ comment'[c] = [comment[c] EXCEPT !.state = "orphaned"]
      BY <1>4
    <3>3. /\ [comment[c] EXCEPT !.state = "resolved"] \in Rows
          /\ [comment[c] EXCEPT !.state = "orphaned"] \in Rows
          /\ verdict[c] \in Words => [comment[c] EXCEPT !.words = verdict[c]] \in Rows
      BY <3>1, RowStates
    <3> QED
      BY <3>1, <3>2, <3>3
  <2>2. CASE c \notin job[j].expected
    <3>1. DOMAIN verdict = job[j].expected
      OBVIOUS
    <3>2. comment'[c] = comment[c]
      BY <1>4, <2>2, <3>1
    <3>3. comment[c] \in Rows \cup {None}
      BY DEF Inv, Typing
    <3> QED
      BY <3>2, <3>3
  <2> QED
    BY <2>1, <2>2
<1>6. comment' \in [Comments -> Rows \cup {None}]
  <2>1. comment' = [c \in Comments |-> comment'[c]]
    BY <1>4, Zenon
  <2> QED
    BY <1>5, <2>1
<1> QED
  BY <1>3, <1>5, <1>6 DEF CommentsStay

\* What people do to the comments.
LEMMA PeopleStep ==
  ASSUME Inv, People
  PROVE  CommentsStay
<1> SUFFICES ASSUME NEW c \in Comments, NEW r \in Rows, comment' = [comment EXCEPT ![c] = r]
             PROVE  CommentsStay
  <2>1. PICK c \in scenario.comments :
           \/ \E u \in Units : AddComment(c, u)
           \/ Resolve(c) \/ Reopen(c) \/ Orphan(c)
           \/ \E words \in scenario.words : Relocate(c, words)
    BY DEF People
  <2>2. c \in Comments
    BY ScenarioTypes DEF Inv
  <2>3. comment[c] # None => comment[c] \in Rows
    BY <2>2 DEF Inv, Typing
  <2>4. ASSUME NEW u \in Units, AddComment(c, u)
        PROVE  \E r \in Rows : comment' = [comment EXCEPT ![c] = r]
    <3>1. page \in Pages /\ page.body.units[u] # None
      BY <2>4 DEF AddComment, Inv, Typing
    <3>2. page.body.units[u] \in {None} \cup Contents
      BY <3>1 DEF Pages, Bodies, Contents
    <3>3. page.body.units[u].words \in Words \cup {Plain}
      BY <3>1, <3>2 DEF Contents
    <3>4. [state |-> "open", unit |-> u, words |-> page.body.units[u].words] \in Rows
      BY <3>3 DEF Rows
    <3> QED
      BY <2>4, <3>4 DEF AddComment, Set
  <2>5. ASSUME NEW s \in {"open", "resolved", "orphaned"}, comment[c] # None,
               comment' = [comment EXCEPT ![c] = [comment[c] EXCEPT !.state = s]]
        PROVE  \E r \in Rows : comment' = [comment EXCEPT ![c] = r]
    <3>1. [comment[c] EXCEPT !.state = s] \in Rows
      BY <2>3, <2>5, RowStates
    <3> QED
      BY <2>5, <3>1, Zenon
  <2>6. ASSUME NEW words \in scenario.words, Relocate(c, words)
        PROVE  \E r \in Rows : comment' = [comment EXCEPT ![c] = r]
    <3>1. words \in Words \cup {Plain}
      BY ScenarioTypes DEF Inv
    <3>2. [comment[c] EXCEPT !.words = words] \in Rows
      BY <2>3, <2>6, <3>1, RowStates DEF Relocate
    <3> QED
      BY <2>6, <3>2, Zenon DEF Relocate, Set
  <2>7. Resolve(c) \/ Reopen(c) \/ Orphan(c) => \E r \in Rows : comment' = [comment EXCEPT ![c] = r]
    BY <2>5, Zenon DEF Resolve, Reopen, Orphan, Set
  <2> QED
    BY <2>1, <2>2, <2>4, <2>6, <2>7
<1> QED
  BY DEF CommentsStay, Inv, Typing

-------------------------------------------------------------------------------
(* The invariant is kept.                                                  *)

LEMMA JobSteps ==
  ASSUME Inv, NEW j \in Jobs, Work(j)
  PROVE  /\ Advances(j)
         /\ CommentsStay /\ page' \in Pages \cup {None} /\ PageShows'
         /\ At(j, "publish") /\ ~At(j, "publish")' => Publish(j)
         /\ At(j, "emit")' => Look(j)
<1>0. page' = page => page' \in Pages \cup {None} /\ PageShows'
  BY DEF Inv, Typing, PageShows, CleanPage
<1>00. comment' = comment => CommentsStay
  BY DEF Inv, Typing, CommentsStay
<1>1. CASE Prepare(j)
  BY <1>0, <1>00, <1>1, PrepareStep DEF Prepare, At
<1>2. CASE ReusePlan(j)
  BY <1>0, <1>00, <1>2, ReusePlanStep DEF ReusePlan, At
<1>3. CASE WritePlan(j)
  BY <1>0, <1>00, <1>3, WritePlanStep DEF WritePlan, At
<1>4. CASE Look(j)
  BY <1>0, <1>00, <1>4, LookStep DEF Look, At
<1>5. CASE Emit(j)
  BY <1>0, <1>00, <1>5, EmitStep DEF Emit, At
<1>6. CASE Attempt(j)
  <2>1. At(j, "how") /\ page' = page /\ comment' = comment
    BY <1>6 DEF Attempt
  <2> QED
    BY <1>0, <1>00, <1>6, <2>1, AttemptStep DEF At
<1>7. CASE Decide(j)
  <2>1. At(j, "how") /\ page' = page /\ comment' = comment
    BY <1>7 DEF Decide
  <2> QED
    BY <1>0, <1>00, <1>7, <2>1, DecideStep DEF At
<1>8. CASE Publish(j)
  BY <1>00, <1>8, PublishStep DEF Publish
<1>9. CASE Fallback(j)
  BY <1>00, <1>9, FallbackStep DEF Fallback
<1>10. CASE Dispatch(j)
  BY <1>0, <1>00, <1>10, DispatchStep DEF Dispatch, At
<1>11. CASE Reanchor(j)
  BY <1>0, <1>11, ReanchorStep DEF Reanchor
<1> QED
  BY <1>1, <1>2, <1>3, <1>4, <1>5, <1>6, <1>7, <1>8, <1>9, <1>10, <1>11 DEF Work

\* Sources, directories and requests keep their types whoever writes them.
LEMMA SourceTypes ==
  ASSUME Typing, source' \in Revised(source)
  PROVE  source' \in Sources
BY DEF Revised, Sources

LEMMA RecordTypes ==
  ASSUME Typing, NEW d \in Sources, NEW r \in Records, dir' = Kept(d, r)
  PROVE  DOMAIN dir' \subseteq Sources /\ \A e \in DOMAIN dir' : dir'[e] \in Records
<1>1. DOMAIN dir' = DOMAIN dir \cup {d}
  BY DEF Kept
<1>2. \A e \in DOMAIN dir' : dir'[e] = IF e = d THEN r ELSE dir[e]
  BY DEF Kept
<1> QED
  BY <1>1, <1>2 DEF Typing

LEMMA ArtifactTypes ==
  ASSUME Typing, NEW d
  PROVE  /\ Artifacts(d) \in Records
         /\ \A p \in {None, "written"} : [Artifacts(d) EXCEPT !.plan = p] \in Records
         /\ \A g \in SUBSET Gaps : [Artifacts(d) EXCEPT !.gaps = g] \in Records
<1>1. [plan |-> None, gaps |-> None] \in Records
  BY DEF Records
<1>2. Artifacts(d) \in Records
  BY <1>1 DEF Artifacts, Typing
<1>3. ASSUME NEW z \in Records
      PROVE  /\ \A p \in {None, "written"} : [z EXCEPT !.plan = p] \in Records
             /\ \A g \in SUBSET Gaps : [z EXCEPT !.gaps = g] \in Records
  BY DEF Records
<1> QED
  BY <1>2, <1>3

LEMMA DirStep ==
  ASSUME Inv, [Next]_vars
  PROVE  DOMAIN dir' \subseteq Sources /\ \A d \in DOMAIN dir' : dir'[d] \in Records
<1>0. CASE dir' = dir
  BY <1>0 DEF Inv, Typing
<1>1. ASSUME NEW j \in Jobs, Prepare(j)
      PROVE  DOMAIN dir' \subseteq Sources /\ \A d \in DOMAIN dir' : dir'[d] \in Records
  <2>1. job[j].of \in Sources
    BY <1>1 DEF Prepare, Inv, Carries, At, AtWork
  <2>2. Artifacts(job[j].of) \in Records
    BY ArtifactTypes DEF Inv
  <2> QED
    BY <1>1, <2>1, <2>2, RecordTypes DEF Prepare, Inv
<1>2. ASSUME NEW j \in Jobs, ReusePlan(j)
      PROVE  DOMAIN dir' \subseteq Sources /\ \A d \in DOMAIN dir' : dir'[d] \in Records
  <2>1. job[j].of \in Sources
    BY <1>2 DEF ReusePlan, Inv, Carries, At, AtWork
  <2> DEFINE p == Artifacts(job[j].prior.of).plan
  <2>2. p \in {None, "written"}
    BY ArtifactTypes DEF Inv, Records
  <2>3. dir' = Kept(job[j].of, [Artifacts(job[j].of) EXCEPT !.plan = p])
    BY <1>2 DEF ReusePlan
  <2> HIDE DEF p
  <2>4. [Artifacts(job[j].of) EXCEPT !.plan = p] \in Records
    BY <2>2, ArtifactTypes DEF Inv
  <2> QED
    BY <2>1, <2>3, <2>4, RecordTypes DEF Inv
<1>3. ASSUME NEW j \in Jobs, WritePlan(j)
      PROVE  DOMAIN dir' \subseteq Sources /\ \A d \in DOMAIN dir' : dir'[d] \in Records
  <2>1. job[j].of \in Sources
    BY <1>3 DEF WritePlan, Inv, Carries, At, AtWork
  <2>2. [Artifacts(job[j].of) EXCEPT !.plan = "written"] \in Records
    BY ArtifactTypes DEF Inv
  <2>3. dir' = dir \/ dir' = Kept(job[j].of, [Artifacts(job[j].of) EXCEPT !.plan = "written"])
    BY <1>3 DEF WritePlan
  <2> QED
    BY <1>0, <2>1, <2>2, <2>3, RecordTypes DEF Inv
<1>4. ASSUME NEW j \in Jobs, Emit(j)
      PROVE  DOMAIN dir' \subseteq Sources /\ \A d \in DOMAIN dir' : dir'[d] \in Records
  <2>1. job[j].of \in Sources
    BY <1>4 DEF Emit, Inv, Carries, At, AtWork
  <2> DEFINE g == job[j].declared \ job[j].settled
  <2>2. g \in SUBSET Gaps
    BY JobState DEF Inv
  <2>3. dir' = Kept(job[j].of, [Artifacts(job[j].of) EXCEPT !.gaps = g])
    BY <1>4 DEF Emit
  <2> HIDE DEF g
  <2>4. [Artifacts(job[j].of) EXCEPT !.gaps = g] \in Records
    BY <2>2, ArtifactTypes DEF Inv
  <2> QED
    BY <2>1, <2>3, <2>4, RecordTypes DEF Inv
<1>5. CASE Wipe
  BY <1>5 DEF Wipe
<1>6. ASSUME NEW j \in Jobs, Start(j) \/ Work(j)
      PROVE  dir' = dir \/ Prepare(j) \/ ReusePlan(j) \/ WritePlan(j) \/ Emit(j)
  BY <1>6 DEF Start, Work, Look, Attempt, Decide, Publish, Fallback, Dispatch, Reanchor
<1>7. CASE People \/ Edit \/ (\E q \in requests : Review(q)) \/ UNCHANGED vars
  BY <1>0, <1>7 DEF People, Edit, Review, vars
<1> QED
  BY <1>0, <1>1, <1>2, <1>3, <1>4, <1>5, <1>6, <1>7, ScenarioTypes DEF Next, Inv

LEMMA RequestStep ==
  ASSUME Inv, [Next]_vars
  PROVE  requests' \subseteq Requests
<1>0. requests \subseteq Requests
  BY DEF Inv, Typing
<1>1. ASSUME NEW j \in Jobs, Emit(j)
      PROVE  requests' \subseteq Requests
  <2>1. job[j].grounded \subseteq Gaps
    BY JobState DEF Inv
  <2> QED
    BY <1>0, <1>1, <2>1 DEF Emit, Requests
<1>2. ASSUME NEW q \in requests, Review(q)
      PROVE  requests' \subseteq Requests
  <2>1. \A s \in {"applied", "conflicted"} : [q EXCEPT !.status = s] \in Requests
    BY <1>0 DEF Requests
  <2> QED
    BY <1>0, <1>2, <2>1 DEF Review, Status
<1>3. ASSUME NEW j \in Jobs, Start(j) \/ Work(j)
      PROVE  requests' = requests \/ Emit(j)
  BY <1>3 DEF Start, Work, Prepare, ReusePlan, WritePlan, Look, Attempt, Decide, Publish, Fallback, Dispatch,
              Reanchor
<1>4. CASE People \/ Edit \/ Wipe \/ UNCHANGED vars
  BY <1>0, <1>4 DEF People, Edit, Wipe, vars
<1> QED
  BY <1>0, <1>1, <1>2, <1>3, <1>4, ScenarioTypes DEF Next, Inv

LEMMA SourceStep ==
  ASSUME Inv, [Next]_vars
  PROVE  scenario' = scenario /\ source' \in Sources /\ edits' \in 0 .. scenario.edits
<1>0. source \in Sources /\ edits \in 0 .. scenario.edits /\ scenario.edits \in Nat
  BY ScenarioTypes DEF Inv, Typing
<1>1. ASSUME NEW j \in Jobs, Start(j) \/ Work(j)
      PROVE  scenario' = scenario /\ source' = source /\ edits' = edits
  BY <1>1 DEF Start, Work, Prepare, ReusePlan, WritePlan, Look, Emit, Attempt, Decide, Publish, Fallback,
              Dispatch, Reanchor
<1>2. CASE Edit
  BY <1>0, <1>2, SourceTypes DEF Edit, Inv
<1>3. ASSUME NEW q \in requests, Review(q)
      PROVE  scenario' = scenario /\ source' \in Sources /\ edits' \in 0 .. scenario.edits
  BY <1>0, <1>3, SourceTypes DEF Review, Inv
<1>4. CASE People \/ Wipe \/ UNCHANGED vars
  BY <1>0, <1>4 DEF People, Wipe, vars
<1> QED
  BY <1>0, <1>1, <1>2, <1>3, <1>4, ScenarioTypes DEF Next, Inv

\* Which job a step is of, if it is of one.
LEMMA Movers ==
  ASSUME Inv, [Next]_vars
  PROVE  \/ \E j \in Jobs : Start(j) \/ Work(j)
         \/ /\ job' = job /\ page' = page
            /\ CommentsStay
<1>1. comment' = comment => CommentsStay
  BY DEF CommentsStay, Inv, Typing
<1> QED
  BY <1>1, PeopleStep, ScenarioTypes DEF Next, Inv, People, Edit, Wipe, Review, vars

LEMMA InvInit == Init => Inv
<1> SUFFICES ASSUME Init PROVE Inv
  OBVIOUS
<1>1. scenario.edits \in Nat /\ scenario.attempts \in Nat
  BY PageConstants DEF Init
<1>2. source \in Sources
  BY DEF Init, Sources
<1>3. \A j \in Jobs : job[j] = NewJob
  BY DEF Init
<1>4. Typing
  BY <1>1, <1>2, NewState DEF Init, Typing
<1>5. PageShows
  BY DEF Init, PageShows, CleanPage
<1>6. ASSUME NEW j \in Jobs
      PROVE  Carries(j) /\ PriorShows(j) /\ Passed(j)
  BY <1>1, <1>3, NewState DEF Carries, PriorShows, Passed, At, AtWork
<1> QED
  BY <1>4, <1>5, <1>6 DEF Inv

LEMMA InvStep == Inv /\ [Next]_vars => Inv'
<1> SUFFICES ASSUME Inv, [Next]_vars PROVE Inv'
  OBVIOUS
<1>0. scenario \in Scenarios /\ scenario' = scenario
  BY SourceStep DEF Inv, Typing
<1>1. SUFFICES ASSUME page' \in Pages \cup {None}, PageShows', CommentsStay, job' \in [Jobs -> JobStates],
                      \A j \in Jobs : Sound(j)'
               PROVE  Inv'
  <2>0. page' = page => page' \in Pages \cup {None} /\ PageShows'
    BY DEF Inv, Typing, PageShows, CleanPage
  <2>1. ASSUME NEW i \in Jobs, job'[i] = job[i], CommentsStay
        PROVE  Sound(i)'
    <3>1. Carries(i) /\ PriorShows(i) /\ Passed(i)
      BY DEF Inv
    <3>2. job[i].expected \subseteq Comments
      BY JobState DEF Inv
    <3>3. Carries(i)'
      BY <1>0, <2>1, <3>1, <3>2 DEF Carries, At, AtWork, CommentsStay
    <3>4. PriorShows(i)' /\ Passed(i)'
      BY <2>1, <3>1 DEF PriorShows, Passed, At, Drafted
    <3> QED
      BY <3>3, <3>4 DEF Sound
  <2>2. ASSUME NEW j \in Jobs, Start(j)
        PROVE  Inv'
    <3>1. OnlyJob(j) /\ Sound(j)'
      BY <2>2, StartStep
    <3>2. page' = page /\ comment' = comment
      BY <2>2 DEF Start
    <3>3. CommentsStay
      BY <3>2 DEF CommentsStay, Inv, Typing
    <3>4. \A i \in Jobs : Sound(i)'
      BY <2>1, <3>1, <3>3 DEF OnlyJob
    <3> QED
      BY <1>1, <2>0, <3>1, <3>2, <3>3, <3>4 DEF OnlyJob
  <2>3. ASSUME NEW j \in Jobs, Work(j)
        PROVE  Inv'
    <3>1. Advances(j) /\ CommentsStay /\ page' \in Pages \cup {None} /\ PageShows'
      BY <2>3, JobSteps
    <3>2. \A i \in Jobs : Sound(i)'
      BY <2>1, <3>1 DEF Advances, OnlyJob
    <3> QED
      BY <1>1, <3>1, <3>2 DEF Advances, OnlyJob
  <2>4. CASE job' = job /\ page' = page /\ CommentsStay
    <3>1. \A i \in Jobs : Sound(i)'
      BY <2>1, <2>4
    <3>2. job' \in [Jobs -> JobStates]
      BY <2>4 DEF Inv, Typing
    <3> QED
      BY <1>1, <2>0, <2>4, <3>1, <3>2
  <2> QED
    BY <2>2, <2>3, <2>4, Movers
<1>2. Typing'
  BY <1>0, <1>1, DirStep, RequestStep, SourceStep DEF Typing, CommentsStay
<1> QED
  BY <1>1, <1>2 DEF Inv, Sound

LEMMA InvHolds == Spec => []Inv
BY InvInit, InvStep, PTL DEF Spec

-------------------------------------------------------------------------------
(* Who asks has met whoever asked before.                                  *)

LEMMA AskingInit == Init => Asking
<1> SUFFICES ASSUME Init PROVE Asking
  OBVIOUS
<1>1. requests = {} /\ \A j \in Jobs : job[j] = NewJob
  BY DEF Init
<1>2. \A j \in Jobs : job[j].at = "new"
  BY <1>1, NewState
<1> QED
  BY <1>1, <1>2 DEF Asking, Meeting, Single, Unseen, ProposedOnce, AtWork, At

LEMMA RequestTypes ==
  ASSUME Inv, NEW q \in requests
  PROVE  q \in Requests /\ q.gap \in Gaps /\ q.by \in Jobs /\ q.status \in LiveStatuses
<1>1. q \in Requests
  BY DEF Inv, Typing
<1> QED
  BY <1>1 DEF Requests, LiveStatuses

\* A job keeps whom it has met once it is started, and that it has asked.
Keeps(i) ==
    /\ ~At(i, "new") => job'[i].beside = job[i].beside
    /\ Asked(i) => Asked(i)'

LEMMA Stays ==
  ASSUME Inv, [Next]_vars, NEW i \in Jobs
  PROVE  Keeps(i)
<1>1. ASSUME job'[i] = job[i] PROVE Keeps(i)
  BY <1>1 DEF Keeps, Asked
<1>2. ASSUME NEW j \in Jobs, Start(j) PROVE Keeps(i)
  <2>1. OnlyJob(j) /\ At(j, "new")
    BY <1>2, StartStep
  <2>2. ~Asked(j)
    BY <2>1 DEF Asked, At
  <2> QED
    BY <1>1, <2>1, <2>2 DEF OnlyJob, Keeps
<1>3. ASSUME NEW j \in Jobs, Work(j) PROVE Keeps(i)
  <2>1. Advances(j)
    BY <1>3, JobSteps
  <2> QED
    BY <1>1, <2>1 DEF Advances, OnlyJob, Keeps
<1> QED
  BY <1>1, <1>2, <1>3, Movers

LEMMA MetKept ==
  ASSUME Inv, [Next]_vars, NEW i \in Jobs, NEW k \in Jobs, ~At(i, "new"), ~At(k, "new"), Met(i, k)
  PROVE  Met(i, k)'
BY Stays DEF Keeps, Met

LEMMA MeetingStep ==
  ASSUME Inv, Meeting, [Next]_vars
  PROVE  Meeting'
<1> SUFFICES ASSUME NEW i \in Jobs, NEW k \in Jobs, i # k, AtWork(i)', AtWork(k)'
             PROVE  Met(i, k)'
  BY DEF Meeting
<1>1. ASSUME AtWork(i), AtWork(k)
      PROVE  Met(i, k)'
  <2>1. ~At(i, "new") /\ ~At(k, "new")
    BY <1>1 DEF At, AtWork
  <2> QED
    BY <1>1, <2>1, MetKept DEF Meeting
<1>2. ASSUME NEW j \in Jobs, Start(j)
      PROVE  Met(i, k)'
  <2>1. OnlyJob(j) /\ job'[j].beside = Running
    BY <1>2, StartStep
  <2>2. ASSUME NEW x \in Jobs \ {j}, AtWork(x)' PROVE AtWork(x) /\ x \in Running
    BY <2>1, <2>2 DEF OnlyJob, AtWork, Running
  <2> QED
    BY <1>1, <2>1, <2>2 DEF Met
<1>3. ASSUME NEW j \in Jobs, Work(j)
      PROVE  Met(i, k)'
  <2>1. Advances(j)
    BY <1>3, JobSteps
  <2> QED
    BY <1>1, <2>1 DEF Advances, OnlyJob, AtWork
<1>4. CASE job' = job
  BY <1>1, <1>4 DEF AtWork
<1> QED
  BY <1>2, <1>3, <1>4, Movers

\* Each request there is was there before, as another status perhaps, or was proposed
\* by this step.
Was(p, q) == q \in requests /\ q.gap = p.gap /\ q.by = p.by

Proposes(p, j) == Emit(j) /\ p.by = j /\ p.gap \in job[j].grounded \ job[j].live

LEMMA Origins ==
  ASSUME Inv, [Next]_vars
  PROVE  /\ \A p \in requests' : (\E q \in requests : Was(p, q)) \/ (\E j \in Jobs : Proposes(p, j))
         /\ \A p, r \in requests' : p # r =>
               \/ \E q, s \in requests : Was(p, q) /\ Was(r, s) /\ q # s
               \/ \E j \in Jobs, q \in requests : Proposes(p, j) /\ Was(r, q)
               \/ \E j \in Jobs, q \in requests : Proposes(r, j) /\ Was(p, q)
               \/ \E j \in Jobs : Proposes(p, j) /\ Proposes(r, j) /\ p.gap # r.gap
<1> DEFINE Goal == /\ \A p \in requests' : (\E q \in requests : Was(p, q)) \/ (\E j \in Jobs : Proposes(p, j))
                   /\ \A p, r \in requests' : p # r =>
                         \/ \E q, s \in requests : Was(p, q) /\ Was(r, s) /\ q # s
                         \/ \E j \in Jobs, q \in requests : Proposes(p, j) /\ Was(r, q)
                         \/ \E j \in Jobs, q \in requests : Proposes(r, j) /\ Was(p, q)
                         \/ \E j \in Jobs : Proposes(p, j) /\ Proposes(r, j) /\ p.gap # r.gap
<1>0. CASE requests' = requests
  BY <1>0 DEF Was
<1>1. ASSUME NEW j \in Jobs, Emit(j)
      PROVE  Goal
  <2>1. ASSUME NEW p \in requests', p \notin requests
        PROVE  Proposes(p, j) /\ p = [gap |-> p.gap, by |-> j, status |-> "proposed"]
    <3>1. PICK g \in job[j].grounded \ job[j].live : p = [gap |-> g, by |-> j, status |-> "proposed"]
      BY <1>1, <2>1 DEF Emit
    <3> QED
      BY <1>1, <3>1 DEF Proposes
  <2>2. ASSUME NEW p \in requests', NEW r \in requests', p # r, p \notin requests, r \notin requests
        PROVE  p.gap # r.gap
    BY <2>1, <2>2
  <2>3. \A p \in requests : Was(p, p)
    BY DEF Was
  <2> QED
    BY <2>1, <2>2, <2>3
<1>2. ASSUME NEW q \in requests, Review(q)
      PROVE  Goal
  <2>1. PICK s \in {"applied", "conflicted"} : requests' = (requests \ {q}) \cup {[q EXCEPT !.status = s]}
    BY <1>2 DEF Review, Status
  <2> DEFINE new == [q EXCEPT !.status = s]
  <2>2. new.gap = q.gap /\ new.by = q.by
    BY RequestTypes DEF Requests
  <2>3. Was(new, q) /\ \A p \in requests : Was(p, p)
    BY <2>2 DEF Was
  <2>4. requests' = (requests \ {q}) \cup {new}
    BY <2>1
  <2> HIDE DEF new
  <2> QED
    BY <2>3, <2>4
<1>3. ASSUME NEW j \in Jobs, Start(j) \/ Work(j)
      PROVE  requests' = requests \/ Emit(j)
  BY <1>3 DEF Start, Work, Prepare, ReusePlan, WritePlan, Look, Attempt, Decide, Publish, Fallback, Dispatch,
              Reanchor
<1>4. CASE People \/ Edit \/ Wipe \/ UNCHANGED vars
  BY <1>0, <1>4 DEF People, Edit, Wipe, vars
<1> QED
  BY <1>0, <1>1, <1>2, <1>3, <1>4, ScenarioTypes DEF Next, Inv

LEMMA Proposer ==
  ASSUME Inv, NEW j \in Jobs, Emit(j)
  PROVE  /\ ~Asked(j) /\ Asked(j)' /\ At(j, "emit") /\ AtWork(j) /\ ~At(j, "emit")'
         /\ OnlyJob(j)
<1>1. At(j, "emit")
  BY DEF Emit
<1>2. Advances(j) /\ At(j, "how")'
  BY EmitStep
<1> QED
  BY <1>1, <1>2 DEF At, Asked, AtWork, Advances

LEMMA SingleStep ==
  ASSUME Inv, Single, [Next]_vars
  PROVE  Single'
<1>1. ASSUME NEW q \in requests
      PROVE  Asked(q.by) /\ Asked(q.by)'
  BY RequestTypes, Stays DEF Single, Keeps
<1>2. ASSUME NEW p \in requests'
      PROVE  Asked(p.by)'
  BY <1>1, Origins, Proposer DEF Was, Proposes
<1>3. ASSUME NEW p \in requests', NEW r \in requests', p.gap = r.gap, p.by = r.by, p # r
      PROVE  FALSE
  <2>1. ASSUME NEW j \in Jobs, NEW q \in requests, NEW x, NEW y, Proposes(x, j), Was(y, q), x.by = y.by
        PROVE  FALSE
    BY <1>1, <2>1, Proposer DEF Was, Proposes
  <2>2. ASSUME NEW q \in requests, NEW s \in requests, Was(p, q), Was(r, s), q # s
        PROVE  FALSE
    BY <1>3, <2>2 DEF Was, Single
  <2> QED
    BY <1>3, <2>1, <2>2, Origins
<1> QED
  BY <1>2, <1>3 DEF Single

LEMMA UnseenStep ==
  ASSUME Inv, Asking, [Next]_vars, NEW k \in Jobs
  PROVE  Unseen(k)'
<1> SUFFICES ASSUME At(k, "emit")', NEW p \in requests', p.gap \in job'[k].grounded \ job'[k].live
             PROVE  Met(p.by, k)'
  BY DEF Unseen
<1>1. CASE Look(k)
  <2>1. job'[k].live = {g \in job'[k].grounded : \E q \in requests : q.gap = g /\ q.status \in LiveStatuses}
    BY <1>1, LookStep
  <2>2. p \in requests /\ p.status \in LiveStatuses
    BY <1>1, RequestTypes DEF Look
  <2> QED
    BY <2>1, <2>2
<1>2. CASE job'[k] = job[k]
  <2>1. At(k, "emit") /\ AtWork(k) /\ ~At(k, "new")
    BY <1>2 DEF At, AtWork
  <2>2. ASSUME NEW q \in requests, Was(p, q)
        PROVE  Met(p.by, k)'
    <3>1. Met(q.by, k) /\ q.by \in Jobs /\ ~At(q.by, "new")
      BY <1>2, <2>1, <2>2, RequestTypes DEF Asking, Unseen, Was, Single, Asked, At
    <3> QED
      BY <2>1, <2>2, <3>1, MetKept DEF Was
  <2>3. ASSUME NEW j \in Jobs, Proposes(p, j)
        PROVE  Met(p.by, k)'
    <3>1. AtWork(j) /\ ~At(j, "new") /\ ~At(j, "emit")'
      BY <2>3, Proposer DEF Proposes, AtWork, At
    <3>2. j # k
      BY <3>1
    <3>3. Met(j, k)
      BY <2>1, <3>1, <3>2 DEF Asking, Meeting
    <3>4. Met(j, k)'
      BY <2>1, <3>1, <3>3, MetKept
    <3> QED
      BY <2>3, <3>4 DEF Proposes
  <2> QED
    BY <2>2, <2>3, Origins
<1>3. ASSUME NEW j \in Jobs, Start(j) PROVE job'[k] = job[k]
  BY <1>3, StartStep DEF OnlyJob, At
<1>4. ASSUME NEW j \in Jobs, Work(j) PROVE job'[k] = job[k] \/ Look(k)
  BY <1>4, JobSteps DEF Advances, OnlyJob
<1> QED
  BY <1>1, <1>2, <1>3, <1>4, Movers

LEMMA ProposedStep ==
  ASSUME Inv, Asking, [Next]_vars
  PROVE  ProposedOnce'
<1> SUFFICES ASSUME NEW p \in requests', NEW r \in requests', p # r, p.gap = r.gap
             PROVE  Met(p.by, r.by)'
  BY DEF ProposedOnce, Met
<1>1. ASSUME NEW q \in requests
      PROVE  q.by \in Jobs /\ Asked(q.by) /\ ~At(q.by, "new")
  BY RequestTypes DEF Asking, Single, Asked, At
<1>2. ASSUME NEW q \in requests, NEW s \in requests, Was(p, q), Was(r, s), q # s
      PROVE  Met(p.by, r.by)'
  <2>1. Met(q.by, s.by)
    BY <1>2 DEF Asking, ProposedOnce, Met, Was
  <2>2. Met(q.by, s.by)'
    BY <1>1, <2>1, MetKept
  <2> QED
    BY <1>2, <2>2 DEF Was
<1>3. ASSUME NEW j \in Jobs, NEW q \in requests, NEW x, NEW y, Proposes(x, j), Was(y, q), x.gap = y.gap
      PROVE  Met(y.by, x.by)' /\ Met(x.by, y.by)'
  <2>1. At(j, "emit") /\ ~At(j, "new")
    BY <1>3, Proposer DEF Proposes, At
  <2>2. Met(q.by, j)
    BY <1>3, <2>1 DEF Asking, Unseen, Proposes, Was
  <2>3. Met(q.by, j)'
    BY <1>1, <2>1, <2>2, MetKept
  <2> QED
    BY <1>3, <2>3 DEF Proposes, Was, Met
<1> QED
  BY <1>2, <1>3, Origins

LEMMA AskingStep == Inv /\ Asking /\ [Next]_vars => Asking'
<1> SUFFICES ASSUME Inv, Asking, [Next]_vars PROVE Asking'
  OBVIOUS
<1>1. Meeting' /\ Single'
  BY MeetingStep, SingleStep DEF Asking
<1> QED
  BY <1>1, UnseenStep, ProposedStep DEF Asking

-------------------------------------------------------------------------------
(* The theorems.                                                           *)

\* Every state is of the declared types, the attempts of a job and the changes of the
\* source within their limits, for any number of jobs at work at once.
THEOREM TypeCorrect == Spec => []TypeOK
<1>1. ASSUME Inv PROVE TypeOK
  <2>1. source \in Sources /\ edits \in 0 .. scenario.edits /\ DOMAIN dir \subseteq Sources
    BY <1>1 DEF Inv, Typing
  <2>2. page # None =>
          /\ page.of \in Sources /\ page.by \in {"maker", "deterministic"}
          /\ page.flagged \in BOOLEAN /\ page.body \in Bodies
    BY <1>1 DEF Inv, Typing, Pages
  <2>3. \A q \in requests : q.gap \in Gaps /\ q.by \in Jobs /\ q.status \in {"applied", "conflicted", "proposed"}
    BY <1>1 DEF Inv, Typing, Requests
  <2>4. \A c \in Comments : comment[c] # None =>
          comment[c] \in [state : {"open", "resolved", "orphaned"}, unit : Units, words : Words \cup {Plain}]
    BY <1>1 DEF Inv, Typing, Rows
  <2>5. ASSUME NEW j \in Jobs
        PROVE  job[j].of \in Sources \cup {None} /\ job[j].attempts \in 0 .. scenario.attempts
    BY <1>1, JobState, ScenarioTypes DEF Inv, Carries
  <2> QED
    BY <2>1, <2>2, <2>3, <2>4, <2>5 DEF TypeOK
<1> QED
  BY <1>1, InvHolds, PTL

\* A clean page shows the source it is stamped with, for any units and any number of
\* edits and of splices onto splices: decide_mode and _reuse_prior_what let an update
\* start only from a page that shows its own source, with the same units.
THEOREM CleanPagesShowTheirSource == Spec => []CleanPageShowsSource
<1>1. ASSUME Inv PROVE CleanPageShowsSource
  BY <1>1 DEF Inv, PageShows, Shows, CleanPageShowsSource
<1> QED
  BY <1>1, InvHolds, PTL

\* _existing_gap_cr keeps a gap from being proposed twice, for any number of jobs: only
\* jobs at work side by side can both propose it.
THEOREM GapsAreProposedOnce == Spec => []ProposedOnce
<1>1. Spec => []Asking
  BY AskingInit, AskingStep, InvHolds, PTL DEF Spec
<1>2. Asking => ProposedOnce
  BY DEF Asking
<1> QED
  BY <1>1, <1>2, PTL

\* The gate check_comment_survival keeps the place of every comment it has seen open
\* and that nobody has touched since; what an update may displace goes to re-anchoring.
\* For any number of comments, jobs and attempts.
THEOREM CommentsAreKept == Spec => CommentsKept
<1> DEFINE PlacesKept(j) ==
      page' # page /\ At(j, "publish") /\ ~At(j, "publish")' /\ ~job[j].flagged =>
          \A c \in OpenComments : <<c, comment[c]>> \in job[j].gated =>
              \/ Places(page'.body, comment[c])
              \/ /\ job[j].prior # None
                 /\ comment[c].unit \in Changed(job[j].prior.of, page'.of)
                 /\ c \in job'[j].expected
<1>1. ASSUME Inv, [Next]_vars
      PROVE  [\A j \in Jobs : PlacesKept(j)]_vars
  <2> SUFFICES ASSUME NEW j \in Jobs, page' # page, At(j, "publish"), ~At(j, "publish")', ~job[j].flagged,
                      NEW c \in OpenComments, <<c, comment[c]>> \in job[j].gated
               PROVE  \/ Places(page'.body, comment[c])
                      \/ /\ job[j].prior # None
                         /\ comment[c].unit \in Changed(job[j].prior.of, page'.of)
                         /\ c \in job'[j].expected
    OBVIOUS
  <2>1. Publish(j)
    <3>1. ASSUME NEW i \in Jobs, Start(i) PROVE page' = page
      BY <3>1 DEF Start
    <3>2. PICK i \in Jobs : Work(i)
      BY <1>1, <3>1, Movers
    <3>3. i = j
      BY <1>1, <3>2, JobSteps DEF Advances, OnlyJob, At
    <3> QED
      BY <1>1, <3>2, <3>3, JobSteps
  <2>2. /\ page'.body = job[j].served /\ page'.of = job[j].of
        /\ job[j].expected # {} => job'[j].expected = job[j].expected
    BY <1>1, <2>1, PublishStep
  <2>3. c \in Comments /\ comment[c] \in Rows
    BY <1>1 DEF OpenComments, Inv, Typing
  <2>4. Places(job[j].served, comment[c]) \/ (comment[c].unit \in job[j].modified /\ c \in job[j].expected)
    BY <1>1, <2>3 DEF Inv, Passed
  <2>5. comment[c].unit \in job[j].modified =>
           job[j].prior # None /\ job[j].modified = Changed(job[j].prior.of, job[j].of)
    BY <1>1, JobState DEF Inv, PriorShows
  <2> QED
    BY <2>2, <2>4, <2>5
<1>2. CommentsKept <=> [][\A j \in Jobs : PlacesKept(j)]_vars
  BY PTL DEF CommentsKept
<1> HIDE DEF PlacesKept
<1> QED
  BY <1>1, <1>2, InvHolds, PTL DEF Spec

===============================================================================
