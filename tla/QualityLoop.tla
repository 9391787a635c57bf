------------------------------ MODULE QualityLoop ------------------------------
(* The maker's quality loop (render_common/quality_loop.py), as the two kinds  *)
(* of render job run it: the requirements job, which may have its WHAT doc     *)
(* written anew on the way, and the exploration job, which has neither         *)
(* registry nor slots, so that two of them may work on one page.  What the     *)
(* agents answer is open: an attempt has a page or none, passes the structural *)
(* gate or not, and is scored by the checker or not.                           *)
EXTENDS Naturals, Sequences, FiniteSets

CONSTANTS
    Jobs,            \* render jobs, in the order of their rows
    Kind,            \* "requirements" or "exploration", for each job
    Scenarios,       \* bounds that go together: which jobs are requested, their
                     \* QUALITY_MAX_ATTEMPTS, the numbers of errors and warnings a
                     \* verdict may have, changes of the sources, exceptions
    StructuralStop,  \* QUALITY_STRUCTURAL_STOP
    MaxReworks,      \* QUALITY_MAX_WHAT_REWORKS
    Tokens,          \* GATED_TOKENS of each kind
    None             \* no page, no directory, no flag

ASSUME LoopConstants ==
    /\ Kind \in [Jobs -> {"requirements", "exploration"}]
    /\ Scenarios \subseteq [asked : SUBSET Jobs, ceiling : Nat, findings : SUBSET (Nat \X Nat),
                      edits : Nat, faults : Nat]
    /\ StructuralStop \in Nat \ {0}
    /\ MaxReworks \in Nat
    /\ None \notin Nat \cup {"structural_violation", "structural_degradation",
                            "checker_unavailable", "non_convergent"}

VARIABLES
    scenario,   \* the jobs that are asked for, the ceiling they read, what may happen
    source,     \* per kind: the digest of what is rendered, None when it is gone
    page,       \* per kind: the page on disk with its stamps, or None
    job,        \* per job: its row and its JobState
    edits, faults

vars == <<scenario, source, page, job, edits, faults>>

Kinds == {"requirements", "exploration"}

NoAttempt == [no |-> 0, valid |-> FALSE, whatOk |-> FALSE, scored |-> FALSE,
              score |-> 0, missing |-> {}, clear |-> FALSE]

NewJob == [at        |-> "unasked",   \* the stage the thread is at
           status    |-> "running",   \* render_jobs.status
           digest    |-> 0,           \* what it was asked to render
           what      |-> "none",      \* the WHAT doc: none, failing or passing its gate
           rewritten |-> FALSE,       \* its one structural retry is under way
           how       |-> 0,           \* how_attempts
           valid     |-> FALSE,       \* the structural gate on the attempt at hand
           streak    |-> 0,           \* consecutive_structural
           missing   |-> 0,           \* missing_streak
           tokens    |-> {},          \* missing_streak_tokens
           reworks   |-> 0,           \* what_reworks
           history   |-> <<>>,        \* attempts_history
           served    |-> NoAttempt,   \* the attempt to publish
           by        |-> None,        \* served-by
           reason    |-> None]        \* review_reason, None for a clean page

Init ==
    /\ scenario \in Scenarios
    /\ source = [k \in Kinds |-> 0]
    /\ page = [k \in Kinds |-> None]
    /\ job = [j \in Jobs |-> NewJob]
    /\ edits = 0 /\ faults = 0

At(j, stage) == job[j].at = stage
Env == <<scenario, source, page, edits, faults>>

\* request_render and request_exploration_render: the row is inserted, a thread
\* starts.  Nothing to render, nothing asked.
Request(j) ==
    /\ At(j, "unasked") /\ j \in scenario.asked
    /\ source[Kind[j]] # None
    /\ job' = [job EXCEPT ![j] = [@ EXCEPT !.at = "what", !.digest = source[Kind[j]]]]
    /\ UNCHANGED Env

-------------------------------------------------------------------------------
(* The WHAT doc.                                                           *)

\* What the WHAT agent leaves behind when its gate has been asked: nothing (a
\* crash, an empty answer), or a doc that fails or passes.
WhatAnswers == {"none", "failing", "passing"}

\* run_what and gate_what: an answer of nothing leaves the doc that was there.
Written(old, answer) == IF answer = "none" THEN old ELSE answer

\* Seeded fault: a rewritten doc replaces the old one whether it passes or not.
RetainedNever(old, answer) == Written(old, answer)

\* A forced rewrite that fails its gate is discarded, the prior doc retained.
Retained(old, answer) == IF answer = "passing" THEN answer ELSE old

\* One structural retry.
Again(j, doc) == doc = "failing" /\ ~job[j].rewritten

AfterWhat(j, doc) ==
    IF doc = "none" THEN "fallback"
    ELSE IF Again(j, doc) THEN "what"
    ELSE IF Kind[j] = "requirements" THEN "ask" ELSE "how"

\* run_what; without any doc the page is the fallback.
RunWhat(j) ==
    /\ At(j, "what")
    /\ \E answer \in WhatAnswers :
          LET doc == Written(job[j].what, answer) IN
          job' = [job EXCEPT ![j] = [@ EXCEPT
             !.what = doc, !.rewritten = Again(j, doc), !.at = AfterWhat(j, doc)]]
    /\ UNCHANGED Env

\* ask_what: without questions of the probe nothing is asked; otherwise the doc
\* is rewritten once with them.
AskWhat(j) ==
    /\ At(j, "ask")
    /\ \/ job' = [job EXCEPT ![j].at = "how"]
       \/ \E answer \in WhatAnswers :
             job' = [job EXCEPT ![j] = [@ EXCEPT !.what = Retained(job[j].what, answer), !.at = "how"]]
    /\ UNCHANGED Env

-------------------------------------------------------------------------------
(* The loop.                                                               *)

Stopped(streak) == streak >= StructuralStop

\* After an attempt: the next one, unless too many in a row had no sound structure.
Onward(streak) == IF Stopped(streak) THEN "decide" ELSE "how"

\* Seeded fault: attempts without a page do not count, and the maker gives none.
RunHowUncounted(j) ==
    /\ At(j, "how")
    /\ job' = [job EXCEPT ![j].at = IF job[j].how < scenario.ceiling THEN "how" ELSE "decide"]
    /\ UNCHANGED Env

\* The head of the loop, run_how and gate_html.  An attempt without a page is a
\* structural failure that is neither checked nor recorded.
RunHow(j) ==
    /\ At(j, "how")
    /\ \/ /\ job[j].how >= scenario.ceiling
          /\ job' = [job EXCEPT ![j].at = "decide"]
       \/ /\ job[j].how < scenario.ceiling
          /\ job' = [job EXCEPT ![j] = [@ EXCEPT
                !.how = job[j].how + 1,
                !.streak = job[j].streak + 1,
                !.at = Onward(job[j].streak + 1)]]
       \/ /\ job[j].how < scenario.ceiling
          /\ \E ok \in BOOLEAN :
                job' = [job EXCEPT ![j] = [@ EXCEPT !.how = job[j].how + 1, !.valid = ok, !.at = "check"]]
    /\ UNCHANGED Env

\* The score in twentieths: 1 - 0.15 errors - 0.05 warnings, not below zero.
CanonicalScore(found) ==
    LET lost == 3 * found[1] + found[2] IN IF lost > 20 THEN 0 ELSE 20 - lost

\* What the checker may say of attempt number n: a verdict, or none in two tries.
Unscored(j) ==
    [NoAttempt EXCEPT !.no = job[j].how, !.valid = job[j].valid, !.whatOk = (job[j].what = "passing")]

\* derive_pass is computed from the verdict, never taken from it.
Verdict(j, found, names, states) ==
    [Unscored(j) EXCEPT !.scored = TRUE, !.score = CanonicalScore(found), !.missing = names,
                        !.clear = states /\ names = {} /\ found[1] = 0]

Verdicts(j) ==
    {Verdict(j, found, names, states) :
        found \in scenario.findings, names \in SUBSET Tokens[Kind[j]], states \in BOOLEAN}

Clean(a) == a.valid /\ a.whatOk /\ a.clear

\* Seeded fault: the streak goes on whatever the verdict names.
CommonAny(j, a) == a.missing

\* The gated tokens that every verdict of the streak has named.
Common(j, a) == IF job[j].tokens = {} THEN a.missing ELSE job[j].tokens \cap a.missing

\* maybe_escalate keeps count of consecutive verdicts that share a token; the
\* exploration job has no such hook.
Counted(j, a) ==
    IF Kind[j] = "exploration" THEN [n |-> 0, toks |-> {}]
    ELSE IF a.missing # {} /\ Common(j, a) # {} THEN [n |-> job[j].missing + 1, toks |-> Common(j, a)]
    ELSE [n |-> IF a.missing = {} THEN 0 ELSE 1, toks |-> a.missing]

Escalates(j, a) == Counted(j, a).n >= 3 /\ job[j].reworks < MaxReworks

Broken(j, a) == IF a.valid /\ a.whatOk THEN 0 ELSE job[j].streak + 1

\* run_checker and what the loop makes of the attempt: publish, write the WHAT
\* doc anew, stop, or go on.
RunChecker(j) ==
    /\ At(j, "check")
    /\ \E a \in Verdicts(j) \cup {Unscored(j)} :
          job' = [job EXCEPT ![j] =
             IF Clean(a)
             THEN [@ EXCEPT !.history = Append(job[j].history, a), !.served = a, !.by = "maker", !.at = "compare"]
             ELSE [@ EXCEPT
                !.history = Append(job[j].history, a),
                !.streak = Broken(j, a),
                !.missing = Counted(j, a).n,
                !.tokens = Counted(j, a).toks,
                !.at = IF Escalates(j, a) THEN "escalate" ELSE Onward(Broken(j, a))]]
    /\ UNCHANGED Env

\* The WHAT doc is written anew, at the cost of the budget whatever comes of it.
Escalate(j) ==
    /\ At(j, "escalate")
    /\ \E answer \in WhatAnswers :
          job' = [job EXCEPT ![j] = [@ EXCEPT
             !.what = Retained(job[j].what, answer),
             !.reworks = job[j].reworks + 1,
             !.missing = 0,
             !.tokens = {},
             !.at = Onward(job[j].streak)]]
    /\ UNCHANGED Env

-------------------------------------------------------------------------------
(* The terminal decision.                                                  *)

InHistory(j) == {job[j].history[i] : i \in DOMAIN job[j].history}

\* best_attempt: scored before unscored, then the score, then the later one.
AtLeast(a, b) ==
    \/ a.scored /\ ~b.scored
    \/ a.scored = b.scored /\ (a.score > b.score \/ (a.score = b.score /\ a.no >= b.no))

BestAttempt(pool) == CHOOSE a \in pool : \A b \in pool : AtLeast(a, b)

\* Seeded fault: a good score may outrank a sound structure.
PoolAny(j) == InHistory(j)

\* Prefer valid, then score.
Pool(j) ==
    LET valid == {a \in InHistory(j) : a.valid} IN IF valid # {} THEN valid ELSE InHistory(j)

ReviewReason(j) ==
    LET valid == {a \in InHistory(j) : a.valid} IN
    IF valid = {} THEN "structural_violation"
    ELSE IF Stopped(job[j].streak) THEN "structural_degradation"
    ELSE IF \A a \in valid : ~a.scored THEN "checker_unavailable"
    ELSE "non_convergent"

ServedBy(j) == IF \E a \in InHistory(j) : a.valid THEN "maker" ELSE "structural_violation"

\* decide_quality: the fallback is for a job without any attempt; every other
\* job serves its best one, flagged.
DecideQuality(j) ==
    /\ At(j, "decide")
    /\ job' = [job EXCEPT ![j] =
          IF job[j].history = <<>> THEN [@ EXCEPT !.at = "fallback"]
          ELSE [@ EXCEPT
             !.served = BestAttempt(Pool(j)),
             !.by = ServedBy(j),
             !.reason = ReviewReason(j),
             !.at = "compare"]]
    /\ UNCHANGED Env

-------------------------------------------------------------------------------
(* Publication.                                                            *)

Ends(j, status) == job' = [job EXCEPT ![j] = [@ EXCEPT !.status = status, !.at = "ended"]]

\* _compare_and_publish and _publish_fallback: the source is read again, and when
\* it is gone or has moved nothing is written.
Compare(j) ==
    /\ job[j].at \in {"compare", "fallback"}
    /\ LET now == source[Kind[j]] IN
       IF now = None THEN Ends(j, "failed")
       ELSE IF now # job[j].digest THEN Ends(j, "superseded")
       ELSE job' = [job EXCEPT ![j].at = IF At(j, "compare") THEN "publish" ELSE "default"]
    /\ UNCHANGED Env

Shown(j, digest, by, flagged) == [of |-> digest, by |-> by, flagged |-> flagged, job |-> j]

\* The page is replaced, and the row says so afterwards.
Publish(j) ==
    /\ At(j, "publish")
    /\ page' = [page EXCEPT ![Kind[j]] = Shown(j, job[j].digest, job[j].by, job[j].reason # None)]
    /\ job' = [job EXCEPT ![j].at = "record"]
    /\ UNCHANGED <<scenario, source, edits, faults>>

Record(j) ==
    /\ At(j, "record")
    /\ Ends(j, "published")
    /\ UNCHANGED Env

\* The deterministic page: of the exploration that was loaded at the start, or of
\* the requirements as they are now, when they are there.
Default(j) ==
    /\ job[j].at \in {"default", "rescue"}
    /\ LET k == Kind[j]
           digest == IF k = "exploration" THEN job[j].digest ELSE source[k] IN
       page' = IF digest = None THEN page
               ELSE [page EXCEPT ![k] = Shown(j, digest, "deterministic", FALSE)]
    /\ job' = [job EXCEPT ![j].at = IF @ = "rescue" THEN "rescued" ELSE "settle"]
    /\ UNCHANGED <<scenario, source, edits, faults>>

Settle(j) ==
    /\ job[j].at \in {"settle", "rescued"}
    /\ Ends(j, "fallback")
    /\ UNCHANGED Env

\* An exception in the thread gets to its handler, which publishes the
\* deterministic page without a comparison; one in the handler fails the job.
Raise(j) ==
    /\ faults < scenario.faults
    /\ faults' = faults + 1
    /\ \/ /\ job[j].at \notin {"unasked", "rescue", "rescued", "ended"}
          /\ job' = [job EXCEPT ![j].at = "rescue"]
       \/ /\ job[j].at \in {"rescue", "rescued"}
          /\ Ends(j, "failed")
    /\ UNCHANGED <<scenario, source, page, edits>>

\* Agents and people change what is rendered, or remove it.
Edit(k) ==
    /\ edits < scenario.edits
    /\ \E j \in scenario.asked : Kind[j] = k
    /\ edits' = edits + 1
    /\ source' \in {[source EXCEPT ![k] = edits + 1], [source EXCEPT ![k] = None]}
    /\ UNCHANGED <<scenario, page, job, faults>>

Work(j) ==
    \/ RunWhat(j) \/ AskWhat(j) \/ RunHow(j) \/ RunChecker(j) \/ Escalate(j)
    \/ DecideQuality(j) \/ Compare(j) \/ Publish(j) \/ Record(j) \/ Default(j) \/ Settle(j)

Next ==
    \/ \E j \in Jobs : Request(j) \/ Work(j) \/ Raise(j)
    \/ \E k \in Kinds : Edit(k)

Spec == Init /\ [][Next]_vars

\* The stages of a job are subprocesses with a timeout, called one after another.
FairSpec == Spec /\ \A j \in Jobs : WF_vars(Work(j))

-------------------------------------------------------------------------------
(* Properties.                                                             *)

TypeOK ==
    /\ scenario \in Scenarios
    /\ source \in [Kinds -> (0 .. scenario.edits) \cup {None}]
    /\ \A j \in Jobs :
          /\ job[j].how \in 0 .. scenario.ceiling
          /\ job[j].streak \in 0 .. StructuralStop
          /\ job[j].reworks \in 0 .. MaxReworks
          /\ job[j].what \in WhatAnswers
          /\ Len(job[j].history) <= job[j].how
          /\ job[j].status \in {"running", "published", "superseded", "fallback", "failed"}

\* Which of two attempts a reader would rather see: one that passes the
\* structural gate, then one the checker has scored, then the higher score.
Outranks(a, b) ==
    \/ a.valid /\ ~b.valid
    \/ a.valid = b.valid /\ a.scored /\ ~b.scored
    \/ a.valid = b.valid /\ a.scored = b.scored /\ a.score > b.score

\* What a job is about to serve, through retries, rewritten WHAT docs and checker
\* failures: its clean attempt without a flag, or flagged an attempt that no other
\* one outranks nor, with the same rank, comes after; and the deterministic page
\* only when there was none (decide_quality, the owner's override).
ServedIsBest ==
    \A j \in Jobs :
        /\ job[j].at \in {"publish", "record"} =>
              /\ job[j].served \in InHistory(j)
              /\ (job[j].reason = None) <=> Clean(job[j].served)
              /\ \A a \in InHistory(j) :
                    /\ ~Outranks(a, job[j].served) \/ job[j].reason = None
                    /\ Clean(a) => a = job[j].served
                    /\ a.no > job[j].served.no => Outranks(job[j].served, a)
        /\ job[j].at = "default" => job[j].history = <<>>

\* The WHAT doc is written anew on account of readers who miss its point only when
\* the last three verdicts name one and the same gated token (_maybe_escalate_what).
EscalationEarned ==
    \A j \in Jobs :
        At(j, "escalate") =>
            LET told == job[j].history
                n == Len(told) IN
            n >= 3 /\ told[n].missing \cap told[n - 1].missing \cap told[n - 2].missing # {}

\* A WHAT doc that passes its gate is never lost to a rewrite that does not.
GoodWhatKept ==
    [][\A j \in Jobs : job[j].what = "passing" => job'[j].what = "passing"]_vars

\* Every job ends, within its limits and whatever its agents answer, with a row
\* that says how.
JobsSettle ==
    \A j \in Jobs : job[j].at = "what" ~> job[j].status # "running"

===============================================================================
