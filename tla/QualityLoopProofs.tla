--------------------------- MODULE QualityLoopProofs ---------------------------
(* Proofs about QualityLoop, for any jobs, ceilings, limits, verdicts, changes *)
(* of the sources and exceptions.                                              *)
EXTENDS QualityLoop, FiniteSetTheorems, WellFoundedInduction, TLAPS

-------------------------------------------------------------------------------
(* Type correctness.                                                       *)

Stages == {"unasked", "what", "ask", "how", "check", "escalate", "decide", "compare", "fallback",
           "publish", "record", "default", "settle", "rescue", "rescued", "ended"}

Names == UNION {Tokens[k] : k \in Kinds}

Attempts == [no : Nat, valid : BOOLEAN, whatOk : BOOLEAN, scored : BOOLEAN, score : 0 .. 20,
             missing : SUBSET Names, clear : BOOLEAN]

Statuses == {"running", "published", "superseded", "fallback", "failed"}

Reasons == {"structural_violation", "structural_degradation", "checker_unavailable", "non_convergent"}

JobStates == [at : Stages, status : Statuses, digest : Nat, what : WhatAnswers, rewritten : BOOLEAN,
              how : Nat, valid : BOOLEAN, streak : Nat, missing : Nat, tokens : SUBSET Names,
              reworks : Nat, history : Seq(Attempts), served : Attempts,
              by : {None, "maker", "structural_violation"}, reason : Reasons \cup {None}]

Typing ==
    /\ scenario \in Scenarios
    /\ edits \in 0 .. scenario.edits
    /\ source \in [Kinds -> (0 .. edits) \cup {None}]
    /\ job \in [Jobs -> JobStates]

-------------------------------------------------------------------------------
(* The inductive invariant, a job at a time.                               *)

Early == {"unasked", "what", "ask"}
Looping == Early \cup {"how", "check", "escalate"}

\* The limits, with the room that is left for the stage a job is at.
Limited(j) ==
    /\ job[j].how <= scenario.ceiling
    /\ job[j].streak <= StructuralStop
    /\ job[j].at \in Early \cup {"how", "check"} => job[j].streak < StructuralStop
    /\ job[j].reworks <= MaxReworks
    /\ job[j].at = "escalate" => job[j].reworks < MaxReworks

\* The attempts on record are numbered by the calls of the maker, and a job that
\* has none has not reached the loop or never got a page.
Numbered(j) ==
    /\ Len(job[j].history) <= job[j].how
    /\ \A i \in 1 .. Len(job[j].history) : job[j].history[i].no <= job[j].how
    /\ job[j].at = "check" =>
          /\ Len(job[j].history) < job[j].how
          /\ \A i \in 1 .. Len(job[j].history) : job[j].history[i].no < job[j].how
    /\ job[j].at \in Early \cup {"fallback", "default"} => job[j].history = <<>>

\* A job without a passing WHAT doc writes one; one with it never writes its first.
Unwritten(j) == job[j].at \in {"unasked", "what"} => job[j].what # "passing"

\* The streak: its tokens are named by every verdict it counts.
Streak(j) ==
    LET told == job[j].history IN
    job[j].at \in Looping =>
        /\ job[j].missing <= Len(told)
        /\ (job[j].tokens = {}) <=> (job[j].missing = 0)
        /\ \A i \in 1 .. Len(told) : i > Len(told) - job[j].missing => job[j].tokens \subseteq told[i].missing
        /\ job[j].at = "escalate" => job[j].missing >= 3

\* No clean attempt is on record before the one that ends the loop.
Unclean(j) ==
    job[j].at \in Looping \cup {"decide"} =>
        /\ \A a \in InHistory(j) : ~Clean(a)
        /\ job[j].reason = None

\* What is to be served, from the decision on.
Decided(j) ==
    job[j].at \in {"compare", "publish", "record"} =>
        /\ job[j].served \in InHistory(j)
        /\ (job[j].reason = None) <=> Clean(job[j].served)
        /\ \A a \in InHistory(j) :
              /\ ~Outranks(a, job[j].served) \/ job[j].reason = None
              /\ Clean(a) => a = job[j].served
              /\ a.no > job[j].served.no => Outranks(job[j].served, a)

Inv ==
    /\ Typing
    /\ \A j \in Jobs : Limited(j) /\ Numbered(j) /\ Unwritten(j) /\ Streak(j) /\ Unclean(j) /\ Decided(j)

-------------------------------------------------------------------------------
(* What the operators of the model return.                                 *)

LEMMA ScenarioTypes ==
  ASSUME Typing
  PROVE  scenario.ceiling \in Nat /\ scenario.edits \in Nat /\ scenario.findings \in SUBSET (Nat \X Nat)
BY LoopConstants DEF Typing

LEMMA UnscoredTypes ==
  ASSUME Typing, NEW j \in Jobs
  PROVE  Unscored(j) \in Attempts /\ Unscored(j).no = job[j].how /\ ~Unscored(j).clear
<1> DEFINE Made(z, n, v, w) == [z EXCEPT !.no = n, !.valid = v, !.whatOk = w]
           passes == (job[j].what = "passing")
<1>1. job[j].how \in Nat /\ job[j].valid \in BOOLEAN /\ passes \in BOOLEAN
  BY DEF Typing, JobStates
<1>2. NoAttempt \in Attempts /\ ~NoAttempt.clear
  BY DEF NoAttempt, Attempts
<1>3. ASSUME NEW z \in Attempts, NEW n \in Nat, NEW v \in BOOLEAN, NEW w \in BOOLEAN
      PROVE  Made(z, n, v, w) \in Attempts /\ Made(z, n, v, w).no = n
  BY DEF Attempts
<1>4. ASSUME NEW z \in Attempts, NEW n \in Nat, NEW v \in BOOLEAN, NEW w \in BOOLEAN
      PROVE  Made(z, n, v, w).clear = z.clear
  BY DEF Attempts
<1>5. Unscored(j) = Made(NoAttempt, job[j].how, job[j].valid, passes)
  BY DEF Unscored
<1> HIDE DEF Made, passes
<1> QED
  BY <1>1, <1>2, <1>3, <1>4, <1>5

LEMMA VerdictTypes ==
  ASSUME Typing, NEW j \in Jobs, NEW a \in Verdicts(j) \cup {Unscored(j)}
  PROVE  a \in Attempts /\ a.no = job[j].how
<1>1. CASE a = Unscored(j)
  BY <1>1, UnscoredTypes
<1>2. CASE a \in Verdicts(j)
  <2> DEFINE Found(z, n, m, c) == [z EXCEPT !.scored = TRUE, !.score = n, !.missing = m, !.clear = c]
  <2>1. PICK found \in scenario.findings, names \in SUBSET Tokens[Kind[j]], states \in BOOLEAN :
           a = Verdict(j, found, names, states)
    BY <1>2 DEF Verdicts
  <2> DEFINE clears == (states /\ names = {} /\ found[1] = 0)
  <2>2. names \in SUBSET Names /\ clears \in BOOLEAN
    BY LoopConstants DEF Kinds, Names
  <2>3. CanonicalScore(found) \in 0 .. 20
    BY ScenarioTypes DEF CanonicalScore
  <2>4. ASSUME NEW z \in Attempts, NEW n \in 0 .. 20, NEW m \in SUBSET Names, NEW c \in BOOLEAN
        PROVE  Found(z, n, m, c) \in Attempts /\ Found(z, n, m, c).no = z.no
    BY DEF Attempts
  <2>5. a = Found(Unscored(j), CanonicalScore(found), names, clears)
    BY <2>1 DEF Verdict
  <2> HIDE DEF Found, clears
  <2> QED
    BY <2>2, <2>3, <2>4, <2>5, UnscoredTypes
<1> QED
  BY <1>1, <1>2

LEMMA CountTypes ==
  ASSUME Typing, NEW j \in Jobs, NEW a \in Attempts
  PROVE  Counted(j, a).n \in Nat /\ Counted(j, a).toks \in SUBSET Names
<1>1. job[j] \in JobStates
  BY DEF Typing
<1>2. job[j].missing \in Nat /\ job[j].tokens \in SUBSET Names
  BY <1>1 DEF JobStates
<1>3. a.missing \in SUBSET Names
  BY DEF Attempts
<1> QED
  BY <1>2, <1>3 DEF Counted, Common

Less == {ss \in Nat \X Nat : ss[1] < ss[2]}

LEMMA LessWellFounded == IsWellFoundedOn(Less, Nat)
BY NatLessThanWellFounded DEF OpToRel, Less

LEMMA LeastNat ==
  ASSUME NEW T, T \subseteq Nat, T # {}
  PROVE  \E x \in T : \A y \in T : x <= y
<1>1. \E x \in T : \A y \in T : ~(<<y, x>> \in Less)
  BY LessWellFounded, WFMin
<1>2. ASSUME NEW x \in T, NEW y \in T, ~(<<y, x>> \in Less)
      PROVE  x <= y
  BY <1>2 DEF Less
<1> QED
  BY <1>1, <1>2

\* Attempts can be ranked: the one with the most is found by looking for the least
\* that is missing to the highest score, then to the highest number.
LEMMA BestIsBest ==
  ASSUME NEW pool \in SUBSET Attempts, pool # {}, NEW top \in Nat, \A a \in pool : a.no <= top
  PROVE  BestAttempt(pool) \in pool /\ \A a \in pool : AtLeast(BestAttempt(pool), a)
<1> DEFINE first == IF \E a \in pool : a.scored THEN {a \in pool : a.scored} ELSE pool
<1>0. \A a \in pool : a.score \in 0 .. 20 /\ a.no \in Nat /\ a.scored \in BOOLEAN
  BY DEF Attempts
<1>1. first # {} /\ first \subseteq pool
  OBVIOUS
<1>2. \A a \in first, c \in pool : a.scored = c.scored \/ (a.scored /\ ~c.scored)
  BY <1>0
<1>3. \A a \in first, c \in pool : a.scored = c.scored => c \in first
  BY <1>0
<1> HIDE DEF first
<1>4. PICK b1 \in first : \A a \in first : b1.score >= a.score
  <2> DEFINE T == {20 - a.score : a \in first}
  <2>1. T \subseteq Nat /\ T # {}
    BY <1>0, <1>1
  <2>2. PICK x \in T : \A y \in T : x <= y
    BY <2>1, LeastNat
  <2>3. PICK b \in first : x = 20 - b.score
    BY <2>2
  <2>4. \A a \in first : 20 - b.score <= 20 - a.score
    BY <2>2, <2>3
  <2>5. \A a \in first : b.score >= a.score
    <3> TAKE a \in first
    <3>1. a.score \in 0 .. 20 /\ b.score \in 0 .. 20
      BY <1>0, <1>1
    <3> QED
      BY <2>4, <3>1
  <2> QED
    BY <2>5
<1> DEFINE second == {a \in first : a.score = b1.score}
<1>5. PICK b \in second : \A a \in second : b.no >= a.no
  <2> DEFINE T == {top - a.no : a \in second}
  <2>1. T \subseteq Nat /\ T # {}
    BY <1>0, <1>1
  <2>2. PICK x \in T : \A y \in T : x <= y
    BY <2>1, LeastNat
  <2>3. PICK b \in second : x = top - b.no
    BY <2>2
  <2>4. \A a \in second : top - b.no <= top - a.no
    BY <2>2, <2>3
  <2>5. \A a \in second : b.no >= a.no
    <3> TAKE a \in second
    <3>1. a.no \in Nat /\ b.no \in Nat
      BY <1>0, <1>1
    <3> QED
      BY <2>4, <3>1
  <2> QED
    BY <2>5
<1>6. ASSUME NEW a \in pool
      PROVE  AtLeast(b, a)
  <2>1. CASE b.scored /\ ~a.scored
    BY <2>1 DEF AtLeast
  <2>2. CASE b.scored = a.scored /\ a.score = b1.score
    BY <1>3, <1>5, <2>2 DEF AtLeast
  <2>3. CASE b.scored = a.scored /\ a.score # b1.score
    BY <1>0, <1>1, <1>3, <1>4, <1>5, <2>3 DEF AtLeast
  <2> QED
    BY <1>2, <2>1, <2>2, <2>3
<1>7. \E c \in pool : \A a \in pool : AtLeast(c, a)
  BY <1>1, <1>6
<1> QED
  BY <1>7 DEF BestAttempt

LEMMA HistoryTypes ==
  ASSUME Typing, NEW j \in Jobs
  PROVE  /\ InHistory(j) \in SUBSET Attempts
         /\ \A a \in InHistory(j) : \E i \in 1 .. Len(job[j].history) : a = job[j].history[i]
         /\ \A i \in 1 .. Len(job[j].history) : job[j].history[i] \in InHistory(j)
         /\ job[j].history # <<>> => InHistory(j) # {}
<1>1. job[j].history \in Seq(Attempts)
  BY DEF Typing, JobStates
<1>2. /\ DOMAIN job[j].history = 1 .. Len(job[j].history)
      /\ \A i \in 1 .. Len(job[j].history) : job[j].history[i] \in Attempts
      /\ job[j].history # <<>> => 1 \in 1 .. Len(job[j].history)
  BY <1>1
<1> QED
  BY <1>2 DEF InHistory

\* A step is of one job: another job's state stays.
LEMMA OneJob ==
  ASSUME Typing, [Next]_vars, NEW k \in Jobs
  PROVE  scenario' = scenario /\ (job'[k] = job[k] \/ Request(k) \/ Work(k) \/ Raise(k))
<1>1. CASE UNCHANGED vars
  BY <1>1 DEF vars
<1>2. CASE \E l \in Kinds : Edit(l)
  BY <1>2 DEF Edit
<1>3. ASSUME NEW j \in Jobs, Request(j) \/ Work(j) \/ Raise(j) PROVE scenario' = scenario
  BY <1>3 DEF Request, Work, RunWhat, AskWhat, RunHow, RunChecker, Escalate, DecideQuality, Compare, Publish,
              Record, Default, Settle, Raise, Ends, Env
<1>4. ASSUME NEW j \in Jobs, Request(j) \/ Work(j) \/ Raise(j), j # k PROVE job'[k] = job[k]
  BY <1>4 DEF Typing, Request, Work, RunWhat, AskWhat, RunHow, RunChecker, Escalate, DecideQuality, Compare,
              Publish, Record, Default, Settle, Raise, Ends
<1> QED
  BY <1>1, <1>2, <1>3, <1>4 DEF Next

\* What the decision serves, of a job that has an attempt on record.
LEMMA PoolTypes ==
  ASSUME Typing, NEW j \in Jobs, Numbered(j), job[j].history # <<>>
  PROVE  /\ Pool(j) \subseteq InHistory(j)
         /\ BestAttempt(Pool(j)) \in Pool(j)
         /\ \A a \in Pool(j) : AtLeast(BestAttempt(Pool(j)), a)
<1>1. Pool(j) \subseteq InHistory(j) /\ Pool(j) # {}
  BY HistoryTypes DEF Pool
<1>2. job[j].how \in Nat
  BY DEF Typing, JobStates
<1>3. \A a \in Pool(j) : a.no <= job[j].how
  BY <1>1, HistoryTypes DEF Numbered
<1>4. Pool(j) \in SUBSET Attempts
  BY <1>1, HistoryTypes
<1> QED
  BY <1>1, <1>2, <1>3, <1>4, BestIsBest

-------------------------------------------------------------------------------
(* The typing is inductive.                                                *)

LEMMA TypingInit == Init => Typing
<1> SUFFICES ASSUME Init PROVE Typing
  OBVIOUS
<1>1. NoAttempt \in Attempts
  BY DEF NoAttempt, Attempts
<1>2. NewJob \in JobStates
  BY <1>1 DEF NewJob, JobStates, Stages, Statuses, WhatAnswers
<1>3. scenario.edits \in Nat
  BY LoopConstants DEF Init
<1> QED
  BY <1>2, <1>3 DEF Init, Typing

\* The states the actions give a job are of the type.
LEMMA Shapes ==
  ASSUME NEW z \in JobStates
  PROVE  /\ \A s \in Stages : [z EXCEPT !.at = s] \in JobStates
         /\ \A s \in Stages, n \in Nat : [z EXCEPT !.at = s, !.digest = n] \in JobStates
         /\ \A s \in Stages, w \in WhatAnswers, f \in BOOLEAN :
               [z EXCEPT !.what = w, !.rewritten = f, !.at = s] \in JobStates
         /\ \A s \in Stages, w \in WhatAnswers : [z EXCEPT !.what = w, !.at = s] \in JobStates
         /\ \A s \in Stages, n, m \in Nat : [z EXCEPT !.how = n, !.streak = m, !.at = s] \in JobStates
         /\ \A s \in Stages, n \in Nat, f \in BOOLEAN :
               [z EXCEPT !.how = n, !.valid = f, !.at = s] \in JobStates
         /\ \A s \in Stages, h \in Seq(Attempts), a \in Attempts, b \in {"maker", "structural_violation"} :
               [z EXCEPT !.history = h, !.served = a, !.by = b, !.at = s] \in JobStates
         /\ \A s \in Stages, h \in Seq(Attempts), n, m \in Nat, t \in SUBSET Names :
               [z EXCEPT !.history = h, !.streak = n, !.missing = m, !.tokens = t, !.at = s] \in JobStates
         /\ \A s \in Stages, w \in WhatAnswers, n, m \in Nat, t \in SUBSET Names :
               [z EXCEPT !.what = w, !.reworks = n, !.missing = m, !.tokens = t, !.at = s] \in JobStates
         /\ \A s \in Stages, a \in Attempts, b \in {"maker", "structural_violation"}, r \in Reasons :
               [z EXCEPT !.served = a, !.by = b, !.reason = r, !.at = s] \in JobStates
         /\ \A s \in Stages, u \in Statuses : [z EXCEPT !.status = u, !.at = s] \in JobStates
<1>1. \A s \in Stages : [z EXCEPT !.at = s] \in JobStates
  BY DEF JobStates
<1>2. \A s \in Stages, n \in Nat : [z EXCEPT !.at = s, !.digest = n] \in JobStates
  BY DEF JobStates
<1>3. \A s \in Stages, w \in WhatAnswers, f \in BOOLEAN :
         [z EXCEPT !.what = w, !.rewritten = f, !.at = s] \in JobStates
  BY DEF JobStates
<1>4. \A s \in Stages, w \in WhatAnswers : [z EXCEPT !.what = w, !.at = s] \in JobStates
  BY DEF JobStates
<1>5. \A s \in Stages, n, m \in Nat : [z EXCEPT !.how = n, !.streak = m, !.at = s] \in JobStates
  BY DEF JobStates
<1>6. \A s \in Stages, n \in Nat, f \in BOOLEAN :
         [z EXCEPT !.how = n, !.valid = f, !.at = s] \in JobStates
  BY DEF JobStates
<1>7. \A s \in Stages, h \in Seq(Attempts), a \in Attempts, b \in {"maker", "structural_violation"} :
         [z EXCEPT !.history = h, !.served = a, !.by = b, !.at = s] \in JobStates
  BY DEF JobStates
<1>8. \A s \in Stages, h \in Seq(Attempts), n, m \in Nat, t \in SUBSET Names :
         [z EXCEPT !.history = h, !.streak = n, !.missing = m, !.tokens = t, !.at = s] \in JobStates
  BY DEF JobStates
<1>9. \A s \in Stages, w \in WhatAnswers, n, m \in Nat, t \in SUBSET Names :
         [z EXCEPT !.what = w, !.reworks = n, !.missing = m, !.tokens = t, !.at = s] \in JobStates
  BY DEF JobStates
<1>10. \A s \in Stages, a \in Attempts, b \in {"maker", "structural_violation"}, r \in Reasons :
         [z EXCEPT !.served = a, !.by = b, !.reason = r, !.at = s] \in JobStates
  BY DEF JobStates
<1>11. \A s \in Stages, u \in Statuses : [z EXCEPT !.status = u, !.at = s] \in JobStates
  BY DEF JobStates
<1> QED
  BY <1>1, <1>2, <1>3, <1>4, <1>5, <1>6, <1>7, <1>8, <1>9, <1>10, <1>11

LEMMA Known ==
  /\ \A streak : Onward(streak) \in Stages
  /\ \A j, doc : Again(j, doc) \in BOOLEAN /\ AfterWhat(j, doc) \in Stages
  /\ \A old, answer \in WhatAnswers :
        Written(old, answer) \in WhatAnswers /\ Retained(old, answer) \in WhatAnswers
  /\ \A j : ServedBy(j) \in {"maker", "structural_violation"} /\ ReviewReason(j) \in Reasons
BY DEF Onward, Again, AfterWhat, Written, Retained, ServedBy, ReviewReason, Stages, Reasons

\* A step that only gives one job a new state.
LEMMA Put ==
  ASSUME Typing, scenario' = scenario, edits' = edits, source' = source,
         NEW j \in Jobs, NEW new \in JobStates, job' = [job EXCEPT ![j] = new]
  PROVE  Typing'
<1>1. job' \in [Jobs -> JobStates]
  BY DEF Typing
<1>2. scenario' \in Scenarios
  BY DEF Typing
<1>3. edits' \in 0 .. scenario'.edits
  BY DEF Typing
<1>4. source' \in [Kinds -> (0 .. edits') \cup {None}]
  BY DEF Typing
<1> QED
  BY <1>1, <1>2, <1>3, <1>4, Zenon DEF Typing

LEMMA TypingStep ==
  ASSUME Typing, \A j \in Jobs : Numbered(j), [Next]_vars
  PROVE  Typing'
<1>0. ASSUME NEW j \in Jobs
      PROVE  /\ job[j] \in JobStates /\ job[j].what \in WhatAnswers
             /\ job[j].how + 1 \in Nat /\ job[j].streak + 1 \in Nat /\ job[j].reworks + 1 \in Nat
             /\ job[j].history \in Seq(Attempts)
  BY DEF Typing, JobStates
<1>1. CASE UNCHANGED vars
  BY <1>1 DEF vars, Typing
<1>2. CASE \E k \in Kinds : Edit(k)
  BY <1>2, ScenarioTypes DEF Edit, Typing
<1>3. ASSUME NEW j \in Jobs, Request(j)
      PROVE  Typing'
  <2>1. Kind[j] \in Kinds
    BY LoopConstants DEF Kinds
  <2>2. source[Kind[j]] \in Nat
    BY <1>3, <2>1, ScenarioTypes DEF Request, Typing
  <2>3. [job[j] EXCEPT !.at = "what", !.digest = source[Kind[j]]] \in JobStates
    BY <1>0, <2>2, Shapes DEF Stages
  <2> QED
    BY <1>3, <2>3, Put DEF Request, Env
<1>4. ASSUME NEW j \in Jobs, RunWhat(j)
      PROVE  Typing'
  <2>1. PICK answer \in WhatAnswers :
          job' = [job EXCEPT ![j] = [@ EXCEPT !.what = Written(job[j].what, answer),
             !.rewritten = Again(j, Written(job[j].what, answer)),
             !.at = AfterWhat(j, Written(job[j].what, answer))]]
    BY <1>4 DEF RunWhat
  <2>2. [job[j] EXCEPT !.what = Written(job[j].what, answer),
             !.rewritten = Again(j, Written(job[j].what, answer)),
             !.at = AfterWhat(j, Written(job[j].what, answer))] \in JobStates
    BY <1>0, Known, Shapes
  <2> QED
    BY <1>4, <2>1, <2>2, Put DEF RunWhat, Env
<1>5. ASSUME NEW j \in Jobs, AskWhat(j)
      PROVE  Typing'
  <2>0. "how" \in Stages
    BY DEF Stages
  <2>1. CASE job' = [job EXCEPT ![j].at = "how"]
    BY <1>0, <1>5, <2>0, <2>1, Shapes, Put DEF AskWhat, Env
  <2>2. ASSUME NEW answer \in WhatAnswers,
               job' = [job EXCEPT ![j] = [@ EXCEPT !.what = Retained(job[j].what, answer), !.at = "how"]]
        PROVE  Typing'
    <3>1. [job[j] EXCEPT !.what = Retained(job[j].what, answer), !.at = "how"] \in JobStates
      BY <1>0, <2>0, Known, Shapes
    <3>2. job' = [job EXCEPT ![j] = [job[j] EXCEPT !.what = Retained(job[j].what, answer), !.at = "how"]]
      BY <2>2, Zenon
    <3> QED
      BY <1>5, <3>1, <3>2, Put DEF AskWhat, Env
  <2> QED
    BY <1>5, <2>1, <2>2 DEF AskWhat
<1>6. ASSUME NEW j \in Jobs, RunHow(j)
      PROVE  Typing'
  <2>0. "check" \in Stages /\ "decide" \in Stages
    BY DEF Stages
  <2>1. CASE job' = [job EXCEPT ![j].at = "decide"]
    BY <1>0, <1>6, <2>0, <2>1, Shapes, Put DEF RunHow, Env
  <2>2. CASE job' = [job EXCEPT ![j] = [@ EXCEPT !.how = job[j].how + 1, !.streak = job[j].streak + 1,
                                                 !.at = Onward(job[j].streak + 1)]]
    <3>1. [job[j] EXCEPT !.how = job[j].how + 1, !.streak = job[j].streak + 1,
                         !.at = Onward(job[j].streak + 1)] \in JobStates
      BY <1>0, Known, Shapes
    <3>2. job' = [job EXCEPT ![j] = [job[j] EXCEPT !.how = job[j].how + 1, !.streak = job[j].streak + 1,
                                                   !.at = Onward(job[j].streak + 1)]]
      BY <2>2, Zenon
    <3> QED
      BY <1>6, <3>1, <3>2, Put DEF RunHow, Env
  <2>3. ASSUME NEW ok \in BOOLEAN,
               job' = [job EXCEPT ![j] = [@ EXCEPT !.how = job[j].how + 1, !.valid = ok, !.at = "check"]]
        PROVE  Typing'
    <3>1. [job[j] EXCEPT !.how = job[j].how + 1, !.valid = ok, !.at = "check"] \in JobStates
      BY <1>0, <2>0, Shapes
    <3>2. job' = [job EXCEPT ![j] = [job[j] EXCEPT !.how = job[j].how + 1, !.valid = ok, !.at = "check"]]
      BY <2>3, Zenon
    <3> QED
      BY <1>6, <3>1, <3>2, Put DEF RunHow, Env
  <2> QED
    BY <1>6, <2>1, <2>2, <2>3 DEF RunHow
<1>7. ASSUME NEW j \in Jobs, RunChecker(j)
      PROVE  Typing'
  <2>1. PICK a \in Verdicts(j) \cup {Unscored(j)} :
          job' = [job EXCEPT ![j] =
             IF Clean(a)
             THEN [@ EXCEPT !.history = Append(job[j].history, a), !.served = a, !.by = "maker", !.at = "compare"]
             ELSE [@ EXCEPT
                !.history = Append(job[j].history, a),
                !.streak = Broken(j, a),
                !.missing = Counted(j, a).n,
                !.tokens = Counted(j, a).toks,
                !.at = IF Escalates(j, a) THEN "escalate" ELSE Onward(Broken(j, a))]]
    BY <1>7, Zenon DEF RunChecker
  <2>2. a \in Attempts
    BY VerdictTypes
  <2>3. Counted(j, a).n \in Nat /\ Counted(j, a).toks \in SUBSET Names
    BY <2>2, CountTypes
  <2>4. Append(job[j].history, a) \in Seq(Attempts) /\ "compare" \in Stages /\ Broken(j, a) \in Nat
    BY <1>0, <2>2 DEF Stages, Broken
  <2> DEFINE stage == IF Escalates(j, a) THEN "escalate" ELSE Onward(Broken(j, a))
  <2>5. stage \in Stages
    BY Known DEF Stages
  <2>6. CASE Clean(a)
    <3>1. [job[j] EXCEPT !.history = Append(job[j].history, a), !.served = a, !.by = "maker",
                         !.at = "compare"] \in JobStates
      BY <1>0, <2>2, <2>4, Shapes
    <3>2. job' = [job EXCEPT ![j] = [job[j] EXCEPT !.history = Append(job[j].history, a), !.served = a,
                                                   !.by = "maker", !.at = "compare"]]
      BY <2>1, <2>6, Zenon
    <3> QED
      BY <1>7, <3>1, <3>2, Put DEF RunChecker, Env
  <2>7. CASE ~Clean(a)
    <3> HIDE DEF stage
    <3>1. [job[j] EXCEPT !.history = Append(job[j].history, a), !.streak = Broken(j, a),
                         !.missing = Counted(j, a).n, !.tokens = Counted(j, a).toks, !.at = stage] \in JobStates
      BY <1>0, <2>3, <2>4, <2>5, Shapes
    <3>2. job' = [job EXCEPT ![j] = [job[j] EXCEPT
                     !.history = Append(job[j].history, a), !.streak = Broken(j, a),
                     !.missing = Counted(j, a).n, !.tokens = Counted(j, a).toks, !.at = stage]]
      BY <2>1, <2>7, Zenon DEF stage
    <3> QED
      BY <1>7, <3>1, <3>2, Put DEF RunChecker, Env
  <2> QED
    BY <2>6, <2>7
<1>8. ASSUME NEW j \in Jobs, Escalate(j)
      PROVE  Typing'
  <2>1. PICK answer \in WhatAnswers :
          job' = [job EXCEPT ![j] = [@ EXCEPT
                   !.what = Retained(job[j].what, answer), !.reworks = job[j].reworks + 1, !.missing = 0,
                   !.tokens = {}, !.at = Onward(job[j].streak)]]
    BY <1>8, Zenon DEF Escalate
  <2>2. 0 \in Nat /\ {} \in SUBSET Names
    OBVIOUS
  <2>3. [job[j] EXCEPT !.what = Retained(job[j].what, answer), !.reworks = job[j].reworks + 1, !.missing = 0,
                       !.tokens = {}, !.at = Onward(job[j].streak)] \in JobStates
    BY <1>0, <2>2, Known, Shapes
  <2>4. job' = [job EXCEPT ![j] = [job[j] EXCEPT
                   !.what = Retained(job[j].what, answer), !.reworks = job[j].reworks + 1, !.missing = 0,
                   !.tokens = {}, !.at = Onward(job[j].streak)]]
    BY <2>1, Zenon
  <2> QED
    BY <1>8, <2>3, <2>4, Put DEF Escalate, Env
<1>9. ASSUME NEW j \in Jobs, DecideQuality(j)
      PROVE  Typing'
  <2>1. CASE job[j].history = <<>>
    <3>1. job' = [job EXCEPT ![j] = [@ EXCEPT !.at = "fallback"]]
      BY <1>9, <2>1, Zenon DEF DecideQuality
    <3> QED
      BY <1>0, <1>9, <3>1, Shapes, Put DEF DecideQuality, Env, Stages
  <2>2. CASE job[j].history # <<>>
    <3>1. job' = [job EXCEPT ![j] = [@ EXCEPT !.served = BestAttempt(Pool(j)), !.by = ServedBy(j),
                                              !.reason = ReviewReason(j), !.at = "compare"]]
      BY <1>9, <2>2, Zenon DEF DecideQuality
    <3>2. BestAttempt(Pool(j)) \in Attempts /\ "compare" \in Stages
      BY <2>2, PoolTypes, HistoryTypes DEF Stages
    <3>3. [job[j] EXCEPT !.served = BestAttempt(Pool(j)), !.by = ServedBy(j),
                         !.reason = ReviewReason(j), !.at = "compare"] \in JobStates
      BY <1>0, <3>2, Known, Shapes
    <3> QED
      BY <1>9, <3>1, <3>3, Put DEF DecideQuality, Env
  <2> QED
    BY <2>1, <2>2
<1>10. ASSUME NEW j \in Jobs, NEW status \in Statuses, Ends(j, status),
              scenario' = scenario, edits' = edits, source' = source
       PROVE  Typing'
  <2>1. [job[j] EXCEPT !.status = status, !.at = "ended"] \in JobStates
    BY <1>0, Shapes DEF Stages
  <2> QED
    BY <1>10, <2>1, Put DEF Ends
<1>11. ASSUME NEW j \in Jobs, NEW stage \in Stages, job' = [job EXCEPT ![j].at = stage],
              scenario' = scenario, edits' = edits, source' = source
       PROVE  Typing'
  BY <1>0, <1>11, Shapes, Put
<1>12. ASSUME NEW j \in Jobs, Compare(j)
       PROVE  Typing'
  <2>1. \/ Ends(j, "failed") \/ Ends(j, "superseded")
        \/ job' = [job EXCEPT ![j].at = IF At(j, "compare") THEN "publish" ELSE "default"]
    BY <1>12, Zenon DEF Compare
  <2> QED
    BY <1>10, <1>11, <1>12, <2>1 DEF Compare, Env, Stages, Statuses
<1>13. ASSUME NEW j \in Jobs, Publish(j) \/ Record(j) \/ Default(j) \/ Settle(j) \/ Raise(j)
       PROVE  Typing'
  <2>1. CASE Publish(j)
    BY <1>11, <2>1 DEF Publish, Stages
  <2>2. CASE Record(j) \/ Settle(j)
    BY <1>10, <2>2 DEF Record, Settle, Env, Statuses
  <2>3. CASE Default(j)
    BY <1>11, <2>3 DEF Default, Stages
  <2>4. CASE Raise(j)
    BY <1>10, <1>11, <2>4 DEF Raise, Stages, Statuses
  <2> QED
    BY <1>13, <2>1, <2>2, <2>3, <2>4
<1> QED
  BY <1>1, <1>2, <1>3, <1>4, <1>5, <1>6, <1>7, <1>8, <1>9, <1>12, <1>13 DEF Next, Work

-------------------------------------------------------------------------------
(* What each action does to the fields the invariant is about.             *)

SameDoc(k) == job'[k].what = job[k].what
SameTries(k) == job'[k].how = job[k].how /\ job'[k].streak = job[k].streak /\ job'[k].reworks = job[k].reworks
SameCount(k) == job'[k].missing = job[k].missing /\ job'[k].tokens = job[k].tokens
SameRecord(k) == job'[k].history = job[k].history
SameChoice(k) == job'[k].served = job[k].served /\ job'[k].reason = job[k].reason
SameOther(k) == SameTries(k) /\ SameCount(k) /\ SameRecord(k) /\ SameChoice(k)

LEMMA MoveEffect ==
  ASSUME Typing, NEW k \in Jobs, NEW stage, job' = [job EXCEPT ![k].at = stage]
  PROVE  job'[k].at = stage /\ SameDoc(k) /\ SameOther(k)
BY DEF Typing, JobStates, SameDoc, SameTries, SameCount, SameRecord, SameChoice, SameOther

LEMMA EndEffect ==
  ASSUME Typing, NEW k \in Jobs, NEW status, Ends(k, status)
  PROVE  job'[k].at = "ended" /\ SameDoc(k) /\ SameOther(k)
BY DEF Ends, Typing, JobStates, SameDoc, SameTries, SameCount, SameRecord, SameChoice, SameOther

LEMMA RequestEffect ==
  ASSUME Typing, NEW k \in Jobs, Request(k)
  PROVE  job[k].at = "unasked" /\ job'[k].at = "what" /\ SameDoc(k) /\ SameOther(k)
BY DEF Request, At, Typing, JobStates, SameDoc, SameTries, SameCount, SameRecord, SameChoice, SameOther

LEMMA WhatEffect ==
  ASSUME Typing, NEW k \in Jobs, RunWhat(k)
  PROVE  /\ job[k].at = "what" /\ SameOther(k)
         /\ \E answer \in WhatAnswers :
               /\ job'[k].what = Written(job[k].what, answer)
               /\ job'[k].at = AfterWhat(k, Written(job[k].what, answer))
BY DEF RunWhat, At, Typing, JobStates, SameTries, SameCount, SameRecord, SameChoice, SameOther

LEMMA AskEffect ==
  ASSUME Typing, NEW k \in Jobs, AskWhat(k)
  PROVE  /\ job[k].at = "ask" /\ job'[k].at = "how" /\ SameOther(k)
         /\ \E answer \in WhatAnswers : job'[k].what \in {job[k].what, Retained(job[k].what, answer)}
<1>1. job[k].at = "ask" /\ "none" \in WhatAnswers
  BY DEF AskWhat, At, WhatAnswers
<1>2. CASE job' = [job EXCEPT ![k].at = "how"]
  BY <1>1, <1>2, MoveEffect DEF SameDoc
<1>3. ASSUME NEW answer \in WhatAnswers,
             job' = [job EXCEPT ![k] = [@ EXCEPT !.what = Retained(job[k].what, answer), !.at = "how"]]
      PROVE  /\ job'[k].at = "how" /\ SameOther(k)
             /\ job'[k].what \in {job[k].what, Retained(job[k].what, answer)}
  BY <1>3 DEF Typing, JobStates, SameTries, SameCount, SameRecord, SameChoice, SameOther
<1> QED
  BY <1>1, <1>2, <1>3 DEF AskWhat

LEMMA HowEffect ==
  ASSUME Typing, NEW k \in Jobs, RunHow(k)
  PROVE  /\ job[k].at = "how" /\ SameDoc(k) /\ SameCount(k) /\ SameRecord(k) /\ SameChoice(k)
         /\ job'[k].reworks = job[k].reworks
         /\ \/ job'[k].at = "decide" /\ SameTries(k)
            \/ /\ job[k].how < scenario.ceiling
               /\ job'[k].how = job[k].how + 1 /\ job'[k].streak = job[k].streak + 1
               /\ job'[k].at = Onward(job[k].streak + 1)
            \/ /\ job[k].how < scenario.ceiling
               /\ job'[k].how = job[k].how + 1 /\ job'[k].streak = job[k].streak
               /\ job'[k].at = "check"
<1>1. job[k].at = "how"
  BY DEF RunHow, At
<1>2. CASE job' = [job EXCEPT ![k].at = "decide"]
  BY <1>1, <1>2, MoveEffect DEF SameOther, SameTries
<1>3. CASE /\ job[k].how < scenario.ceiling
           /\ job' = [job EXCEPT ![k] = [@ EXCEPT !.how = job[k].how + 1, !.streak = job[k].streak + 1,
                                                  !.at = Onward(job[k].streak + 1)]]
  BY <1>1, <1>3 DEF Typing, JobStates, SameDoc, SameCount, SameRecord, SameChoice
<1>4. ASSUME job[k].how < scenario.ceiling, NEW ok \in BOOLEAN,
             job' = [job EXCEPT ![k] = [@ EXCEPT !.how = job[k].how + 1, !.valid = ok, !.at = "check"]]
      PROVE  /\ SameDoc(k) /\ SameCount(k) /\ SameRecord(k) /\ SameChoice(k)
             /\ job'[k].reworks = job[k].reworks /\ job'[k].streak = job[k].streak
             /\ job'[k].how = job[k].how + 1 /\ job'[k].at = "check"
  BY <1>4 DEF Typing, JobStates, SameDoc, SameCount, SameRecord, SameChoice
<1> QED
  BY <1>1, <1>2, <1>3, <1>4 DEF RunHow

LEMMA CheckEffect ==
  ASSUME Typing, NEW k \in Jobs, RunChecker(k)
  PROVE  /\ job[k].at = "check" /\ SameDoc(k)
         /\ job'[k].how = job[k].how /\ job'[k].reworks = job[k].reworks /\ job'[k].reason = job[k].reason
         /\ \E a \in Attempts :
               /\ a.no = job[k].how
               /\ job'[k].history = Append(job[k].history, a)
               /\ \/ /\ Clean(a)
                     /\ job'[k].at = "compare" /\ job'[k].served = a /\ job'[k].streak = job[k].streak
                  \/ /\ ~Clean(a)
                     /\ job'[k].at = IF Escalates(k, a) THEN "escalate" ELSE Onward(Broken(k, a))
                     /\ job'[k].streak = Broken(k, a)
                     /\ job'[k].missing = Counted(k, a).n /\ job'[k].tokens = Counted(k, a).toks
<1>1. PICK a \in Verdicts(k) \cup {Unscored(k)} :
          job' = [job EXCEPT ![k] =
             IF Clean(a)
             THEN [@ EXCEPT !.history = Append(job[k].history, a), !.served = a, !.by = "maker",
                            !.at = "compare"]
             ELSE [@ EXCEPT
                !.history = Append(job[k].history, a),
                !.streak = Broken(k, a),
                !.missing = Counted(k, a).n,
                !.tokens = Counted(k, a).toks,
                !.at = IF Escalates(k, a) THEN "escalate" ELSE Onward(Broken(k, a))]]
  BY Zenon DEF RunChecker
<1>2. a \in Attempts /\ a.no = job[k].how
  BY VerdictTypes
<1>3. job[k].at = "check"
  BY DEF RunChecker, At
<1>4. CASE Clean(a)
  <2>1. job' = [job EXCEPT ![k] = [job[k] EXCEPT !.history = Append(job[k].history, a), !.served = a,
                                                 !.by = "maker", !.at = "compare"]]
    BY <1>1, <1>4, Zenon
  <2> QED
    BY <1>2, <1>3, <1>4, <2>1 DEF Typing, JobStates, SameDoc
<1>5. CASE ~Clean(a)
  <2>1. job' = [job EXCEPT ![k] = [job[k] EXCEPT
                     !.history = Append(job[k].history, a), !.streak = Broken(k, a),
                     !.missing = Counted(k, a).n, !.tokens = Counted(k, a).toks,
                     !.at = IF Escalates(k, a) THEN "escalate" ELSE Onward(Broken(k, a))]]
    BY <1>1, <1>5, Zenon
  <2> QED
    BY <1>2, <1>3, <1>5, <2>1 DEF Typing, JobStates, SameDoc
<1> QED
  BY <1>4, <1>5

LEMMA EscalateEffect ==
  ASSUME Typing, NEW k \in Jobs, Escalate(k)
  PROVE  /\ job[k].at = "escalate" /\ SameRecord(k) /\ SameChoice(k)
         /\ job'[k].how = job[k].how /\ job'[k].streak = job[k].streak
         /\ job'[k].reworks = job[k].reworks + 1 /\ job'[k].missing = 0 /\ job'[k].tokens = {}
         /\ job'[k].at = Onward(job[k].streak)
         /\ \E answer \in WhatAnswers : job'[k].what = Retained(job[k].what, answer)
BY DEF Escalate, At, Typing, JobStates, SameRecord, SameChoice

LEMMA DecideEffect ==
  ASSUME Typing, NEW k \in Jobs, DecideQuality(k)
  PROVE  /\ job[k].at = "decide" /\ SameDoc(k) /\ SameTries(k) /\ SameCount(k) /\ SameRecord(k)
         /\ \/ job[k].history = <<>> /\ job'[k].at = "fallback" /\ SameChoice(k)
            \/ /\ job[k].history # <<>> /\ job'[k].at = "compare"
               /\ job'[k].served = BestAttempt(Pool(k)) /\ job'[k].reason = ReviewReason(k)
<1>1. CASE job[k].history = <<>>
  <2>1. job' = [job EXCEPT ![k] = [@ EXCEPT !.at = "fallback"]]
    BY <1>1, Zenon DEF DecideQuality
  <2> QED
    BY <1>1, <2>1 DEF DecideQuality, At, Typing, JobStates, SameDoc, SameTries, SameCount, SameRecord, SameChoice
<1>2. CASE job[k].history # <<>>
  <2>1. job' = [job EXCEPT ![k] = [@ EXCEPT !.served = BestAttempt(Pool(k)), !.by = ServedBy(k),
                                            !.reason = ReviewReason(k), !.at = "compare"]]
    BY <1>2, Zenon DEF DecideQuality
  <2> QED
    BY <1>2, <2>1 DEF DecideQuality, At, Typing, JobStates, SameDoc, SameTries, SameCount, SameRecord
<1> QED
  BY <1>1, <1>2

\* Publication and exceptions move a job on, from where it may be to what follows.
LEMMA PublicationEffect ==
  ASSUME Typing, NEW k \in Jobs,
         Compare(k) \/ Publish(k) \/ Record(k) \/ Default(k) \/ Settle(k) \/ Raise(k)
  PROVE  /\ SameDoc(k) /\ SameOther(k)
         /\ \/ job[k].at = "compare" /\ job'[k].at = "publish"
            \/ job[k].at = "publish" /\ job'[k].at = "record"
            \/ job[k].at = "fallback" /\ job'[k].at = "default"
            \/ job'[k].at \in {"settle", "rescue", "rescued", "ended"}
<1>1. CASE Compare(k)
  <2>1. \/ Ends(k, "failed") \/ Ends(k, "superseded")
        \/ job' = [job EXCEPT ![k].at = IF At(k, "compare") THEN "publish" ELSE "default"]
    BY <1>1, Zenon DEF Compare
  <2>2. job[k].at \in {"compare", "fallback"}
    BY <1>1 DEF Compare
  <2> QED
    BY <2>1, <2>2, MoveEffect, EndEffect DEF At
<1>2. CASE Publish(k)
  BY <1>2, MoveEffect DEF Publish, At
<1>3. CASE Record(k) \/ Settle(k)
  BY <1>3, EndEffect DEF Record, Settle
<1>4. CASE Default(k)
  BY <1>4, MoveEffect DEF Default
<1>5. CASE Raise(k)
  BY <1>5, MoveEffect, EndEffect DEF Raise
<1> QED
  BY <1>1, <1>2, <1>3, <1>4, <1>5

\* The publication's actions, under one name.
Publication(k) == Compare(k) \/ Publish(k) \/ Record(k) \/ Default(k) \/ Settle(k) \/ Raise(k)

LEMMA OneStep ==
  ASSUME Typing, [Next]_vars, NEW k \in Jobs
  PROVE  /\ scenario' = scenario
         /\ \/ job'[k] = job[k]
            \/ Request(k) \/ RunWhat(k) \/ AskWhat(k) \/ RunHow(k) \/ RunChecker(k) \/ Escalate(k)
            \/ DecideQuality(k) \/ Publication(k)
BY OneJob DEF Work, Publication

-------------------------------------------------------------------------------
(* The parts of the invariant.                                             *)

LEMMA LimitedStep ==
  ASSUME Typing, NEW k \in Jobs, Limited(k), [Next]_vars
  PROVE  Limited(k)'
<1>0. /\ job[k].how \in Nat /\ job[k].streak \in Nat /\ job[k].reworks \in Nat
      /\ scenario.ceiling \in Nat /\ StructuralStop \in Nat /\ MaxReworks \in Nat /\ scenario' = scenario
  BY ScenarioTypes, LoopConstants, OneStep DEF Typing, JobStates
<1>1. CASE job'[k] = job[k]
  BY <1>0, <1>1 DEF Limited
<1>2. CASE Request(k)
  BY <1>0, <1>2, RequestEffect DEF Limited, Early, SameOther, SameTries
<1>3. CASE RunWhat(k)
  BY <1>0, <1>3, WhatEffect DEF Limited, Early, SameOther, SameTries, AfterWhat
<1>4. CASE AskWhat(k)
  BY <1>0, <1>4, AskEffect DEF Limited, Early, SameOther, SameTries
<1>5. CASE RunHow(k)
  BY <1>0, <1>5, HowEffect DEF Limited, Early, SameTries, Onward, Stopped
<1>6. CASE RunChecker(k)
  BY <1>0, <1>6, CheckEffect DEF Limited, Early, Onward, Stopped, Broken, Escalates
<1>7. CASE Escalate(k)
  BY <1>0, <1>7, EscalateEffect DEF Limited, Early, Onward, Stopped
<1>8. CASE DecideQuality(k)
  BY <1>0, <1>8, DecideEffect DEF Limited, Early, SameTries
<1>9. CASE Publication(k)
  BY <1>0, <1>9, PublicationEffect DEF Publication, Limited, Early, SameOther, SameTries
<1> QED
  BY <1>1, <1>2, <1>3, <1>4, <1>5, <1>6, <1>7, <1>8, <1>9, OneStep

LEMMA NumberedStep ==
  ASSUME Typing, NEW k \in Jobs, Numbered(k), [Next]_vars
  PROVE  Numbered(k)'
<1>0. job[k].how \in Nat /\ job[k].history \in Seq(Attempts) /\ Len(job[k].history) \in Nat
  BY DEF Typing, JobStates
<1>a. \A i \in 1 .. Len(job[k].history) : job[k].history[i].no \in Nat
  <2>1. \A i \in 1 .. Len(job[k].history) : job[k].history[i] \in Attempts
    BY <1>0
  <2>2. \A a \in Attempts : a.no \in Nat
    BY DEF Attempts
  <2> QED
    BY <2>1, <2>2
<1>1. CASE job'[k] = job[k]
  BY <1>0, <1>1 DEF Numbered
<1>2. CASE Request(k)
  BY <1>0, <1>2, RequestEffect DEF Numbered, Early, SameOther, SameTries, SameRecord
<1>3. CASE RunWhat(k)
  BY <1>0, <1>3, WhatEffect DEF Numbered, Early, SameOther, SameTries, SameRecord, AfterWhat
<1>4. CASE AskWhat(k)
  BY <1>0, <1>4, AskEffect DEF Numbered, Early, SameOther, SameTries, SameRecord
<1>5. CASE RunHow(k)
  <2>1. /\ job'[k].history = job[k].history /\ job[k].at = "how"
        /\ \/ job'[k].at \in {"decide", "how"} /\ job'[k].how \in {job[k].how, job[k].how + 1}
           \/ job'[k].at = "check" /\ job'[k].how = job[k].how + 1
    BY <1>5, HowEffect DEF SameTries, SameRecord, Onward
  <2>2. \A i \in 1 .. Len(job[k].history) : job[k].history[i].no <= job[k].how
    BY DEF Numbered
  <2>3. CASE job'[k].at \in {"decide", "how"} /\ job'[k].how = job[k].how
    BY <2>1, <2>3 DEF Numbered, Early
  <2>4. CASE job'[k].how = job[k].how + 1
    <3>1. \A i \in 1 .. Len(job[k].history) : job[k].history[i].no < job'[k].how
      BY <1>0, <1>a, <2>2, <2>4
    <3>2. Len(job[k].history) < job'[k].how /\ job'[k].how \in Nat
      BY <1>0, <2>4 DEF Numbered
    <3> QED
      BY <1>0, <1>a, <2>1, <3>1, <3>2 DEF Numbered, Early
  <2> QED
    BY <2>1, <2>3, <2>4
<1>6. CASE RunChecker(k)
  <2>1. PICK a \in Attempts : a.no = job[k].how /\ job'[k].history = Append(job[k].history, a)
    BY <1>6, CheckEffect
  <2>2. job'[k].how = job[k].how /\ job[k].at = "check" /\ job'[k].at \in {"compare", "escalate", "how", "decide"}
    BY <1>6, CheckEffect DEF Onward
  <2>3. Len(job'[k].history) = Len(job[k].history) + 1
    BY <1>0, <2>1
  <2>4. \A i \in 1 .. Len(job'[k].history) :
           job'[k].history[i] = IF i = Len(job[k].history) + 1 THEN a ELSE job[k].history[i]
    BY <1>0, <2>1, <2>3
  <2>5. \A i \in 1 .. Len(job'[k].history) : job'[k].history[i].no <= job[k].how
    BY <1>0, <1>a, <2>1, <2>3, <2>4 DEF Numbered
  <2> QED
    BY <1>0, <2>2, <2>3, <2>5 DEF Numbered, Early
<1>7. CASE Escalate(k)
  BY <1>0, <1>7, EscalateEffect DEF Numbered, Early, Onward, SameRecord
<1>8. CASE DecideQuality(k)
  BY <1>0, <1>8, DecideEffect DEF Numbered, Early, SameTries, SameRecord
<1>9. CASE Publication(k)
  BY <1>0, <1>9, PublicationEffect DEF Publication, Numbered, Early, SameOther, SameTries, SameRecord
<1> QED
  BY <1>1, <1>2, <1>3, <1>4, <1>5, <1>6, <1>7, <1>8, <1>9, OneStep

LEMMA UnwrittenStep ==
  ASSUME Typing, NEW k \in Jobs, Unwritten(k), [Next]_vars
  PROVE  Unwritten(k)'
<1>1. CASE job'[k] = job[k]
  BY <1>1 DEF Unwritten
<1>2. CASE Request(k)
  BY <1>2, RequestEffect DEF Unwritten, SameDoc
<1>3. CASE RunWhat(k)
  BY <1>3, WhatEffect DEF Unwritten, AfterWhat, Again
<1>4. CASE AskWhat(k)
  BY <1>4, AskEffect DEF Unwritten
<1>5. CASE RunHow(k)
  BY <1>5, HowEffect DEF Unwritten, Onward
<1>6. CASE RunChecker(k)
  BY <1>6, CheckEffect DEF Unwritten, Onward
<1>7. CASE Escalate(k)
  BY <1>7, EscalateEffect DEF Unwritten, Onward
<1>8. CASE DecideQuality(k)
  BY <1>8, DecideEffect DEF Unwritten
<1>9. CASE Publication(k)
  BY <1>9, PublicationEffect DEF Publication, Unwritten
<1> QED
  BY <1>1, <1>2, <1>3, <1>4, <1>5, <1>6, <1>7, <1>8, <1>9, OneStep

LEMMA StreakStep ==
  ASSUME Typing, NEW k \in Jobs, Streak(k), [Next]_vars
  PROVE  Streak(k)'
<1>0. job[k].history \in Seq(Attempts) /\ Len(job[k].history) \in Nat /\ job[k].missing \in Nat
  BY DEF Typing, JobStates
<1>1. CASE job'[k] = job[k]
  BY <1>1 DEF Streak
<1>2. CASE Request(k)
  BY <1>2, RequestEffect DEF Streak, Looping, Early, SameOther, SameCount, SameRecord
<1>3. CASE RunWhat(k)
  BY <1>3, WhatEffect DEF Streak, Looping, Early, SameOther, SameCount, SameRecord, AfterWhat
<1>4. CASE AskWhat(k)
  BY <1>4, AskEffect DEF Streak, Looping, Early, SameOther, SameCount, SameRecord
<1>5. CASE RunHow(k)
  BY <1>5, HowEffect DEF Streak, Looping, Early, SameCount, SameRecord, Onward
<1>6. CASE RunChecker(k)
  <2> DEFINE told == job[k].history
  <2>1. PICK a \in Attempts :
           /\ job'[k].history = Append(told, a)
           /\ \/ job'[k].at = "compare"
              \/ /\ job'[k].at = IF Escalates(k, a) THEN "escalate" ELSE Onward(Broken(k, a))
                 /\ job'[k].missing = Counted(k, a).n /\ job'[k].tokens = Counted(k, a).toks
    BY <1>6, CheckEffect
  <2>2. /\ Len(job'[k].history) = Len(told) + 1
        /\ job'[k].history[Len(told) + 1] = a
        /\ \A i \in 1 .. Len(told) : job'[k].history[i] = told[i]
    BY <1>0, <2>1
  <2>3. job[k].at \in Looping
    BY <1>6, CheckEffect DEF Looping, Early
  <2>4. CASE job'[k].at = "compare"
    BY <2>4 DEF Streak, Looping, Early
  <2>5. CASE /\ job'[k].at = IF Escalates(k, a) THEN "escalate" ELSE Onward(Broken(k, a))
             /\ job'[k].missing = Counted(k, a).n /\ job'[k].tokens = Counted(k, a).toks
    <3>1. job'[k].at = "escalate" => job'[k].missing >= 3
      BY <2>5 DEF Escalates, Onward
    <3>2. CASE Kind[k] = "exploration"
      <4>1. job'[k].missing = 0 /\ job'[k].tokens = {}
        BY <2>5, <3>2 DEF Counted
      <4> QED
        BY <1>0, <2>2, <3>1, <4>1 DEF Streak
    <3>3. CASE Kind[k] # "exploration" /\ a.missing # {} /\ Common(k, a) # {}
      <4>1. job'[k].missing = job[k].missing + 1 /\ job'[k].tokens = Common(k, a)
        BY <2>5, <3>3 DEF Counted
      <4>2. Common(k, a) \subseteq a.missing
        BY DEF Common
      <4>3. \A i \in 1 .. Len(told) : i > Len(told) - job[k].missing => Common(k, a) \subseteq told[i].missing
        BY <1>0, <2>3 DEF Common, Streak
      <4>4. \A i \in 1 .. Len(job'[k].history) :
               i > Len(job'[k].history) - job'[k].missing => job'[k].tokens \subseteq job'[k].history[i].missing
        <5> TAKE i \in 1 .. Len(job'[k].history)
        <5>1. CASE i = Len(told) + 1
          BY <2>2, <4>1, <4>2, <5>1
        <5>2. CASE i \in 1 .. Len(told)
          <6>1. i > Len(job'[k].history) - job'[k].missing => i > Len(told) - job[k].missing
            BY <1>0, <2>2, <4>1
          <6>2. job'[k].history[i] = told[i]
            BY <2>2, <5>2
          <6> QED
            BY <4>1, <4>3, <5>2, <6>1, <6>2
        <5> QED
          BY <1>0, <2>2, <5>1, <5>2
      <4>5. job'[k].missing <= Len(job'[k].history)
        BY <1>0, <2>2, <2>3, <4>1 DEF Streak
      <4> QED
        BY <1>0, <3>1, <3>3, <4>1, <4>4, <4>5 DEF Streak
    <3>4. CASE Kind[k] # "exploration" /\ ~(a.missing # {} /\ Common(k, a) # {})
      <4>1. job'[k].missing = (IF a.missing = {} THEN 0 ELSE 1) /\ job'[k].tokens = a.missing
        BY <2>5, <3>4 DEF Counted
      <4>2. \A i \in 1 .. Len(job'[k].history) :
               i > Len(job'[k].history) - job'[k].missing => job'[k].tokens \subseteq job'[k].history[i].missing
        <5> TAKE i \in 1 .. Len(job'[k].history)
        <5>1. CASE i = Len(told) + 1
          BY <2>2, <4>1, <5>1
        <5>2. CASE i \in 1 .. Len(told)
          <6>1. CASE a.missing = {}
            BY <4>1, <6>1
          <6>2. CASE a.missing # {}
            <7>1. job'[k].missing = 1 /\ i <= Len(told) /\ i \in Nat
              BY <1>0, <4>1, <5>2, <6>2
            <7>2. ~(i > Len(job'[k].history) - job'[k].missing)
              BY <1>0, <2>2, <7>1
            <7> QED
              BY <7>2
          <6> QED
            BY <6>1, <6>2
        <5> QED
          BY <1>0, <2>2, <5>1, <5>2
      <4>3. job'[k].missing \in {0, 1} /\ ((job'[k].tokens = {}) <=> (job'[k].missing = 0))
        BY <4>1
      <4>4. job'[k].missing <= Len(job'[k].history)
        BY <1>0, <2>2, <4>3
      <4> QED
        BY <3>1, <4>2, <4>3, <4>4 DEF Streak
    <3> QED
      BY <3>2, <3>3, <3>4
  <2> QED
    BY <2>1, <2>4, <2>5
<1>7. CASE Escalate(k)
  BY <1>0, <1>7, EscalateEffect DEF Streak, Looping, Early, Onward, SameRecord
<1>8. CASE DecideQuality(k)
  BY <1>8, DecideEffect DEF Streak, Looping, Early
<1>9. CASE Publication(k)
  BY <1>9, PublicationEffect DEF Publication, Streak, Looping, Early
<1> QED
  BY <1>1, <1>2, <1>3, <1>4, <1>5, <1>6, <1>7, <1>8, <1>9, OneStep

LEMMA SameHistory ==
  ASSUME NEW k \in Jobs, SameRecord(k)
  PROVE  InHistory(k)' = InHistory(k)
BY DEF SameRecord, InHistory

LEMMA GrownHistory ==
  ASSUME Typing, NEW k \in Jobs, NEW a \in Attempts, job'[k].history = Append(job[k].history, a)
  PROVE  InHistory(k)' = InHistory(k) \cup {a}
<1>1. job[k].history \in Seq(Attempts) /\ Len(job[k].history) \in Nat
  BY DEF Typing, JobStates
<1>2. /\ DOMAIN job[k].history = 1 .. Len(job[k].history)
      /\ DOMAIN job'[k].history = 1 .. Len(job[k].history) + 1
      /\ job'[k].history[Len(job[k].history) + 1] = a
      /\ \A i \in 1 .. Len(job[k].history) : job'[k].history[i] = job[k].history[i]
  BY <1>1
<1> QED
  BY <1>1, <1>2 DEF InHistory

LEMMA UncleanStep ==
  ASSUME Typing, NEW k \in Jobs, Unclean(k), [Next]_vars
  PROVE  Unclean(k)'
<1>1. CASE job'[k] = job[k]
  BY <1>1 DEF Unclean, InHistory
<1>2. CASE Request(k)
  BY <1>2, RequestEffect, SameHistory DEF Unclean, Looping, Early, SameOther, SameChoice
<1>3. CASE RunWhat(k)
  BY <1>3, WhatEffect, SameHistory DEF Unclean, Looping, Early, SameOther, SameChoice
<1>4. CASE AskWhat(k)
  BY <1>4, AskEffect, SameHistory DEF Unclean, Looping, Early, SameOther, SameChoice
<1>5. CASE RunHow(k)
  BY <1>5, HowEffect, SameHistory DEF Unclean, Looping, Early, SameChoice
<1>6. CASE RunChecker(k)
  BY <1>6, CheckEffect, GrownHistory DEF Unclean, Looping, Early
<1>7. CASE Escalate(k)
  BY <1>7, EscalateEffect, SameHistory DEF Unclean, Looping, Early, SameChoice
<1>8. CASE DecideQuality(k)
  BY <1>8, DecideEffect DEF Unclean, Looping, Early
<1>9. CASE Publication(k)
  BY <1>9, PublicationEffect DEF Publication, Unclean, Looping, Early
<1> QED
  BY <1>1, <1>2, <1>3, <1>4, <1>5, <1>6, <1>7, <1>8, <1>9, OneStep

LEMMA DecidedStep ==
  ASSUME Typing, NEW k \in Jobs, Numbered(k), Unclean(k), Decided(k), [Next]_vars
  PROVE  Decided(k)'
<1>1. CASE job'[k] = job[k]
  BY <1>1 DEF Decided, InHistory
<1>2. CASE Request(k)
  BY <1>2, RequestEffect DEF Decided
<1>3. CASE RunWhat(k)
  BY <1>3, WhatEffect DEF Decided, AfterWhat
<1>4. CASE AskWhat(k)
  BY <1>4, AskEffect DEF Decided
<1>5. CASE RunHow(k)
  BY <1>5, HowEffect DEF Decided, Onward
<1>6. CASE RunChecker(k)
  <2>1. PICK a \in Attempts :
           /\ a.no = job[k].how /\ job'[k].history = Append(job[k].history, a)
           /\ \/ Clean(a) /\ job'[k].at = "compare" /\ job'[k].served = a
              \/ job'[k].at \in {"escalate", "how", "decide"}
    BY <1>6, CheckEffect DEF Onward
  <2>2. job[k].at = "check" /\ job'[k].reason = job[k].reason
    BY <1>6, CheckEffect
  <2>3. /\ InHistory(k)' = InHistory(k) \cup {a} /\ job[k].reason = None
        /\ \A c \in InHistory(k) : ~Clean(c)
    BY <2>1, <2>2, GrownHistory DEF Unclean, Looping, Early
  <2>4. \A c \in InHistory(k) \cup {a} : ~(c.no > job[k].how)
    <3>1. job[k].how \in Nat
      BY DEF Typing, JobStates
    <3>2. \A c \in Attempts : c.no \in Nat
      BY DEF Attempts
    <3>3. \A c \in InHistory(k) : c.no <= job[k].how /\ c \in Attempts
      BY HistoryTypes DEF Numbered
    <3> QED
      BY <2>1, <3>1, <3>2, <3>3
  <2> QED
    BY <2>1, <2>2, <2>3, <2>4 DEF Decided
<1>7. CASE Escalate(k)
  BY <1>7, EscalateEffect DEF Decided, Onward
<1>8. CASE DecideQuality(k)
  <2>1. CASE job'[k].at = "fallback"
    BY <2>1 DEF Decided
  <2>2. CASE /\ job[k].history # <<>> /\ job'[k].at = "compare"
             /\ job'[k].served = BestAttempt(Pool(k)) /\ job'[k].reason = ReviewReason(k)
    <3> DEFINE best == BestAttempt(Pool(k))
    <3>1. best \in Pool(k) /\ Pool(k) \subseteq InHistory(k) /\ \A a \in Pool(k) : AtLeast(best, a)
      BY <2>2, PoolTypes
    <3>2. InHistory(k)' = InHistory(k) /\ \A a \in InHistory(k) : ~Clean(a)
      BY <1>8, DecideEffect, SameHistory DEF Unclean
    <3>3. ReviewReason(k) # None
      BY Known, LoopConstants DEF Reasons
    <3>4. \A a \in InHistory(k) : /\ a.score \in Nat /\ a.no \in Nat
                                  /\ a.scored \in BOOLEAN /\ a.valid \in BOOLEAN
      <4>1. \A a \in Attempts : /\ a.score \in Nat /\ a.no \in Nat
                                /\ a.scored \in BOOLEAN /\ a.valid \in BOOLEAN
        BY DEF Attempts
      <4> QED
        BY <4>1, HistoryTypes
    <3>5. ASSUME NEW a \in InHistory(k)
          PROVE  ~Outranks(a, best) /\ (a.no > best.no => Outranks(best, a))
      <4>1. CASE a \in Pool(k)
        <5>1. AtLeast(best, a) /\ a.valid = best.valid
          BY <3>1, <3>4, <4>1 DEF Pool
        <5> HIDE DEF best
        <5> QED
          BY <3>1, <3>4, <5>1 DEF AtLeast, Outranks
      <4>2. CASE a \notin Pool(k)
        <5>1. best.valid /\ ~a.valid
          BY <3>1, <4>2 DEF Pool
        <5> QED
          BY <5>1 DEF Outranks
      <4> QED
        BY <4>1, <4>2
    <3> HIDE DEF best
    <3> QED
      BY <2>2, <3>1, <3>2, <3>3, <3>5 DEF Decided, best
  <2> QED
    BY <1>8, <2>1, <2>2, DecideEffect
<1>9. CASE Publication(k)
  <2>1. SameRecord(k) /\ SameChoice(k)
    BY <1>9, PublicationEffect DEF Publication, SameOther
  <2>2. job'[k].at \in {"compare", "publish", "record"} => job[k].at \in {"compare", "publish", "record"}
    BY <1>9, PublicationEffect DEF Publication
  <2> QED
    BY <2>1, <2>2, SameHistory DEF Decided, SameChoice
<1> QED
  BY <1>1, <1>2, <1>3, <1>4, <1>5, <1>6, <1>7, <1>8, <1>9, OneStep

-------------------------------------------------------------------------------
(* The theorems.                                                           *)

LEMMA InvInit == Init => Inv
<1> SUFFICES ASSUME Init PROVE Inv
  OBVIOUS
<1>1. Typing
  BY TypingInit
<1>2. \A j \in Jobs : job[j] = NewJob
  BY DEF Init
<1>3. scenario.ceiling \in Nat
  BY <1>1, ScenarioTypes
<1>4. \A j \in Jobs : Limited(j) /\ Numbered(j) /\ Unwritten(j) /\ Streak(j) /\ Unclean(j) /\ Decided(j)
  BY <1>2, <1>3, LoopConstants
     DEF NewJob, Limited, Numbered, Unwritten, Streak, Unclean, Decided, InHistory
<1> QED
  BY <1>1, <1>4 DEF Inv

LEMMA InvStep == Inv /\ [Next]_vars => Inv'
<1> SUFFICES ASSUME Inv, [Next]_vars PROVE Inv'
  OBVIOUS
<1>1. Typing'
  BY TypingStep DEF Inv
<1>2. ASSUME NEW j \in Jobs
      PROVE  /\ Limited(j)' /\ Numbered(j)' /\ Unwritten(j)'
             /\ Streak(j)' /\ Unclean(j)' /\ Decided(j)'
  BY LimitedStep, NumberedStep, UnwrittenStep, StreakStep, UncleanStep, DecidedStep DEF Inv
<1> QED
  BY <1>1, <1>2 DEF Inv

LEMMA InvHolds == Spec => []Inv
BY InvInit, InvStep, PTL DEF Spec

\* The counters stay within the limits the job has read: the maker is not called
\* more often than QUALITY_MAX_ATTEMPTS, the WHAT doc not written anew more often
\* than QUALITY_MAX_WHAT_REWORKS, and the loop goes on only below the stop.
THEOREM LoopIsBounded == Spec => []TypeOK
<1>1. Inv => TypeOK
  <2> SUFFICES ASSUME Inv PROVE TypeOK
    OBVIOUS
  <2>1. scenario \in Scenarios /\ scenario.edits \in Nat /\ scenario.ceiling \in Nat
    BY ScenarioTypes DEF Inv, Typing
  <2>2. source \in [Kinds -> (0 .. scenario.edits) \cup {None}]
    BY <2>1 DEF Inv, Typing
  <2>3. ASSUME NEW j \in Jobs
        PROVE  /\ job[j].how \in 0 .. scenario.ceiling
               /\ job[j].streak \in 0 .. StructuralStop
               /\ job[j].reworks \in 0 .. MaxReworks
               /\ job[j].what \in WhatAnswers
               /\ Len(job[j].history) <= job[j].how
               /\ job[j].status \in Statuses
    <3>1. Limited(j) /\ Numbered(j) /\ Typing
      BY DEF Inv
    <3>2. job[j].how \in Nat /\ job[j].streak \in Nat /\ job[j].reworks \in Nat
      BY <3>1 DEF Typing, JobStates
    <3>3. job[j].what \in WhatAnswers /\ job[j].status \in Statuses
      BY <3>1 DEF Typing, JobStates
    <3> QED
      BY <2>1, <3>1, <3>2, <3>3, LoopConstants DEF Limited, Numbered
  <2> QED
    BY <2>1, <2>2, <2>3 DEF TypeOK, Statuses
<1> QED
  BY <1>1, InvHolds, PTL

\* Whatever a job publishes or serves is the best it has: a clean attempt without
\* a flag, or flagged the one no other attempt outranks; the deterministic page
\* only when no attempt is on record.
THEOREM BestIsServed == Spec => []ServedIsBest
<1>1. Inv => ServedIsBest
  BY DEF Inv, Decided, Numbered, Early, ServedIsBest
<1> QED
  BY <1>1, InvHolds, PTL

\* Only three verdicts in a row that name one token get the WHAT doc written anew.
THEOREM EscalationIsEarned == Spec => []EscalationEarned
<1>1. Inv => EscalationEarned
  <2> SUFFICES ASSUME Inv, NEW j \in Jobs, job[j].at = "escalate"
               PROVE  LET told == job[j].history
                          n == Len(told) IN
                      n >= 3 /\ told[n].missing \cap told[n - 1].missing \cap told[n - 2].missing # {}
    BY DEF EscalationEarned, At
  <2> DEFINE told == job[j].history
             n == Len(told)
  <2>1. told \in Seq(Attempts) /\ n \in Nat /\ job[j].missing \in Nat
    BY DEF Inv, Typing, JobStates
  <2>2. /\ job[j].missing <= n /\ job[j].missing >= 3 /\ job[j].tokens # {}
        /\ \A i \in 1 .. n : i > n - job[j].missing => job[j].tokens \subseteq told[i].missing
    BY <2>1 DEF Inv, Streak, Looping
  <2> HIDE DEF n
  <2>3. /\ n >= 3 /\ n \in 1 .. n /\ n - 1 \in 1 .. n /\ n - 2 \in 1 .. n
        /\ n > n - job[j].missing /\ n - 1 > n - job[j].missing /\ n - 2 > n - job[j].missing
    BY <2>1, <2>2
  <2>4. /\ job[j].tokens \subseteq told[n].missing
        /\ job[j].tokens \subseteq told[n - 1].missing
        /\ job[j].tokens \subseteq told[n - 2].missing
    BY <2>1, <2>2, <2>3
  <2> QED
    BY <2>2, <2>3, <2>4 DEF n
<1> QED
  BY <1>1, InvHolds, PTL

\* No rewrite, whatever the agents answer, takes a passing WHAT doc away.
THEOREM GoodWhatIsKept == Spec => GoodWhatKept
<1>1. ASSUME Inv, [Next]_vars
      PROVE  [\A j \in Jobs : job[j].what = "passing" => job'[j].what = "passing"]_vars
  <2>1. ASSUME NEW k \in Jobs, job[k].what = "passing"
        PROVE  job'[k].what = "passing"
    <3>1. Typing /\ Unwritten(k)
      BY <1>1 DEF Inv
    <3>2. CASE Request(k) \/ RunHow(k) \/ RunChecker(k) \/ DecideQuality(k) \/ Publication(k)
      BY <2>1, <3>1, <3>2, RequestEffect, HowEffect, CheckEffect, DecideEffect, PublicationEffect
         DEF Publication, SameDoc
    <3>3. CASE RunWhat(k)
      BY <2>1, <3>1, <3>3, WhatEffect DEF Unwritten
    <3>4. CASE AskWhat(k) \/ Escalate(k)
      BY <2>1, <3>1, <3>4, AskEffect, EscalateEffect DEF Retained
    <3> QED
      BY <1>1, <2>1, <3>1, <3>2, <3>3, <3>4, OneStep
  <2> QED
    BY <2>1
<1> QED
  BY <1>1, InvHolds, PTL DEF Spec, GoodWhatKept

===============================================================================
