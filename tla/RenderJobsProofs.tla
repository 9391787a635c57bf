---------------------------- MODULE RenderJobsProofs ----------------------------
(* Proofs about RenderJobs, for every number of browsers, slots, jobs,         *)
(* contents, edits, exceptions and restarts.                                   *)
EXTENDS RenderJobs, FiniteSetTheorems, TLAPS

-------------------------------------------------------------------------------
(* Type correctness.                                                       *)

Row == [hash : Contents, status : Statuses, old : BOOLEAN]

\* Only jobs that have a row have a thread.
Placed == \A i \in Jobs : thread[i].at # "none" => i \in DOMAIN rows

\* Every slot is either free or held by a job.
Counted == permits + Cardinality(held) = MaxInflight

\* A request that is to start a job has read a content.
Asking == \A v \in Viewers : viewer[v].at = "starting" => viewer[v].hash \in Contents

\* A thread that waits for a slot, or has given it back, holds none; one at work
\* holds one.
Holding == held = Inflight

Typed == TypeOK /\ Placed /\ Counted /\ Holding /\ Asking

\* Jobs have numbers up to MaxJobs.
LEMMA DomainInJobs ==
  ASSUME TypeOK
  PROVE  /\ rows \in Seq(Row) /\ Len(rows) \in Nat
         /\ DOMAIN rows = 1 .. Len(rows)
         /\ DOMAIN rows \subseteq Jobs
<1>1. rows \in Seq(Row) /\ Len(rows) <= MaxJobs
  BY DEF TypeOK, Row
<1>2. Len(rows) \in Nat /\ DOMAIN rows = 1 .. Len(rows)
  BY <1>1
<1>3. MaxJobs \in Nat
  BY RenderConstants
<1>4. 1 .. Len(rows) \subseteq 1 .. MaxJobs
  BY <1>1, <1>2, <1>3
<1> QED BY <1>1, <1>2, <1>4 DEF Jobs

\* Finitely many jobs hold a slot.
LEMMA HeldFinite == ASSUME TypeOK PROVE IsFiniteSet(held) /\ Cardinality(held) \in Nat
<1>1. IsFiniteSet(1 .. Len(rows))
  BY DomainInJobs, FS_Interval
<1> QED BY <1>1, DomainInJobs, FS_Subset, FS_CardinalityType DEF TypeOK

\* A row may be replaced by a row.
LEMMA RowSet ==
  ASSUME TypeOK, NEW i \in DOMAIN rows, NEW row \in Row
  PROVE  /\ [rows EXCEPT ![i] = row] \in Seq(Row)
         /\ Len([rows EXCEPT ![i] = row]) = Len(rows)
         /\ DOMAIN [rows EXCEPT ![i] = row] = DOMAIN rows
<1>1. rows \in Seq(Row)
  BY DomainInJobs
<1> QED BY <1>1

\* Another status or heartbeat leaves a row a row, of the same content.
LEMMA RowChange ==
  ASSUME NEW row \in Row, NEW status \in Statuses, NEW old \in BOOLEAN
  PROVE  /\ [row EXCEPT !.status = status] \in Row /\ [row EXCEPT !.status = status].hash = row.hash
         /\ [row EXCEPT !.old = old] \in Row /\ [row EXCEPT !.old = old].hash = row.hash
         /\ [row EXCEPT !.old = old, !.status = status] \in Row
         /\ [row EXCEPT !.old = old, !.status = status].hash = row.hash
  BY DEF Row

\* Giving slots back keeps the count, whoever gives them back.
LEMMA FreeCounts ==
  ASSUME Typed, NEW js, Free(js)
  PROVE  /\ permits' \in 0 .. MaxInflight
         /\ held' = held \ js
         /\ permits' + Cardinality(held') = MaxInflight
<1>1. /\ IsFiniteSet(held) /\ Cardinality(held) \in Nat
      /\ IsFiniteSet(held \ js) /\ Cardinality(held \ js) \in Nat
      /\ IsFiniteSet(held \cap js) /\ Cardinality(held \cap js) \in Nat
  BY HeldFinite, FS_Subset, FS_CardinalityType DEF Typed
<1>2. Cardinality(held \ js) = Cardinality(held) - Cardinality(held \cap js)
  BY <1>1, FS_Difference
<1>3. permits \in Nat /\ MaxInflight \in Nat /\ permits + Cardinality(held) = MaxInflight
  <2>1. permits \in 0 .. MaxInflight
    BY DEF Typed, TypeOK
  <2> QED BY <2>1, RenderConstants DEF Typed, Counted
<1>4. held' = held \ js /\ permits' = permits + Cardinality(held \cap js)
  BY DEF Free
<1>5. permits' + Cardinality(held') = MaxInflight /\ permits' \in Nat
  BY <1>1, <1>2, <1>3, <1>4
<1>6. permits' <= MaxInflight
  BY <1>1, <1>3, <1>4, <1>5
<1> QED BY <1>3, <1>4, <1>5, <1>6

\* A step that leaves the slots alone keeps their count, and who holds them if no
\* thread moves.
LEMMA SlotsStay ==
  ASSUME UNCHANGED slots
  PROVE  (Counted => Counted') /\ (Holding /\ UNCHANGED thread => Holding')
  BY DEF Counted, Holding, Inflight, Alive, slots

\* The steps of a browser keep the types.
LEMMA ViewerTyped ==
  ASSUME Typed, NEW v \in Viewers, Resolve(v) \/ View(v)
  PROVE  Typed'
<1> USE RenderConstants DEF Typed, Placed, Asking, Rest, File, jobs, counts
<1>1. CASE Resolve(v)
  <2>1. StaleRows \subseteq DOMAIN rows
    BY DEF StaleRows
  <2>2. viewer' \in [Viewers -> [at : {"idle", "stub", "late stub", "reaping", "starting", "polling"},
                                hash : File, orphans : SUBSET DOMAIN rows]]
    BY <1>1, <2>1 DEF Resolve, TypeOK
  <2> QED BY <1>1, <2>2, SlotsStay DEF Resolve, TypeOK, slots
<1>2. CASE Reap(v)
  <2>1. rows' \in Seq(Row) /\ Len(rows') = Len(rows) /\ DOMAIN rows' = DOMAIN rows
    <3>1. rows \in Seq(Row)
      BY DomainInJobs
    <3>2. \A i \in DOMAIN rows : rows[i] \in Row /\ [rows[i] EXCEPT !.status = "failed"] \in Row
      <4>1. \A i \in DOMAIN rows : rows[i] \in Row
        BY <3>1
      <4>2. "failed" \in Statuses
        BY DEF Statuses
      <4> QED BY <4>1, <4>2, RowChange
    <3>3. rows' = [i \in DOMAIN rows |->
             IF i \in Reaped(v) THEN [rows[i] EXCEPT !.status = "failed"] ELSE rows[i]]
      BY <1>2 DEF Reap
    <3>4. rows' \in [1 .. Len(rows) -> Row]
      BY <3>2, <3>3, DomainInJobs
    <3> QED BY <3>4, DomainInJobs
  <2>2. permits' \in 0 .. MaxInflight /\ held' \subseteq held /\ Counted'
    BY <1>2, FreeCounts DEF Reap, Counted
  <2>3. registry' \in [Contents -> {0} \cup DOMAIN rows]
    BY <1>2 DEF Reap, TypeOK
  <2>4. viewer' \in [Viewers -> [at : {"idle", "stub", "late stub", "reaping", "starting", "polling"},
                                hash : File, orphans : SUBSET DOMAIN rows]]
    BY <1>2 DEF Reap, TypeOK
  <2>5. Holding'
    <3>1. \A c \in {rows[i].hash : i \in Reaped(v)} : registry[c] \notin Inflight
      BY DEF Reaped, Live, Inflight, Jobs
    <3>2. held' = held
      BY <1>2, <3>1 DEF Reap, Free, Holding
    <3> QED BY <1>2, <3>2 DEF Reap, Holding, Inflight, Alive
  <2> QED BY <1>2, <2>1, <2>2, <2>3, <2>4, <2>5 DEF Reap, TypeOK, Row
<1>3. CASE Start(v)
  <2>1. viewer' \in [Viewers -> [at : {"idle", "stub", "late stub", "reaping", "starting", "polling"},
                                hash : File, orphans : SUBSET DOMAIN rows]]
    BY <1>3 DEF Start, TypeOK
  <2>2. CASE UNCHANGED jobs
    BY <1>3, <2>1, <2>2, SlotsStay DEF Start, TypeOK, slots
  <2>3. CASE ~UNCHANGED jobs
    <3> DEFINE c == viewer[v].hash
               n == Len(rows) + 1
               row == [hash |-> c, status |-> "running", old |-> FALSE]
    <3>1. /\ rows' = Append(rows, row)
          /\ Len(rows) < MaxJobs
          /\ thread' = [thread EXCEPT ![Len(rows')] = [NoThread EXCEPT !.at = "queued"]]
          /\ registry' = [registry EXCEPT ![c] = Len(rows')]
      BY <1>3, <2>3 DEF Start
    <3>2. c \in Contents
      BY <1>3 DEF Start, TypeOK
    <3>3. row \in Row
      BY <3>2 DEF Row, Statuses
    <3>4. rows' \in Seq(Row) /\ Len(rows') = n /\ DOMAIN rows' = DOMAIN rows \cup {n} /\ n \in Jobs
      <4>1. rows \in Seq(Row) /\ Len(rows) \in Nat /\ MaxJobs \in Nat
        BY DomainInJobs, RenderConstants
      <4>2. rows' \in Seq(Row) /\ Len(rows') = n
        BY <3>1, <3>3, <4>1
      <4>3. DOMAIN rows' = DOMAIN rows \cup {n}
        BY <4>1, <4>2
      <4>4. n \in Jobs
        BY <3>1, <4>1 DEF Jobs
      <4> QED BY <4>2, <4>3, <4>4
    <3>5. thread' \in [Jobs -> [at : Places, carry : File]]
      BY <3>1, <3>4 DEF TypeOK, NoThread, Places
    <3>6. registry' \in [Contents -> {0} \cup DOMAIN rows']
      BY <3>1, <3>2, <3>4 DEF TypeOK
    <3>7. Placed'
      BY <3>1, <3>4 DEF TypeOK
    <3>8. viewer' \in [Viewers -> [at : {"idle", "stub", "late stub", "reaping", "starting", "polling"},
                                  hash : File, orphans : SUBSET DOMAIN rows']]
      BY <2>1, <3>4
    <3>9. Asking' /\ Counted' /\ held' \subseteq DOMAIN rows' /\ permits' \in 0 .. MaxInflight
      BY <1>3, <3>4, SlotsStay DEF Start, TypeOK, slots
    <3>10. UNCHANGED <<source, page, edits, faults, restarts>> /\ Len(rows') <= MaxJobs
      BY <1>3, <3>4, RenderConstants DEF Start, Jobs
    <3>11. Holding'
      <4>1. n \notin DOMAIN rows
        BY DomainInJobs
      <4>2. thread[n].at = "none" /\ thread'[n].at = "queued"
        BY <3>1, <3>4, <4>1 DEF TypeOK, NoThread
      <4>3. \A j \in Jobs \ {n} : thread'[j] = thread[j]
        BY <3>1, <3>4 DEF TypeOK
      <4>4. Inflight' = Inflight
        BY <3>4, <4>2, <4>3 DEF Inflight, Alive
      <4> QED BY <1>3, <4>4 DEF Start, slots, Holding
    <3> QED BY <3>4, <3>5, <3>6, <3>7, <3>8, <3>9, <3>10, <3>11 DEF TypeOK, Row
  <2> QED BY <2>2, <2>3
<1>4. CASE StubReads(v)
  BY <1>4, SlotsStay DEF StubReads, NeedsPage, Served, TypeOK, slots
<1>5. CASE StubWrites(v)
  BY <1>5, SlotsStay DEF StubWrites, Served, TypeOK, slots
<1>6. CASE Poll(v)
  BY <1>6, SlotsStay DEF Poll, TypeOK, slots
<1> QED BY <1>1, <1>2, <1>3, <1>4, <1>5, <1>6 DEF View

\* What a step of a thread may do to the rows and to the threads: change the
\* status or the heartbeat of its own row, and go on.
Mended(i) ==
    /\ rows' \in Seq(Row) /\ Len(rows') = Len(rows) /\ DOMAIN rows' = DOMAIN rows
    /\ \A j \in DOMAIN rows : rows'[j].hash = rows[j].hash
    /\ \A j \in DOMAIN rows \ {i} : rows'[j] = rows[j]

Moved(i) ==
    /\ thread' \in [Jobs -> [at : Places, carry : File]]
    /\ \A j \in Jobs \ {i} : thread'[j] = thread[j]

\* Each way in which the code changes a row mends it.
LEMMA RowMended ==
  ASSUME TypeOK, NEW i \in DOMAIN rows, NEW status \in Statuses, NEW old \in BOOLEAN,
         \/ rows' = rows
         \/ rows' = [rows EXCEPT ![i].status = status]
         \/ rows' = [rows EXCEPT ![i].old = old]
         \/ rows' = [rows EXCEPT ![i].old = old, ![i].status = status]
  PROVE  Mended(i)
<1>1. rows \in Seq(Row) /\ rows[i] \in Row
  BY DomainInJobs
<1>2. CASE rows' = rows
  BY <1>1, <1>2 DEF Mended
<1>3. ASSUME NEW row \in Row, row.hash = rows[i].hash, rows' = [rows EXCEPT ![i] = row]
      PROVE  Mended(i)
  BY <1>1, <1>3, RowSet DEF Mended
<1>4. CASE rows' = [rows EXCEPT ![i].status = status]
  BY <1>1, <1>3, <1>4, RowChange
<1>5. CASE rows' = [rows EXCEPT ![i].old = old]
  BY <1>1, <1>3, <1>5, RowChange
<1>6. CASE rows' = [rows EXCEPT ![i].old = old, ![i].status = status]
  <2>1. rows' = [rows EXCEPT ![i] = [rows[i] EXCEPT !.old = old, !.status = status]]
    BY <1>1, <1>6
  <2> DEFINE row == [rows[i] EXCEPT !.old = old, !.status = status]
  <2>2. row \in Row /\ row.hash = rows[i].hash
    BY <1>1, RowChange
  <2>3. rows' = [rows EXCEPT ![i] = row]
    BY <2>1
  <2> HIDE DEF row
  <2> QED BY <1>3, <2>2, <2>3
<1> QED BY <1>2, <1>4, <1>5, <1>6

\* A thread goes to one of the places, with a content or nothing to write.
LEMMA ThreadMoved ==
  ASSUME TypeOK, NEW i \in Jobs, NEW where \in Places, NEW carry \in File,
         \/ thread' = thread
         \/ thread' = [thread EXCEPT ![i] = [at |-> where, carry |-> carry]]
  PROVE  Moved(i)
<1>1. thread \in [Jobs -> [at : Places, carry : File]]
  BY DEF TypeOK
<1>2. [at |-> where, carry |-> carry] \in [at : Places, carry : File]
  OBVIOUS
<1> QED BY <1>1, <1>2 DEF Moved

\* GoTo is such a move.
LEMMA GoesTo ==
  ASSUME TypeOK, NEW i \in Jobs, NEW where \in Places, GoTo(i, where)
  PROVE  Moved(i) /\ thread'[i].at = where
<1>1. None \in File
  BY DEF File
<1>2. thread' = [thread EXCEPT ![i] = [at |-> where, carry |-> None]]
  <2>1. [NoThread EXCEPT !.at = where] = [at |-> where, carry |-> None]
    BY DEF NoThread
  <2> QED BY <2>1 DEF GoTo
<1>3. thread'[i].at = where
  BY <1>2 DEF TypeOK
<1> QED BY <1>1, <1>2, <1>3, ThreadMoved

\* A step of a thread mends its row and moves it, and it has a row.
LEMMA ThreadSteps ==
  ASSUME Typed, NEW i \in Jobs, Work(i) \/ Raise(i) \/ HeartbeatAges(i)
  PROVE  i \in DOMAIN rows /\ Mended(i) /\ Moved(i)
<1> USE DEF Typed
<1>1. thread[i].at # "none" => i \in DOMAIN rows
  BY DEF Placed
<1>2. {"running", "published", "superseded", "fallback", "failed"} = Statuses
  BY DEF Statuses
<1>3. {"none", "queued", "pipeline", "replace", "record", "reanchor", "fallback",
       "rescue", "write", "settle", "release", "leave", "dead"} = Places
  BY DEF Places
<1>4. i \in DOMAIN rows /\ UNCHANGED rows => Mended(i)
  BY RowMended, <1>2
<1>5. UNCHANGED thread => Moved(i)
  BY ThreadMoved, <1>3 DEF File
<1>6. CASE Acquire(i)
  BY <1>1, <1>3, <1>4, <1>6, GoesTo DEF Acquire, At
<1>7. CASE PipelineEnds(i)
  <2>1. i \in DOMAIN rows
    BY <1>1, <1>7 DEF PipelineEnds, At
  <2>2. PICK next \in {"replace", "fallback"} : Compare(i, next)
    BY <1>7 DEF PipelineEnds
  <2>3. Outcome \in Statuses
    BY <1>2 DEF Outcome
  <2> QED BY <1>3, <2>1, <2>2, <2>3, GoesTo, RowMended DEF Compare
<1>8. CASE Replace(i)
  BY <1>1, <1>3, <1>4, <1>8, GoesTo DEF Replace, At
<1>9. CASE Record(i)
  BY <1>1, <1>2, <1>3, <1>9, GoesTo, RowMended DEF Record, At, Finalized
<1>10. CASE Reanchor(i)
  BY <1>1, <1>3, <1>4, <1>10, GoesTo DEF Reanchor, At
<1>11. CASE Raise(i)
  BY <1>1, <1>2, <1>3, <1>4, <1>11, GoesTo, RowMended DEF Raise, At, Finalized
<1>12. CASE Rerender(i)
  <2>1. source \in File /\ None \in File
    BY DEF TypeOK, File
  <2>2. Moved(i)
    <3>1. CASE NeedsPage
      <4>1. thread' = [thread EXCEPT ![i] = [at |-> "write", carry |-> source]]
        BY <1>12, <3>1 DEF Rerender
      <4> QED BY <1>3, <2>1, <4>1, ThreadMoved
    <3>2. CASE ~NeedsPage
      <4>1. GoTo(i, "settle")
        BY <1>12, <3>2 DEF Rerender, GoTo
      <4> QED BY <1>3, <4>1, GoesTo
    <3> QED BY <3>1, <3>2
  <2> QED BY <1>1, <1>4, <1>12, <2>2 DEF Rerender
<1>13. CASE Write(i)
  BY <1>1, <1>3, <1>4, <1>13, GoesTo DEF Write, At
<1>14. CASE Settle(i)
  BY <1>1, <1>2, <1>3, <1>14, GoesTo, RowMended DEF Settle, At, Finalized
<1>15. CASE Release(i)
  BY <1>1, <1>3, <1>4, <1>15, GoesTo DEF Release, At
<1>16. CASE Leave(i)
  BY <1>1, <1>3, <1>4, <1>16, GoesTo DEF Leave, At
<1>17. CASE HeartbeatAges(i)
  BY <1>2, <1>5, <1>17, RowMended DEF HeartbeatAges
<1> QED BY <1>6, <1>7, <1>8, <1>9, <1>10, <1>11, <1>12, <1>13, <1>14, <1>15, <1>16, <1>17 DEF Work

\* The slots of a step of a thread: taken, given back or left alone.
LEMMA ThreadSlots ==
  ASSUME Typed, NEW i \in Jobs, Work(i) \/ Raise(i) \/ HeartbeatAges(i)
  PROVE  permits' \in 0 .. MaxInflight /\ held' \subseteq DOMAIN rows /\ Counted' /\ Holding'
<1> USE DEF Typed
<1>m. Moved(i)
  BY ThreadSteps
<1>1. CASE Acquire(i)
  <2>1. i \in DOMAIN rows /\ permits \in 0 .. MaxInflight /\ held \subseteq DOMAIN rows
    BY <1>1, ThreadSteps DEF Work, TypeOK
  <2>2. i \notin held
    BY <1>1 DEF Acquire, At, Holding, Inflight
  <2>3. IsFiniteSet(held) /\ Cardinality(held) \in Nat
    BY HeldFinite
  <2>4. Cardinality(held \cup {i}) = Cardinality(held) + 1
    BY <2>2, <2>3, FS_AddElement
  <2>5. permits' = permits - 1 /\ held' = held \cup {i} /\ permits > 0
    BY <1>1 DEF Acquire
  <2>6. MaxInflight \in Nat
    BY RenderConstants
  <2>7. permits' \in 0 .. MaxInflight
    BY <2>1, <2>5, <2>6
  <2>8. permits' + Cardinality(held') = permits + Cardinality(held)
    BY <2>1, <2>3, <2>4, <2>5
  <2>9. Holding'
    <3>1. thread[i].at = "queued" /\ GoTo(i, "pipeline") /\ "pipeline" \in Places
      BY <1>1 DEF Acquire, At, Places
    <3>2. thread'[i].at = "pipeline"
      BY <3>1, GoesTo
    <3>3. Inflight' = Inflight \cup {i}
      BY <1>m, <3>1, <3>2 DEF Moved, Inflight, Alive
    <3> QED BY <2>5, <3>3 DEF Holding
  <2> QED BY <2>1, <2>5, <2>7, <2>8, <2>9 DEF Counted
<1>2. CASE Release(i)
  <2>1. Holding'
    <3>1. thread[i].at = "release" /\ GoTo(i, "leave") /\ "leave" \in Places
      BY <1>2 DEF Release, At, Places
    <3>2. thread'[i].at = "leave"
      BY <3>1, GoesTo
    <3>3. Inflight' = Inflight \ {i}
      BY <1>m, <3>1, <3>2 DEF Moved, Inflight, Alive
    <3>4. held' = held \ {i}
      BY <1>2 DEF Release, Free
    <3> QED BY <3>3, <3>4 DEF Holding
  <2> QED BY <1>2, <2>1, FreeCounts DEF Release, Counted, TypeOK
<1>3. ASSUME UNCHANGED slots, i \in Inflight <=> i \in Inflight'
      PROVE  permits' \in 0 .. MaxInflight /\ held' \subseteq DOMAIN rows /\ Counted' /\ Holding'
  <2>1. Holding'
    BY <1>3, <1>m DEF Holding, Inflight, Alive, Moved, slots
  <2> QED BY <1>3, <2>1, SlotsStay DEF TypeOK, slots
<1>4. CASE ~Acquire(i) /\ ~Release(i)
  <2>1. UNCHANGED slots
    BY <1>4 DEF Work, PipelineEnds, Replace, Record, Reanchor, Rerender, Write, Settle, Leave, Raise,
                HeartbeatAges
  <2>2. thread \in [Jobs -> [at : Places, carry : File]]
    BY DEF TypeOK
  <2>3. i \in Inflight <=> i \in Inflight'
    BY <1>4, <2>2 DEF Work, PipelineEnds, Compare, Replace, Record, Reanchor, Rerender, Write, Settle, Leave,
                Raise, HeartbeatAges, At, GoTo, NoThread, Inflight, Alive
  <2> QED BY <1>3, <2>1, <2>3
<1> QED BY <1>1, <1>2, <1>4

\* What the step of a thread writes into the page and the registry.
LEMMA ThreadWrites ==
  ASSUME Typed, NEW i \in Jobs, Work(i) \/ Raise(i) \/ HeartbeatAges(i)
  PROVE  /\ page' \in File
         /\ \A c \in Contents : registry'[c] \in {0, registry[c]}
         /\ registry' \in [Contents -> {0} \cup DOMAIN rows]
         /\ UNCHANGED <<source, viewer, edits, restarts>>
         /\ faults' \in Nat
<1> USE DEF Typed
<1>1. i \in DOMAIN rows
  BY ThreadSteps
<1>2. rows[i].hash \in File /\ thread[i].carry \in File
  <2>1. rows[i] \in Row
    BY <1>1, DomainInJobs
  <2> QED BY <2>1 DEF Row, File, TypeOK
<1>3. page' \in {page, rows[i].hash, thread[i].carry} /\ UNCHANGED <<source, viewer, edits, restarts>>
  BY DEF Work, Acquire, PipelineEnds, Compare, GoTo, Replace, Record, Reanchor, Rerender, Write, Settle,
         Release, Leave, Raise, HeartbeatAges, counts
<1>4. UNCHANGED registry \/ registry' = [c \in Contents |-> IF registry[c] = i THEN 0 ELSE registry[c]]
  BY DEF Work, Acquire, PipelineEnds, Replace, Record, Reanchor, Rerender, Write, Settle,
         Release, Leave, Raise, HeartbeatAges
<1>5. faults' \in {faults, faults + 1}
  BY DEF Work, Acquire, PipelineEnds, Replace, Record, Reanchor, Rerender, Write, Settle,
         Release, Leave, Raise, HeartbeatAges, counts
<1>6. page \in File /\ faults \in Nat /\ registry \in [Contents -> {0} \cup DOMAIN rows]
  BY DEF TypeOK
<1> QED BY <1>2, <1>3, <1>4, <1>5, <1>6

\* The steps of threads keep the types.
LEMMA ThreadTyped ==
  ASSUME Typed, NEW i \in Jobs, Work(i) \/ Raise(i) \/ HeartbeatAges(i)
  PROVE  Typed'
<1>1. i \in DOMAIN rows /\ Mended(i) /\ Moved(i)
  BY ThreadSteps
<1>2. Placed'
  BY <1>1 DEF Typed, Placed, Mended, Moved
<1>3. Asking'
  BY ThreadWrites DEF Typed, Asking
<1>4. TypeOK'
  BY <1>1, ThreadSlots, ThreadWrites DEF Typed, TypeOK, Mended, Moved, Row
<1> QED BY <1>2, <1>3, <1>4, ThreadSlots DEF Typed

\* Initially.
LEMMA InitTyped == Init => Typed
<1> SUFFICES ASSUME Init PROVE Typed
  OBVIOUS
<1>1. MaxInflight \in Nat \ {0} /\ Cardinality({}) = 0
  BY RenderConstants, FS_EmptySet
<1>2. rows = <<>> /\ rows \in Seq(Row) /\ Len(rows) = 0 /\ DOMAIN rows = {}
  BY DEF Init
<1>3. TypeOK
  BY <1>1, <1>2, RenderConstants DEF Init, TypeOK, Row, File, Rest, NoThread, Places
<1>4. Placed /\ Holding /\ Asking
  BY <1>2 DEF Init, Placed, Holding, Inflight, Alive, Asking, NoThread, Rest
<1>5. Counted
  BY <1>1 DEF Init, Counted
<1> QED BY <1>3, <1>4, <1>5 DEF Typed

\* An edit and a restart keep the types.
LEMMA RestTyped == Typed /\ (Edit \/ Restart) => Typed'
<1>1. ASSUME Typed, Edit PROVE Typed'
  <2>1. /\ UNCHANGED <<page, rows, thread, registry, held, permits, viewer, faults, restarts>>
        /\ source' \in File /\ edits' = edits + 1
    BY <1>1 DEF Edit, jobs, slots
  <2>2. TypeOK'
    <3>1. edits' \in Nat
      <4>1. edits \in Nat
        BY <1>1 DEF Typed, TypeOK
      <4> QED BY <2>1, <4>1
    <3>2. UNCHANGED <<rows, held, registry>> /\ DOMAIN rows' = DOMAIN rows /\ Len(rows') = Len(rows)
      BY <2>1
    <3> QED BY <1>1, <2>1, <3>1, <3>2, Zenon DEF Typed, TypeOK
  <2>3. Placed' /\ Asking' /\ Counted' /\ Holding'
    BY <1>1, <2>1, SlotsStay DEF Typed, Placed, Asking, slots
  <2> QED BY <2>2, <2>3 DEF Typed
<1>2. ASSUME Typed, Restart PROVE Typed'
  <2>1. thread' \in [Jobs -> [at : Places, carry : File]]
    BY <1>2 DEF Typed, TypeOK, Restart, NoThread, Places, File
  <2>2. Placed' /\ \A i \in Jobs : ~Alive(i)'
    BY <1>2 DEF Typed, Placed, Restart, NoThread, Alive
  <2>3. Holding' /\ Counted'
    BY <1>2, <2>2, FS_EmptySet, RenderConstants DEF Restart, Holding, Inflight, Counted
  <2>4. TypeOK'
    <3>1. viewer' \in [Viewers -> [at : {"idle", "stub", "late stub", "reaping", "starting", "polling"},
                                  hash : File, orphans : SUBSET DOMAIN rows]]
      BY <1>2 DEF Typed, TypeOK, Restart, Rest, File
    <3>2. registry' \in [Contents -> {0} \cup DOMAIN rows] /\ permits' \in 0 .. MaxInflight
      BY <1>2, RenderConstants DEF Restart
    <3>3. /\ UNCHANGED <<source, page, rows, edits, faults>> /\ held' = {} /\ restarts' = restarts + 1
      BY <1>2 DEF Restart
    <3>4. restarts' \in Nat /\ held' \subseteq DOMAIN rows
      <4>1. restarts \in Nat
        BY <1>2 DEF Typed, TypeOK
      <4> QED BY <3>3, <4>1
    <3>5. UNCHANGED <<source, page, rows, edits, faults>> /\ DOMAIN rows' = DOMAIN rows
          /\ Len(rows') = Len(rows)
      BY <3>3
    <3> QED BY <1>2, <2>1, <3>1, <3>2, <3>4, <3>5, Zenon DEF Typed, TypeOK
  <2>5. Asking'
    BY <1>2 DEF Typed, Asking, Restart, Rest, TypeOK
  <2> QED BY <2>2, <2>3, <2>4, <2>5 DEF Typed
<1> QED BY <1>1, <1>2

\* Every step keeps the types.
LEMMA NextTyped == Typed /\ [Next]_vars => Typed'
<1>1. ASSUME Typed, UNCHANGED vars PROVE Typed'
  BY <1>1, SlotsStay DEF Typed, TypeOK, Placed, Asking, vars, jobs, slots, counts
<1> QED BY <1>1, ViewerTyped, ThreadTyped, RestTyped DEF Next

\* The types, the places, the slots and their holders, in every state.
LEMMA AlwaysTyped == Spec => []Typed
  BY InitTyped, NextTyped, PTL DEF Spec

\* Every state is of the declared types.
THEOREM TypeCorrect == Spec => []TypeOK
<1>1. Typed => TypeOK
  BY DEF Typed
<1> QED BY <1>1, AlwaysTyped, PTL

-------------------------------------------------------------------------------
(* The slots.                                                              *)

\* No more jobs are at work than there are slots, whatever is reaped, raised and
\* restarted: the slots held are the jobs at work, and free and held slots make
\* up RENDER_MAX_INFLIGHT.
THEOREM SlotsBound == Spec => []InflightBounded
<1>1. Typed => InflightBounded
  <2> SUFFICES ASSUME Typed PROVE InflightBounded
    OBVIOUS
  <2>1. permits \in 0 .. MaxInflight /\ MaxInflight \in Nat /\ Cardinality(held) \in Nat
    BY HeldFinite, RenderConstants DEF Typed, TypeOK
  <2>2. Cardinality(held) <= MaxInflight
    BY <2>1 DEF Typed, Counted
  <2> QED BY <2>2 DEF Typed, Holding, InflightBounded
<1> QED BY <1>1, AlwaysTyped, PTL

-------------------------------------------------------------------------------
(* Single flight.                                                          *)

\* The invariant: a live thread is the registered one of its content and its row
\* is the last of that content, and it has not failed before it is done.
Registered ==
    \A i \in DOMAIN rows : Alive(i) =>
        /\ registry[rows[i].hash] = i
        /\ \A j \in DOMAIN rows : rows[j].hash = rows[i].hash => j <= i
        /\ rows[i].status = "failed" => thread[i].at \in {"release", "leave"}

\* A request starts a thread only for a content without one, and reaps only rows
\* of contents without one.
LEMMA ViewerRegistered ==
  ASSUME Typed, Registered, NEW v \in Viewers, Resolve(v) \/ View(v)
  PROVE  Registered'
<1>r. \A i \in DOMAIN rows : rows[i] \in Row /\ rows[i].hash \in Contents
  <2>1. \A i \in DOMAIN rows : rows[i] \in Row
    BY DomainInJobs DEF Typed
  <2> QED BY <2>1 DEF Row
<1>1. CASE Reap(v)
  <2>1. DOMAIN rows' = DOMAIN rows /\ UNCHANGED thread
    BY <1>1, DomainInJobs DEF Reap, Typed
  <2>2. \A i \in DOMAIN rows : rows'[i].hash = rows[i].hash
    BY <1>1, <1>r DEF Reap, Row
  <2>3. ASSUME NEW i \in DOMAIN rows, Alive(i)
        PROVE  rows'[i] = rows[i] /\ registry'[rows[i].hash] = i
    <3>1. registry[rows[i].hash] = i /\ i # 0
      BY <2>3, DomainInJobs DEF Registered, Typed
    <3>2. \A j \in Reaped(v) : rows[j].hash # rows[i].hash
      BY <2>3, <3>1 DEF Reaped, Live
    <3>3. i \notin Reaped(v)
      BY <3>2
    <3> QED BY <1>1, <1>r, <3>1, <3>2, <3>3 DEF Reap
  <2> QED BY <2>1, <2>2, <2>3 DEF Registered, Alive
<1>2. CASE Start(v) /\ ~UNCHANGED jobs
  <2> DEFINE c == viewer[v].hash
             n == Len(rows) + 1
             row == [hash |-> c, status |-> "running", old |-> FALSE]
  <2>1. /\ ~Live(c)
        /\ rows' = Append(rows, row)
        /\ Len(rows) < MaxJobs
        /\ thread' = [thread EXCEPT ![Len(rows')] = [NoThread EXCEPT !.at = "queued"]]
        /\ registry' = [registry EXCEPT ![c] = Len(rows')]
    BY <1>2 DEF Start, Joins
  <2>2. rows \in Seq(Row) /\ Len(rows) \in Nat /\ MaxJobs \in Nat /\ DOMAIN rows = 1 .. Len(rows)
    BY DomainInJobs, RenderConstants DEF Typed
  <2>3. c \in Contents /\ row \in Row
    BY <1>2 DEF Start, Typed, Asking, Row, Statuses
  <2>4. /\ Len(rows') = n /\ DOMAIN rows' = DOMAIN rows \cup {n} /\ n \in Jobs
        /\ rows'[n] = row /\ \A i \in DOMAIN rows : rows'[i] = rows[i]
        /\ \A i \in DOMAIN rows : i < n /\ i \in Jobs
    BY <2>1, <2>2, <2>3 DEF Jobs
  <2>5. thread'[n].at = "queued" /\ \A i \in DOMAIN rows : thread'[i] = thread[i]
    <3>1. thread \in [Jobs -> [at : Places, carry : File]]
      BY DEF Typed, TypeOK
    <3>2. [NoThread EXCEPT !.at = "queued"].at = "queued"
      BY DEF NoThread
    <3>3. thread' = [thread EXCEPT ![n] = [NoThread EXCEPT !.at = "queued"]]
      BY <2>1, <2>4
    <3> HIDE DEF n
    <3> QED BY <2>4, <3>1, <3>2, <3>3
  <2>6. registry'[c] = n /\ \A b \in Contents \ {c} : registry'[b] = registry[b]
    BY <2>1, <2>3, <2>4 DEF Typed, TypeOK
  <2>7. ASSUME NEW i \in DOMAIN rows, Alive(i) PROVE rows[i].hash # c
    <3>1. registry[rows[i].hash] = i /\ i # 0
      BY <2>7, <2>2 DEF Registered
    <3> QED BY <2>1, <2>7, <3>1 DEF Live
  <2> HIDE DEF n, c
  <2>8. ASSUME NEW i \in DOMAIN rows', Alive(i)'
        PROVE  /\ registry'[rows'[i].hash] = i
               /\ \A j \in DOMAIN rows' : rows'[j].hash = rows'[i].hash => j <= i
               /\ rows'[i].status = "failed" => thread'[i].at \in {"release", "leave"}
    <3>1. CASE i = n
      BY <2>4, <2>6, <3>1
    <3>2. CASE i \in DOMAIN rows
      <4>1. Alive(i) /\ rows[i].hash # c
        BY <2>5, <2>7, <2>8, <3>2 DEF Alive
      <4> QED BY <1>r, <2>4, <2>5, <2>6, <3>2, <4>1 DEF Registered
    <3> QED BY <2>4, <2>8, <3>1, <3>2
  <2> QED BY <2>8 DEF Registered
<1>3. CASE UNCHANGED jobs
  BY <1>3 DEF Registered, Alive, jobs
<1> QED BY <1>1, <1>2, <1>3 DEF View, Resolve, Start, StubReads, StubWrites, Poll

\* A thread leaves the registry only as it dies and fails its row only on its way
\* out.
LEMMA ThreadRegistered ==
  ASSUME Typed, Registered, NEW i \in Jobs, Work(i) \/ Raise(i) \/ HeartbeatAges(i)
  PROVE  Registered'
<1>1. i \in DOMAIN rows /\ Mended(i) /\ Moved(i) /\ DOMAIN rows \subseteq Jobs
  BY ThreadSteps, DomainInJobs DEF Typed
<1>r. \A j \in DOMAIN rows : rows[j] \in Row /\ rows[j].hash \in Contents
  <2>1. \A j \in DOMAIN rows : rows[j] \in Row
    BY DomainInJobs DEF Typed
  <2> QED BY <2>1 DEF Row
<1>p. Places = {"none", "queued", "pipeline", "replace", "record", "reanchor", "fallback",
                "rescue", "write", "settle", "release", "leave", "dead"}
  BY DEF Places
<1>f. Alive(i) /\ thread[i].at \notin {"release", "leave"} => rows[i].status # "failed"
  BY <1>1 DEF Registered
<1>s. rows \in Seq(Row)
  BY DomainInJobs DEF Typed
<1>2. /\ Alive(i)' => Alive(i) /\ UNCHANGED registry
      /\ rows'[i].status = "failed" /\ Alive(i)' => thread'[i].at \in {"release", "leave"}
  <2> USE <1>1, <1>p, <1>f, GoesTo DEF Typed
  <2>1. ASSUME NEW from \in Places \ {"none", "dead"}, NEW where \in Places,
               At(i, from), GoTo(i, where), UNCHANGED <<rows, registry>>,
               from \in {"release", "leave"} => where \in {"release", "leave", "dead"}
        PROVE  /\ Alive(i)' => Alive(i) /\ UNCHANGED registry
               /\ rows'[i].status = "failed" /\ Alive(i)' => thread'[i].at \in {"release", "leave"}
    BY <2>1 DEF At, Alive
  <2>2. ASSUME NEW from \in Places \ {"none", "dead"}, NEW status \in Statuses,
               At(i, from), GoTo(i, "release"), rows'[i].status = status, UNCHANGED registry
        PROVE  /\ Alive(i)' => Alive(i) /\ UNCHANGED registry
               /\ rows'[i].status = "failed" /\ Alive(i)' => thread'[i].at \in {"release", "leave"}
    BY <2>2 DEF At, Alive
  <2>3. CASE Acquire(i)
    BY <2>1, <2>3 DEF Acquire
  <2>4. CASE PipelineEnds(i)
    <3>1. PICK next \in {"replace", "fallback"} : Compare(i, next)
      BY <2>4 DEF PipelineEnds
    <3>2. At(i, "pipeline") /\ UNCHANGED registry
      BY <2>4 DEF PipelineEnds
    <3>3. CASE source = rows[i].hash
      <4>1. rows' = [rows EXCEPT ![i].old = FALSE] /\ GoTo(i, next)
        BY <3>1, <3>3 DEF Compare
      <4>2. rows'[i].status = rows[i].status
        BY <4>1, <1>s, <1>r DEF Row
      <4> QED BY <3>2, <4>1, <4>2 DEF At, Alive
    <3>4. CASE source # rows[i].hash
      BY <3>1, <3>2, <3>4 DEF Compare, At, Alive
    <3> QED BY <3>3, <3>4
  <2>5. CASE Replace(i)
    BY <2>1, <2>5 DEF Replace
  <2>6. CASE Record(i)
    <3>1. rows'[i].status = "published" /\ GoTo(i, "reanchor") /\ At(i, "record") /\ UNCHANGED registry
      BY <2>6, <1>s, <1>r DEF Record, Finalized, Row
    <3> QED BY <3>1 DEF At, Alive
  <2>7. CASE Reanchor(i)
    BY <2>1, <2>7 DEF Reanchor
  <2>8. CASE Raise(i)
    <3>1. UNCHANGED registry
      BY <2>8 DEF Raise
    <3>2. CASE thread[i].at \in {"pipeline", "replace", "fallback", "reanchor"} /\ GoTo(i, "rescue") /\ UNCHANGED rows
      BY <2>1, <3>1, <3>2 DEF At
    <3>3. CASE At(i, "rescue") /\ GoTo(i, "release")
      BY <3>1, <3>3 DEF At, Alive
    <3> QED BY <2>8, <3>2, <3>3 DEF Raise
  <2>9. CASE Rerender(i)
    <3>1. thread[i].at \in {"fallback", "rescue"} /\ UNCHANGED <<rows, registry>>
      BY <2>9 DEF Rerender
    <3> QED BY <3>1 DEF Alive
  <2>10. CASE Write(i)
    BY <2>1, <2>10 DEF Write
  <2>11. CASE Settle(i)
    BY <2>11 DEF Settle, At, Alive
  <2>12. CASE Release(i)
    BY <2>1, <2>12 DEF Release
  <2>13. CASE Leave(i)
    <3>1. thread'[i].at = "dead"
      BY <2>13 DEF Leave
    <3> QED BY <3>1 DEF Alive
  <2>14. CASE HeartbeatAges(i)
    <3>1. rows[i].status = "running" /\ rows' = [rows EXCEPT ![i].old = TRUE] /\ UNCHANGED <<thread, registry>>
      BY <2>14 DEF HeartbeatAges
    <3>2. rows'[i].status = "running"
      BY <3>1, <1>s, <1>r DEF Row
    <3> QED BY <3>1, <3>2 DEF Alive
  <2> QED BY <2>3, <2>4, <2>5, <2>6, <2>7, <2>8, <2>9, <2>10, <2>11, <2>12, <2>13, <2>14 DEF Work
<1>3. \A c \in Contents : registry[c] # i => registry'[c] = registry[c]
  BY DEF Work, Acquire, PipelineEnds, Replace, Record, Reanchor, Rerender, Write, Settle, Release, Leave,
         Raise, HeartbeatAges, Typed, TypeOK
<1>5. ASSUME NEW j \in DOMAIN rows', Alive(j)'
      PROVE  /\ registry'[rows'[j].hash] = j
             /\ \A k \in DOMAIN rows' : rows'[k].hash = rows'[j].hash => k <= j
             /\ rows'[j].status = "failed" => thread'[j].at \in {"release", "leave"}
  <2>1. j \in DOMAIN rows /\ Alive(j)
    BY <1>1, <1>2, <1>5 DEF Mended, Moved, Alive
  <2>2. registry[rows[j].hash] = j /\ \A k \in DOMAIN rows : rows[k].hash = rows[j].hash => k <= j
    BY <2>1 DEF Registered
  <2>3. registry'[rows[j].hash] = j
    BY <1>r, <1>2, <1>3, <1>5, <2>1, <2>2
  <2>4. rows'[j].status = "failed" => thread'[j].at \in {"release", "leave"}
    BY <1>1, <1>2, <1>5, <2>1 DEF Registered, Mended, Moved
  <2> QED BY <1>1, <2>1, <2>2, <2>3, <2>4 DEF Mended
<1> QED BY <1>5 DEF Registered

\* The invariant holds from the empty registry on.
LEMMA AlwaysRegistered == Spec => [](Typed /\ Registered)
<1>1. Init => Registered
  BY DEF Init, Registered
<1>2. ASSUME Typed, Registered, Edit \/ Restart PROVE Registered'
  <2>1. CASE Edit
    BY <1>2, <2>1 DEF Edit, Registered, Alive, jobs
  <2>2. CASE Restart
    <3>1. \A i \in Jobs : ~Alive(i)'
      BY <2>2 DEF Restart, Alive, NoThread
    <3>2. DOMAIN rows' \subseteq Jobs
      BY <1>2, <2>2, DomainInJobs DEF Restart, Typed
    <3> QED BY <3>1, <3>2 DEF Registered
  <2> QED BY <1>2, <2>1, <2>2
<1>3. ASSUME Typed, Registered, UNCHANGED vars PROVE Registered'
  BY <1>3 DEF Registered, Alive, vars, jobs
<1>4. Typed /\ Registered /\ [Next]_vars => (Typed /\ Registered)'
  BY <1>2, <1>3, NextTyped, ViewerRegistered, ThreadRegistered DEF Next
<1> QED BY <1>1, <1>4, InitTyped, PTL DEF Spec

\* One content is rendered by one thread at a time, for any number of browsers,
\* jobs and restarts.
THEOREM OneThread == Spec => []SingleFlight
<1>1. Registered => SingleFlight
  BY DEF Registered, SingleFlight
<1> QED BY <1>1, AlwaysRegistered, PTL

\* When the status says failed, no thread is at work on a page for the file: only
\* the last row of a content counts and a live thread has the last one.
THEOREM FailedIsFinal == Spec => []FailedMeansNoJob
<1>1. Typed /\ Registered => FailedMeansNoJob
  <2> SUFFICES ASSUME Typed, Registered, PollAnswer = "failed",
                      NEW i \in DOMAIN rows, rows[i].hash = source, Alive(i)
               PROVE  thread[i].at \in {"release", "leave"}
    BY DEF FailedMeansNoJob
  <2>1. source \in Contents
    <3>1. rows[i] \in Row
      BY DomainInJobs DEF Typed
    <3> QED BY <3>1 DEF Row
  <2>2. GaveUp(source)
    BY <2>1, RenderConstants DEF PollAnswer
  <2>3. PICK k \in RowsOf(source) : rows[k].status = "failed" /\ \A j \in RowsOf(source) : j <= k
    BY <2>2 DEF GaveUp
  <2>4. k \in DOMAIN rows /\ rows[k].hash = source /\ i <= k
    BY <2>3 DEF RowsOf
  <2>5. k <= i
    BY <2>4 DEF Registered
  <2>6. k = i
    BY <2>4, <2>5, DomainInJobs DEF Typed
  <2> QED BY <2>3, <2>6 DEF Registered
<1> QED BY <1>1, AlwaysRegistered, PTL

===============================================================================
