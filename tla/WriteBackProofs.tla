---------------------------- MODULE WriteBackProofs ----------------------------
(***************************************************************************)
(* Proofs about WriteBack, for every number of requests, regions, appliers *)
(* and posts and every gate policy.                                        *)
(***************************************************************************)
EXTENDS WriteBack, FiniteSetTheorems, TLAPS

-------------------------------------------------------------------------------
(* Type correctness.                                                       *)

Carrying == {"replace", "current", "number", "insert", "commit"}

\* Where the processes are: an applier works on a request that exists, a process
\* that carries a content has one, and the row it saw as current was a version.
ProcOK ==
    /\ \A c \in Requests : request[c] # NoRequest => request[c].kind # "none"
    /\ \A p \in Appliers : proc[p].at # "idle" =>
          /\ proc[p].request \in Requests
          /\ request[proc[p].request].kind # "none"
    /\ \A p \in Appliers : proc[p].at = "refuse" => proc[p].verdict \in {"orphaned", "conflicted"}
    /\ \A p \in Posts : proc[p].at \in {"idle", "current", "number", "insert"}
    /\ \A p \in Cutters : proc[p].at \in Carrying => proc[p].doc \in Doc
    /\ \A p \in Cutters : proc[p].at \in {"number", "insert"} =>
          proc[p].seen = 0 \/ proc[p].seen \in DOMAIN versions

Typed == TypeOK /\ ProcOK

\* A changed status leaves a row a row, of the same kind.
LEMMA RowChange ==
  ASSUME NEW row \in Rows, NEW status \in {"none", "proposed", "applied", "conflicted"}
  PROVE  /\ [row EXCEPT !.status = status] \in Rows
         /\ [row EXCEPT !.status = status].kind = row.kind
         /\ [row EXCEPT !.status = status].keeps = row.keeps
         /\ [row EXCEPT !.status = status].base = row.base
  BY DEF Rows

\* An alert told or delivered is an alert, of the same request.
LEMMA AlertChange ==
  ASSUME NEW alert \in Alerts
  PROVE  /\ [alert EXCEPT !.told = @ + 1] \in Alerts
         /\ [alert EXCEPT !.status = "delivered"] \in Alerts
         /\ [alert EXCEPT !.told = @ + 1].request = alert.request
         /\ [alert EXCEPT !.status = "delivered"].request = alert.request
  BY DEF Alerts

\* The first file is a content.
LEMMA DraftIsDoc == Draft \in Doc
  BY DEF Draft, Doc, Text

\* A splice of a file is a content.
LEMMA SpliceIsDoc ==
  ASSUME Typed, NEW c \in Requests, request[c] # NoRequest, file # None,
         NEW site \in Regions \cup {None}, Verdict(c, site) = "clean"
  PROVE  Spliced(c, site) \in Doc
<1>1. request[c] \in Rows /\ request[c].kind # "none" /\ file \in Doc
  BY DEF Typed, TypeOK, ProcOK
<1>2. CASE request[c].kind = "addition"
  BY <1>1, <1>2 DEF Spliced, Doc
<1>3. CASE request[c].kind = "modification"
  <2>1. site \in Regions
    BY <1>3 DEF Verdict
  <2>2. Body(c) \in Text
    BY <1>1 DEF Body, Text, Rows, Requests
  <2> QED BY <1>1, <1>3, <2>1, <2>2 DEF Spliced, Doc
<1> QED BY <1>1, <1>2, <1>3 DEF Rows

\* Intake makes a request that exists, with its event and perhaps its alert.
LEMMA ProposeTyped ==
  ASSUME Typed, NEW c \in Requests, NEW kind \in {"addition", "modification"},
         NEW base \in 1 .. Len(versions) + 1, NEW target \in Regions \cup {None},
         NEW keeps \in BOOLEAN, Propose(c, kind, base, target, keeps)
  PROVE  Typed'
<1>1. base \in Nat
  BY DEF Typed, TypeOK
<1>2. GateStatus(kind) \in {"proposed", "applied"}
  BY DEF GateStatus
<1>3. request' \in [Requests -> Rows]
  BY <1>1, <1>2 DEF Propose, Typed, TypeOK, Rows
<1>4. Event("proposed", 0) \in Events /\ Alert(c) \in Alerts
  BY DEF Event, Alert, Events, Alerts
<1>5. trail' \in [Requests -> Seq(Events)]
  BY <1>4 DEF Propose, Typed, TypeOK
<1>6. outbox' \in Seq(Alerts) /\ DOMAIN outbox \subseteq DOMAIN outbox'
  BY <1>4 DEF Propose, Typed, TypeOK, IntakeAlerts, WithAlert
<1>7. TypeOK'
  BY <1>3, <1>5, <1>6 DEF Propose, Typed, TypeOK, people, counts
<1>8. ProcOK'
  BY DEF Propose, Typed, TypeOK, ProcOK
<1> QED BY <1>7, <1>8 DEF Typed

\* The steps of the apply command and of create_snapshot.
LEMMA ApplyTyped ==
  ASSUME Typed, NEW p \in Appliers, Apply(p)
  PROVE  Typed'
<1> USE DEF Cutters
<1>0. Idle \in Places /\ Idle.at = "idle"
  BY DEF Idle, Places, Steps, Verdicts
<1>1. ASSUME NEW c \in Requests, NEW site \in Regions \cup {None}, ApplyReads(p, c, site)
      PROVE  Typed'
  <2>1. request[c] # NoRequest /\ request[c].kind # "none"
    BY <1>1 DEF ApplyReads, MayApply, Typed, ProcOK
  <2>2. Verdict(c, site) \in {"clean", "orphaned", "conflicted"}
    BY DEF Verdict
  <2>3. Verdict(c, site) = "clean" => Spliced(c, site) \in Doc
    BY <1>1, <2>1, SpliceIsDoc DEF ApplyReads
  <2> DEFINE s == [Idle EXCEPT
                    !.at = IF Verdict(c, site) = "clean" THEN "replace" ELSE "refuse",
                    !.request = c,
                    !.verdict = Verdict(c, site),
                    !.doc = IF Verdict(c, site) = "clean" THEN Spliced(c, site) ELSE None]
  <2>4. s \in Places /\ s.request = c /\ s.at \in {"replace", "refuse"}
        /\ (s.at = "refuse" => s.verdict \in {"orphaned", "conflicted"})
        /\ (s.at = "replace" => s.doc \in Doc)
    BY <2>2, <2>3 DEF Idle, Places, Steps, Verdicts
  <2>5. proc' = [proc EXCEPT ![p] = s]
    BY <1>1 DEF ApplyReads
  <2>6. UNCHANGED <<file, db, relay, people, counts>> /\ answer' = [answer EXCEPT ![p] = NoAnswer]
    BY <1>1 DEF ApplyReads
  <2> HIDE DEF s
  <2>7. TypeOK'
    BY <2>4, <2>5, <2>6 DEF Typed, TypeOK, db, people, counts, NoAnswer, Answers, Verdicts
  <2>8. ProcOK'
    BY <2>1, <2>4, <2>5, <2>6, WriteBackAssumption
       DEF Typed, TypeOK, ProcOK, db, Carrying
  <2> QED BY <2>7, <2>8 DEF Typed
<1>2. ASSUME NEW c \in Requests, ApplyFindsNoFile(p, c) PROVE Typed'
  BY <1>2 DEF ApplyFindsNoFile, Typed, TypeOK, ProcOK, db, people, counts, Answers, Verdicts
<1>3. CASE Refuse(p)
  <2>1. proc[p].request \in Requests /\ proc[p].verdict \in {"orphaned", "conflicted"}
    BY <1>3 DEF Refuse, Typed, ProcOK
  <2>2. Event(proc[p].verdict, 0) \in Events
    BY <2>1 DEF Event, Events
  <2> DEFINE row == [request[proc[p].request] EXCEPT
                       !.status = RefusedStatus(proc[p].verdict, @)]
  <2>0. request[proc[p].request] \in Rows
    BY <2>1 DEF Typed, TypeOK
  <2>9. RefusedStatus(proc[p].verdict, request[proc[p].request].status)
           \in {"none", "proposed", "applied", "conflicted"}
    BY <2>0 DEF RefusedStatus, Rows
  <2>a. row \in Rows /\ row.kind = request[proc[p].request].kind
    BY <2>0, <2>9, RowChange
  <2>b. request' = [request EXCEPT ![proc[p].request] = row]
    BY <1>3 DEF Refuse
  <2> HIDE DEF row
  <2>c. request' \in [Requests -> Rows]
    BY <2>1, <2>a, <2>b DEF Typed, TypeOK
  <2>d. trail' \in [Requests -> Seq(Events)]
    BY <1>3, <2>1, <2>2 DEF Refuse, RefusalTrail, Typed, TypeOK
  <2>e. proc' \in [Cutters -> Places] /\ answer' \in [Appliers -> Answers]
    BY <1>0, <1>3, <2>1 DEF Refuse, Answers, Verdicts, Typed, TypeOK
  <2>3. TypeOK'
    BY <1>3, <2>c, <2>d, <2>e DEF Refuse, Typed, TypeOK, people, counts
  <2>4. ProcOK'
    BY <1>0, <1>3, <2>1, <2>a, <2>b, WriteBackAssumption
       DEF Refuse, Typed, TypeOK, ProcOK, NoRequest, Carrying
  <2> QED BY <2>3, <2>4 DEF Typed
<1>4. CASE Replace(p)
  <2> DEFINE s == [proc[p] EXCEPT !.at = "current"]
  <2>1. s \in Places /\ s.at = "current" /\ s.doc = proc[p].doc /\ s.request = proc[p].request
    BY DEF Typed, TypeOK, Places, Steps
  <2>2. proc' = [proc EXCEPT ![p] = s] /\ proc[p].at = "replace" /\ file' = proc[p].doc
    BY <1>4 DEF Replace
  <2> HIDE DEF s
  <2>3. file' \in Doc
    BY <2>2 DEF Typed, ProcOK, Carrying
  <2>4. TypeOK'
    BY <1>4, <2>1, <2>2, <2>3 DEF Replace, Typed, TypeOK, db, people, counts
  <2>5. ProcOK'
    BY <1>4, <2>1, <2>2, WriteBackAssumption DEF Replace, Typed, TypeOK, ProcOK, Carrying, db
  <2> QED BY <2>4, <2>5 DEF Typed
<1>5. CASE Commit(p)
  <2>1. proc[p].request \in Requests
    BY <1>5 DEF Commit, Typed, ProcOK
  <2>2. Event("applied", AppliedVersion(p)) \in Events /\ Alert(proc[p].request) \in Alerts
    BY <2>1 DEF Event, Events, Alert, Alerts, AppliedVersion, Typed, TypeOK, Places
  <2>3. outbox' \in Seq(Alerts) /\ DOMAIN outbox \subseteq DOMAIN outbox'
    BY <1>5, <2>2 DEF Commit, WithAlert, Typed, TypeOK
  <2> DEFINE row == [request[proc[p].request] EXCEPT !.status = "applied"]
  <2>0. request[proc[p].request] \in Rows
    BY <2>1 DEF Typed, TypeOK
  <2>a. row \in Rows /\ row.kind = request[proc[p].request].kind
    BY <2>0, RowChange
  <2>b. request' = [request EXCEPT ![proc[p].request] = row]
    BY <1>5 DEF Commit
  <2> HIDE DEF row
  <2>c. request' \in [Requests -> Rows]
    BY <2>1, <2>a, <2>b DEF Typed, TypeOK
  <2>d. trail' \in [Requests -> Seq(Events)]
    BY <1>5, <2>1, <2>2 DEF Commit, Typed, TypeOK
  <2>e. proc' \in [Cutters -> Places] /\ answer' \in [Appliers -> Answers]
    BY <1>0, <1>5, <2>1 DEF Commit, Answers, Verdicts, Typed, TypeOK
  <2>4. TypeOK'
    BY <1>5, <2>3, <2>c, <2>d, <2>e DEF Commit, Typed, TypeOK, people, counts
  <2>f. /\ \A q \in Cutters : proc'[q] = IF q = p THEN Idle ELSE proc[q]
        /\ \A c \in Requests : request'[c].kind = request[c].kind
        /\ \A c \in Requests : request'[c] # NoRequest => request'[c].kind # "none"
        /\ UNCHANGED versions
    BY <1>5, <2>1, <2>a, <2>b DEF Commit, Typed, TypeOK, ProcOK
  <2>5. ProcOK'
    BY <1>0, <2>1, <2>f, WriteBackAssumption DEF Typed, ProcOK, Carrying
  <2> QED BY <2>4, <2>5 DEF Typed
<1>6. CASE Killed(p)
  BY <1>6, WriteBackAssumption
     DEF Killed, Typed, TypeOK, ProcOK, Places, Idle, Steps, Carrying, Verdicts, db, people
<1> QED BY <1>1, <1>2, <1>3, <1>4, <1>5, <1>6 DEF Apply

LEMMA SnapshotTyped ==
  ASSUME Typed, NEW p \in Cutters, Snapshot(p)
  PROVE  Typed'
<1>0. Idle \in Places /\ Idle.at = "idle"
  BY DEF Idle, Places, Steps, Verdicts
<1>1. ASSUME NEW row \in 0 .. Len(versions), SelectCurrent(p, row) PROVE Typed'
  <2>1. row = 0 \/ row \in DOMAIN versions
    BY <1>1 DEF SelectCurrent, Typed, TypeOK
  <2>2. row \in Nat
    BY DEF Typed, TypeOK
  <2>3. PICK s \in Places :
           /\ proc' = [proc EXCEPT ![p] = s]
           /\ s = Idle \/ (p \in Appliers /\ s.at = "commit") \/ (s.at = "number" /\ s.seen = row)
           /\ s # Idle => s.doc = proc[p].doc /\ s.request = proc[p].request
    <3>1. proc[p] \in Places
      BY DEF Typed, TypeOK
    <3>2. CASE row > 0 /\ versions[row] = proc[p].doc
      <4>1. CASE p \in Posts
        BY <1>0, <1>1, <3>2, <4>1 DEF SelectCurrent, Cut
      <4>2. CASE p \notin Posts
        <5>1. proc' = [proc EXCEPT ![p] = [proc[p] EXCEPT !.at = "commit", !.number = row]]
          BY <1>1, <3>2, <4>2 DEF SelectCurrent, Cut
        <5>2. "commit" \in Steps /\ p \in Appliers
          BY <4>2 DEF Steps, Cutters
        <5> DEFINE s == [proc[p] EXCEPT !.at = "commit", !.number = row]
        <5>3. /\ s \in Places /\ s.at = "commit" /\ s.doc = proc[p].doc
              /\ s.request = proc[p].request
          BY <2>2, <3>1 DEF Places, Steps
        <5>4. proc' = [proc EXCEPT ![p] = s]
          BY <5>1
        <5> HIDE DEF s
        <5> QED BY <5>2, <5>3, <5>4
      <4> QED BY <4>1, <4>2
    <3>3. CASE ~ (row > 0 /\ versions[row] = proc[p].doc)
      <4>1. proc' = [proc EXCEPT ![p] = [proc[p] EXCEPT !.at = "number", !.seen = row]]
        BY <1>1, <3>3 DEF SelectCurrent
      <4> DEFINE s == [proc[p] EXCEPT !.at = "number", !.seen = row]
      <4>2. /\ s \in Places /\ s.at = "number" /\ s.doc = proc[p].doc
            /\ s.request = proc[p].request /\ s.seen = row
        BY <2>2, <3>1 DEF Places, Steps
      <4>3. proc' = [proc EXCEPT ![p] = s]
        BY <4>1
      <4> HIDE DEF s
      <4> QED BY <4>2, <4>3
    <3> QED BY <3>2, <3>3
  <2>4. UNCHANGED <<file, db, answer, relay, people, counts>> /\ proc[p].at = "current"
    BY <1>1 DEF SelectCurrent
  <2>5. TypeOK'
    BY <2>3, <2>4 DEF Typed, TypeOK, db, people, counts
  <2>6. ProcOK'
    BY <1>0, <2>1, <2>3, <2>4, WriteBackAssumption
       DEF Typed, TypeOK, ProcOK, Carrying, Cutters, db
  <2> QED BY <2>5, <2>6 DEF Typed
<1>2. CASE SelectMax(p)
  <2> DEFINE s == [proc[p] EXCEPT !.at = "insert", !.number = Len(versions) + 1]
  <2>0. proc[p] \in Places /\ Len(versions) + 1 \in Nat
    BY DEF Typed, TypeOK
  <2>1. /\ s \in Places /\ s.at = "insert" /\ s.doc = proc[p].doc /\ s.seen = proc[p].seen
        /\ s.request = proc[p].request
    BY <2>0 DEF Places, Steps
  <2>2. proc' = [proc EXCEPT ![p] = s] /\ proc[p].at = "number"
    BY <1>2 DEF SelectMax
  <2> HIDE DEF s
  <2>3. TypeOK'
    BY <1>2, <2>1, <2>2 DEF SelectMax, Typed, TypeOK, db, people, counts
  <2>4. ProcOK'
    BY <1>2, <2>1, <2>2, WriteBackAssumption
       DEF SelectMax, Typed, TypeOK, ProcOK, Carrying, Cutters, db
  <2> QED BY <2>3, <2>4 DEF Typed
<1>3. CASE Insert(p)
  <2>1. proc[p].doc \in Doc
    BY <1>3 DEF Insert, Typed, ProcOK, Carrying
  <2>2. /\ versions' \in Seq(Doc)
        /\ DOMAIN versions' = DOMAIN versions \cup {proc[p].number}
    BY <1>3, <2>1 DEF Insert, Typed, TypeOK
  <2>3. TypeOK'
    BY <1>0, <1>3, <2>2
       DEF Insert, Promoted, Cut, Typed, TypeOK, Places, Steps, people, counts
  <2>4. ProcOK'
    BY <1>0, <1>3, <2>1, <2>2, WriteBackAssumption
       DEF Insert, Cut, Typed, TypeOK, ProcOK, Carrying, Cutters
  <2> QED BY <2>3, <2>4 DEF Typed
<1>4. CASE InsertFails(p)
  BY <1>0, <1>4, WriteBackAssumption
     DEF InsertFails, Typed, TypeOK, ProcOK, Carrying, Cutters, db, people, counts
<1> QED BY <1>1, <1>2, <1>3, <1>4 DEF Snapshot

\* The relay, people, posts that start and a crash.
LEMMA OtherTyped ==
  ASSUME Typed, (\E p \in Posts : PostReads(p)) \/ Relay \/ Person \/ Crash
  PROVE  Typed'
<1>0. Idle \in Places /\ Idle.at = "idle"
  BY DEF Idle, Places, Steps, Verdicts
<1>1. ASSUME NEW p \in Posts, PostReads(p) PROVE Typed'
  BY <1>1, WriteBackAssumption
     DEF PostReads, Idle, Typed, TypeOK, ProcOK, Places, Steps, Verdicts, Carrying, Cutters,
         db, people, counts
<1>2. CASE RelayReads
  BY <1>2 DEF RelayReads, Pending, Typed, TypeOK, ProcOK, db, people, counts
<1>3. ASSUME NEW o \in DOMAIN outbox, RelayDelivers(o) PROVE Typed'
  <2>0. outbox[o] \in Alerts
    BY DEF Typed, TypeOK
  <2>1. [outbox[o] EXCEPT !.told = @ + 1] \in Alerts
    BY <2>0, AlertChange
  <2>2. outbox' \in Seq(Alerts) /\ DOMAIN outbox' = DOMAIN outbox
    BY <1>3, <2>1 DEF RelayDelivers, Typed, TypeOK
  <2> QED BY <1>3, <2>2 DEF RelayDelivers, Typed, TypeOK, ProcOK, people, counts
<1>4. ASSUME NEW o \in DOMAIN outbox, RelayFlips(o) PROVE Typed'
  <2>0. outbox[o] \in Alerts
    BY DEF Typed, TypeOK
  <2>1. [outbox[o] EXCEPT !.status = "delivered"] \in Alerts
    BY <2>0, AlertChange
  <2>2. outbox' \in Seq(Alerts) /\ DOMAIN outbox' = DOMAIN outbox
    BY <1>4, <2>1 DEF RelayFlips, Flipped, Typed, TypeOK
  <2> QED BY <1>4, <2>2 DEF RelayFlips, Typed, TypeOK, ProcOK, people, counts
<1>5. CASE DraftWritten
  BY <1>5, DraftIsDoc DEF DraftWritten, Typed, TypeOK, ProcOK, db, people, counts
<1>6. CASE EditorOpens
  BY <1>6 DEF EditorOpens, Typed, TypeOK, ProcOK, db, people, counts
<1>7. ASSUME NEW r \in Regions, NEW quoted \in BOOLEAN, EditorSaves(r, quoted) PROVE Typed'
  <2>0. [by |-> "person", n |-> edits + 1, quoted |-> quoted] \in Text
    BY DEF Typed, TypeOK, Text
  <2>1. file' \in Doc
    BY <1>7, <2>0 DEF EditorSaves, Typed, TypeOK, Doc
  <2> QED BY <1>7, <2>1 DEF EditorSaves, Typed, TypeOK, ProcOK, db, counts
<1>8. CASE Crash
  <2>1. TypeOK'
    BY <1>0, <1>8 DEF Crash, Resting, Typed, TypeOK, db, people, counts
  <2>2. ProcOK'
    BY <1>0, <1>8, WriteBackAssumption DEF Crash, Typed, TypeOK, ProcOK, Carrying, Cutters, db
  <2> QED BY <2>1, <2>2 DEF Typed
<1> QED BY <1>1, <1>2, <1>3, <1>4, <1>5, <1>6, <1>7, <1>8 DEF Relay, Person

LEMMA InitTyped == Init => Typed
<1> SUFFICES ASSUME Init PROVE Typed
  OBVIOUS
<1>1. TypeOK
  BY DraftIsDoc DEF Init, TypeOK, Rows, NoRequest, Answers, NoAnswer, Verdicts, Places, Idle,
                    Steps, Resting
<1>2. ProcOK
  BY DEF Init, ProcOK, Idle, Carrying, Cutters
<1> QED BY <1>1, <1>2 DEF Typed

LEMMA NextTyped == Typed /\ [Next]_vars => Typed'
<1> SUFFICES ASSUME Typed, [Next]_vars PROVE Typed'
  OBVIOUS
<1>1. CASE Intake
  BY <1>1, ProposeTyped DEF Intake
<1>2. CASE UNCHANGED vars
  BY <1>2 DEF vars, db, people, counts, Typed, TypeOK, ProcOK
<1> QED BY <1>1, <1>2, ApplyTyped, SnapshotTyped, OtherTyped DEF Next

LEMMA AlwaysTyped == Spec => []Typed
  BY InitTyped, NextTyped, PTL DEF Spec

\* Every state is of the declared types.
THEOREM TypeCorrect == Spec => []TypeOK
<1>1. Typed => TypeOK
  BY DEF Typed
<1> QED BY <1>1, AlwaysTyped, PTL

-------------------------------------------------------------------------------
(* Versions and what they hold.                                            *)

\* The newest version stays current, whoever cuts versions at the same time: the
\* insert that makes a version also makes it current, and only archives an older
\* one.
THEOREM NewestStaysCurrent == Spec => []NewestIsCurrent
<1>1. Init => NewestIsCurrent
  BY DEF Init, NewestIsCurrent
<1>2. Typed /\ NewestIsCurrent /\ [Next]_vars => NewestIsCurrent'
  <2> SUFFICES ASSUME Typed, NewestIsCurrent, [Next]_vars PROVE NewestIsCurrent'
    OBVIOUS
  <2>1. ASSUME NEW p \in Cutters, Insert(p) PROVE NewestIsCurrent'
    BY <2>1 DEF Insert, Promoted, NewestIsCurrent, Typed, TypeOK
  <2>2. CASE UNCHANGED <<versions, current>>
    BY <2>2 DEF NewestIsCurrent
  <2> QED BY <2>1, <2>2 DEF Next, Intake, Propose, Apply, ApplyReads, ApplyFindsNoFile, Refuse,
                         Replace, Commit, Killed, PostReads, Snapshot, SelectCurrent, SelectMax,
                         InsertFails, Relay, RelayReads, RelayDelivers, RelayFlips, Person,
                         DraftWritten, EditorOpens, EditorSaves, Crash, db, vars
<1> QED BY <1>1, <1>2, AlwaysTyped, PTL DEF Spec

\* A request that exists keeps what it asks for, and a version is never changed.
LEMMA Frame ==
  ASSUME Typed, [Next]_vars
  PROVE  /\ \A c \in Requests : request[c].kind # "none" =>
               /\ request'[c].kind = request[c].kind
               /\ request'[c].keeps = request[c].keeps
               /\ request'[c].base = request[c].base
         /\ \A i \in DOMAIN versions : i \in DOMAIN versions' /\ versions'[i] = versions[i]
<1> DEFINE Same(c) == /\ request'[c].kind = request[c].kind
                      /\ request'[c].keeps = request[c].keeps
                      /\ request'[c].base = request[c].base
<1>0. \A c \in Requests : request[c] \in Rows
  BY DEF Typed, TypeOK
<1>1. ASSUME NEW c \in Requests, NEW status \in {"none", "proposed", "applied", "conflicted"},
             request' = [request EXCEPT ![c].status = status]
      PROVE  \A d \in Requests : Same(d)
  <2> DEFINE row == [request[c] EXCEPT !.status = status]
  <2>1. row.kind = request[c].kind /\ row.keeps = request[c].keeps /\ row.base = request[c].base
    BY <1>0, RowChange
  <2>2. request' = [request EXCEPT ![c] = row]
    BY <1>1
  <2> HIDE DEF row
  <2> QED BY <2>1, <2>2 DEF Typed, TypeOK
<1>2. ASSUME NEW c \in Requests, NEW kind \in {"addition", "modification"},
             NEW base \in 1 .. Len(versions) + 1, NEW target \in Regions \cup {None},
             NEW keeps \in BOOLEAN, Propose(c, kind, base, target, keeps)
      PROVE  \A d \in Requests : request[d].kind # "none" => Same(d)
  BY <1>2 DEF Propose, NoRequest, Typed, TypeOK
<1>3. ASSUME NEW p \in Appliers, Refuse(p) PROVE \A d \in Requests : Same(d)
  <2>1. proc[p].request \in Requests /\ proc[p].verdict \in {"orphaned", "conflicted"}
    BY <1>3 DEF Refuse, Typed, ProcOK
  <2> DEFINE status == RefusedStatus(proc[p].verdict, request[proc[p].request].status)
  <2>2. status \in {"none", "proposed", "applied", "conflicted"}
    BY <1>0, <2>1 DEF RefusedStatus, Rows
  <2>3. request' = [request EXCEPT ![proc[p].request].status = status]
    BY <1>3 DEF Refuse
  <2> QED BY <1>1, <2>1, <2>2, <2>3
<1>4. ASSUME NEW p \in Appliers, Commit(p) PROVE \A d \in Requests : Same(d)
  <2>1. proc[p].request \in Requests
    BY <1>4 DEF Commit, Typed, ProcOK
  <2>2. request' = [request EXCEPT ![proc[p].request].status = "applied"]
    BY <1>4 DEF Commit
  <2> QED BY <1>1, <2>1, <2>2
<1>5. \A d \in Requests : request[d].kind # "none" => Same(d)
  <2>1. CASE UNCHANGED request
    BY <2>1
  <2> HIDE DEF Same
  <2> QED BY <1>2, <1>3, <1>4, <2>1
          DEF Next, Intake, Apply, ApplyReads, ApplyFindsNoFile, Replace, Killed, PostReads,
              Snapshot, SelectCurrent, SelectMax, Insert, InsertFails, Relay, RelayReads,
              RelayDelivers, RelayFlips, Person, DraftWritten, EditorOpens, EditorSaves, Crash,
              db, vars
<1>6. \A i \in DOMAIN versions : i \in DOMAIN versions' /\ versions'[i] = versions[i]
  <2>1. CASE UNCHANGED versions
    BY <2>1
  <2>2. ASSUME NEW p \in Cutters, Insert(p)
        PROVE  \A i \in DOMAIN versions : i \in DOMAIN versions' /\ versions'[i] = versions[i]
    <3>1. proc[p].doc \in Doc
      BY <2>2 DEF Insert, Typed, ProcOK, Carrying
    <3> QED BY <2>2, <3>1 DEF Insert, Typed, TypeOK
  <2> QED BY <2>1, <2>2
          DEF Next, Intake, Propose, Apply, ApplyReads, ApplyFindsNoFile, Refuse, Replace, Commit,
              Killed, PostReads, Snapshot, SelectCurrent, SelectMax, InsertFails, Relay,
              RelayReads, RelayDelivers, RelayFlips, Person, DraftWritten, EditorOpens,
              EditorSaves, Crash, db, vars
<1> QED BY <1>5, <1>6

\* What an applier carries holds the change, and the number it commits is that of
\* a version with this very content.
Held ==
    \A p \in Appliers :
        /\ proc[p].at \in Carrying => Holds(proc[p].doc, proc[p].request)
        /\ proc[p].at = "commit" => /\ proc[p].number \in DOMAIN versions
                                    /\ versions[proc[p].number] = proc[p].doc

\* A clean splice puts the body of the request into the content.
LEMMA SpliceHolds ==
  ASSUME Typed, NEW c \in Requests, request[c] # NoRequest, file # None,
         NEW site \in Regions \cup {None}, Verdict(c, site) = "clean"
  PROVE  Holds(Spliced(c, site), c)
<1>1. request[c] \in Rows /\ request[c].kind # "none" /\ file \in Doc
  BY DEF Typed, TypeOK, ProcOK
<1>2. CASE request[c].kind = "addition"
  BY <1>1, <1>2 DEF Spliced, Holds, Doc
<1>3. CASE request[c].kind = "modification"
  BY <1>1, <1>3 DEF Verdict, Spliced, Holds, Doc
<1> QED BY <1>1, <1>2, <1>3 DEF Rows

\* A step leaves a carrying applier with the content it carried, with a spliced
\* content it has just made, or with the number of a version of its content.
LEMMA CarryStep ==
  ASSUME Typed, [Next]_vars, NEW p \in Appliers, proc'[p].at \in Carrying
  PROVE  /\ \/ proc'[p].at = "replace" /\ proc'[p].request \in Requests
               /\ Holds(proc'[p].doc, proc'[p].request)
            \/ /\ proc[p].at \in Carrying
               /\ proc'[p].doc = proc[p].doc
               /\ proc'[p].request = proc[p].request
         /\ proc'[p].at = "commit" =>
               \/ proc[p].at = "commit" /\ proc'[p].number = proc[p].number
               \/ /\ proc'[p].number \in DOMAIN versions'
                  /\ versions'[proc'[p].number] = proc'[p].doc
<1> DEFINE Goal == /\ \/ proc'[p].at = "replace" /\ proc'[p].request \in Requests
                         /\ Holds(proc'[p].doc, proc'[p].request)
                      \/ /\ proc[p].at \in Carrying
                         /\ proc'[p].doc = proc[p].doc
                         /\ proc'[p].request = proc[p].request
                   /\ proc'[p].at = "commit" =>
                         \/ proc[p].at = "commit" /\ proc'[p].number = proc[p].number
                         \/ /\ proc'[p].number \in DOMAIN versions'
                            /\ versions'[proc'[p].number] = proc'[p].doc
<1> SUFFICES Goal
  OBVIOUS
<1> USE DEF Cutters
<1>0. /\ proc \in [Cutters -> Places] /\ proc[p] \in Places
      /\ Idle.at = "idle" /\ "idle" \notin Carrying /\ p \notin Posts
  BY WriteBackAssumption DEF Typed, TypeOK, Idle, Carrying
<1>1. CASE proc'[p] = proc[p]
  BY <1>1
<1>2. ASSUME NEW c \in Requests, NEW site \in Regions \cup {None}, ApplyReads(p, c, site)
      PROVE  Goal
  <2>1. CASE Verdict(c, site) = "clean"
    <3>1. Holds(Spliced(c, site), c)
      BY <1>2, <2>1, SpliceHolds DEF ApplyReads, MayApply
    <3> QED BY <1>0, <1>2, <2>1, <3>1 DEF ApplyReads, Idle
  <2>2. CASE Verdict(c, site) # "clean"
    BY <1>0, <1>2, <2>2 DEF ApplyReads, Idle, Carrying
  <2> QED BY <2>1, <2>2
<1>3. CASE Replace(p)
  BY <1>0, <1>3 DEF Replace, Places, Carrying
<1>4. CASE Refuse(p) \/ Commit(p) \/ Killed(p) \/ InsertFails(p)
  BY <1>0, <1>4 DEF Refuse, Commit, Killed, InsertFails
<1>5. ASSUME NEW row \in 0 .. Len(versions), SelectCurrent(p, row) PROVE Goal
  <2>1. CASE row > 0 /\ versions[row] = proc[p].doc
    <3>1. proc' = [proc EXCEPT ![p] = [proc[p] EXCEPT !.at = "commit", !.number = row]]
      BY <1>0, <1>5, <2>1 DEF SelectCurrent, Cut
    <3>2. proc'[p].doc = proc[p].doc /\ proc'[p].request = proc[p].request /\ proc'[p].number = row
      BY <1>0, <3>1 DEF Places
    <3>3. UNCHANGED versions /\ row \in DOMAIN versions /\ proc[p].at \in Carrying
      BY <1>5, <2>1 DEF SelectCurrent, db, Carrying, Typed, TypeOK
    <3> QED BY <2>1, <3>2, <3>3
  <2>2. CASE ~ (row > 0 /\ versions[row] = proc[p].doc)
    <3>1. proc' = [proc EXCEPT ![p] = [proc[p] EXCEPT !.at = "number", !.seen = row]]
      BY <1>5, <2>2 DEF SelectCurrent
    <3> QED BY <1>0, <1>5, <3>1 DEF SelectCurrent, Places, Carrying
  <2> QED BY <2>1, <2>2
<1>6. CASE SelectMax(p)
  <2>1. proc' = [proc EXCEPT ![p] = [proc[p] EXCEPT !.at = "insert", !.number = Len(versions) + 1]]
    BY <1>6 DEF SelectMax
  <2> QED BY <1>0, <1>6, <2>1 DEF SelectMax, Places, Carrying
<1>7. CASE Insert(p)
  <2>1. proc' = [proc EXCEPT ![p] = [proc[p] EXCEPT !.at = "commit", !.number = proc[p].number]]
    BY <1>0, <1>7 DEF Insert, Cut
  <2>2. /\ proc'[p].doc = proc[p].doc /\ proc'[p].request = proc[p].request
        /\ proc'[p].number = proc[p].number
    BY <1>0, <2>1 DEF Places
  <2>3. proc[p].at \in Carrying /\ proc[p].doc \in Doc
    BY <1>7 DEF Insert, Carrying, Typed, ProcOK
  <2>4. proc[p].number \in DOMAIN versions' /\ versions'[proc[p].number] = proc[p].doc
    BY <1>7, <2>3 DEF Insert, Typed, TypeOK
  <2> QED BY <2>2, <2>3, <2>4
<1>8. ASSUME NEW q \in Cutters, q # p, (q \in Appliers /\ Apply(q)) \/ Snapshot(q)
      PROVE  proc'[p] = proc[p]
  BY <1>0, <1>8 DEF Apply, ApplyReads, ApplyFindsNoFile, Refuse, Replace, Commit, Killed, Snapshot,
                    SelectCurrent, SelectMax, Insert, InsertFails, Cut
<1>9. ASSUME NEW q \in Posts, PostReads(q) PROVE proc'[p] = proc[p]
  BY <1>0, <1>9 DEF PostReads
<1>10. CASE Intake \/ Relay \/ Person \/ Crash \/ UNCHANGED vars
  BY <1>0, <1>10 DEF Intake, Propose, Relay, RelayReads, RelayDelivers, RelayFlips, Person,
                     DraftWritten, EditorOpens, EditorSaves, Crash, vars
<1>11. ASSUME NEW c \in Requests, ApplyFindsNoFile(p, c) PROVE proc'[p] = proc[p]
  BY <1>11 DEF ApplyFindsNoFile
<1> HIDE DEF Goal
<1> QED
  <2>1. CASE Apply(p)
    BY <1>1, <1>2, <1>3, <1>4, <1>11, <2>1 DEF Apply
  <2>2. CASE Snapshot(p)
    BY <1>4, <1>5, <1>6, <1>7, <2>2 DEF Snapshot
  <2> QED BY <1>1, <1>8, <1>9, <1>10, <2>1, <2>2 DEF Next

LEMMA HeldStep == Typed /\ Held /\ [Next]_vars => Held'
<1> SUFFICES ASSUME Typed, Held, [Next]_vars, NEW p \in Appliers
             PROVE  /\ proc'[p].at \in Carrying => Holds(proc[p].doc, proc[p].request)'
                    /\ proc'[p].at = "commit" =>
                          /\ proc'[p].number \in DOMAIN versions'
                          /\ versions'[proc'[p].number] = proc'[p].doc
  BY DEF Held, Carrying
<1>1. proc'[p].at \in Carrying => Holds(proc[p].doc, proc[p].request)'
  <2> SUFFICES ASSUME proc'[p].at \in Carrying PROVE Holds(proc[p].doc, proc[p].request)'
    OBVIOUS
  <2> DEFINE d == proc'[p].doc
             c == proc'[p].request
  <2>1. c \in Requests /\ Holds(d, c)
    BY CarryStep DEF Held, Typed, ProcOK, Carrying
  <2>2. request[c].kind # "none"
    BY <2>1 DEF Holds
  <2>3. request'[c].kind = request[c].kind /\ request'[c].keeps = request[c].keeps
    BY <2>1, <2>2, Frame
  <2> QED BY <2>1, <2>3 DEF Holds, Body
<1>2. proc'[p].at = "commit" =>
         proc'[p].number \in DOMAIN versions' /\ versions'[proc'[p].number] = proc'[p].doc
  <2> SUFFICES ASSUME proc'[p].at = "commit"
               PROVE  proc'[p].number \in DOMAIN versions'
                      /\ versions'[proc'[p].number] = proc'[p].doc
    OBVIOUS
  <2>1. CASE proc[p].at = "commit" /\ proc'[p].number = proc[p].number
    <3>1. proc'[p].doc = proc[p].doc
      BY <2>1, CarryStep DEF Carrying
    <3>2. proc[p].number \in DOMAIN versions /\ versions[proc[p].number] = proc[p].doc
      BY <2>1 DEF Held
    <3> QED BY <2>1, <3>1, <3>2, Frame
  <2> QED BY <2>1, CarryStep DEF Carrying
<1> QED BY <1>1, <1>2

LEMMA AlwaysHeld == Spec => []Held
<1>1. Init => Held
  BY DEF Init, Held, Idle, Carrying, Cutters
<1> QED BY <1>1, HeldStep, AlwaysTyped, PTL DEF Spec

\* An applied event is an old one or the one an applier has just committed.
LEMMA AppliedEvents ==
  ASSUME Typed, [Next]_vars, NEW c \in Requests, NEW i \in DOMAIN trail'[c],
         trail'[c][i].type = "applied"
  PROVE  \/ i \in DOMAIN trail[c] /\ trail'[c][i] = trail[c][i]
         \/ \E p \in Appliers : /\ proc[p].at = "commit" /\ proc[p].request = c
                                /\ trail'[c][i].version = proc[p].number
                                /\ UNCHANGED versions
<1>0. trail \in [Requests -> Seq(Events)]
  BY DEF Typed, TypeOK
<1>1. CASE UNCHANGED trail
  BY <1>1
<1>2. ASSUME NEW d \in Requests, NEW kind \in {"addition", "modification"},
             NEW base \in 1 .. Len(versions) + 1, NEW target \in Regions \cup {None},
             NEW keeps \in BOOLEAN, Propose(d, kind, base, target, keeps)
      PROVE  i \in DOMAIN trail[c] /\ trail'[c][i] = trail[c][i]
  BY <1>0, <1>2 DEF Propose, Event
<1>3. ASSUME NEW p \in Appliers, Refuse(p)
      PROVE  i \in DOMAIN trail[c] /\ trail'[c][i] = trail[c][i]
  <2>1. proc[p].request \in Requests /\ proc[p].verdict \in {"orphaned", "conflicted"}
    BY <1>3 DEF Refuse, Typed, ProcOK
  <2>2. Event(proc[p].verdict, 0) \in Events /\ Event(proc[p].verdict, 0).type # "applied"
    BY <2>1 DEF Event, Events
  <2>3. trail' = [trail EXCEPT ![proc[p].request] =
                     Append(trail[proc[p].request], Event(proc[p].verdict, 0))]
    BY <1>3 DEF Refuse, RefusalTrail
  <2> QED BY <1>0, <2>1, <2>2, <2>3
<1>4. ASSUME NEW p \in Appliers, Commit(p)
      PROVE  \/ i \in DOMAIN trail[c] /\ trail'[c][i] = trail[c][i]
             \/ /\ proc[p].at = "commit" /\ proc[p].request = c
                /\ trail'[c][i].version = proc[p].number
                /\ UNCHANGED versions
  <2>0. proc[p].at = "commit" /\ proc[p] \in Places
    BY <1>4 DEF Commit, Cutters, Typed, TypeOK
  <2>1. proc[p].request \in Requests /\ proc[p].number \in Nat
    BY <2>0 DEF Typed, ProcOK, Places
  <2>2. /\ Event("applied", proc[p].number) \in Events
        /\ Event("applied", proc[p].number).version = proc[p].number
    BY <2>1 DEF Event, Events
  <2>3. trail' = [trail EXCEPT ![proc[p].request] =
                     Append(trail[proc[p].request], Event("applied", proc[p].number))]
    BY <1>4 DEF Commit, AppliedVersion
  <2>4. proc[p].at = "commit" /\ UNCHANGED versions
    BY <1>4 DEF Commit
  <2>5. CASE c = proc[p].request
    <3>1. trail'[c] = Append(trail[c], Event("applied", proc[p].number)) /\ trail[c] \in Seq(Events)
      BY <1>0, <2>3, <2>5
    <3>2. i \in DOMAIN trail[c] \/ i = Len(trail[c]) + 1
      BY <2>2, <3>1
    <3> QED BY <2>2, <2>4, <2>5, <3>1, <3>2
  <2>6. CASE c # proc[p].request
    BY <1>0, <2>3, <2>6
  <2> QED BY <2>5, <2>6
<1> QED BY <1>1, <1>2, <1>3, <1>4
        DEF Next, Intake, Apply, ApplyReads, ApplyFindsNoFile, Replace, Killed, PostReads, Snapshot,
            SelectCurrent, SelectMax, Insert, InsertFails, Relay, RelayReads, RelayDelivers,
            RelayFlips, Person, DraftWritten, EditorOpens, EditorSaves, Crash, db, vars

\* What the record says was applied is in the version it names, however many
\* appliers, posts and people work on the file at the same time and whichever of
\* them are killed: create_next hands the apply transaction the version that was
\* cut from the spliced content.
THEOREM AppliedIsVersioned == Spec => []AppliedHasVersion
<1>1. Init => AppliedHasVersion
  BY DEF Init, AppliedHasVersion
<1>2. Typed /\ Held /\ AppliedHasVersion /\ [Next]_vars => AppliedHasVersion'
  <2> SUFFICES ASSUME Typed, Held, AppliedHasVersion, [Next]_vars,
                      NEW c \in Requests, NEW i \in DOMAIN trail'[c],
                      trail'[c][i].type = "applied"
               PROVE  /\ trail'[c][i].version \in DOMAIN versions'
                      /\ Holds(versions[trail[c][i].version], c)'
    BY DEF AppliedHasVersion
  <2>1. PICK v \in DOMAIN versions :
           v = trail'[c][i].version /\ Holds(versions[v], c) /\ versions'[v] = versions[v]
    <3>1. CASE i \in DOMAIN trail[c] /\ trail'[c][i] = trail[c][i]
      BY <3>1, Frame DEF AppliedHasVersion
    <3>2. ASSUME NEW p \in Appliers, proc[p].at = "commit", proc[p].request = c,
                 trail'[c][i].version = proc[p].number
          PROVE  \E v \in DOMAIN versions :
                    v = trail'[c][i].version /\ Holds(versions[v], c) /\ versions'[v] = versions[v]
      BY <3>2, Frame DEF Held, Carrying
    <3> QED BY <3>1, <3>2, AppliedEvents
  <2>2. request[c].kind # "none"
    BY <2>1 DEF Holds
  <2>3. request'[c].kind = request[c].kind /\ request'[c].keeps = request[c].keeps
    BY <2>2, Frame
  <2>4. versions'[trail'[c][i].version] = versions[v] /\ v \in DOMAIN versions'
    BY <2>1, Frame
  <2> QED BY <2>1, <2>3, <2>4 DEF Holds, Body
<1> QED BY <1>1, <1>2, AlwaysTyped, AlwaysHeld, PTL DEF Spec

-------------------------------------------------------------------------------
(* What holds as long as nothing happens between the first step of an apply *)
(* or of a post and its last.                                              *)

\* One applier or post is under way at most; what a post or an applier saw as
\* current still is, and nothing else is; a content about to be written differs
\* from the file only where the file is as the request assumed.
Alone == \A p, q \in Cutters : p # q => proc[p].at = "idle" \/ proc[q].at = "idle"

AtMostOne ==
    /\ \A i, j \in current : i = j
    /\ \A p \in Cutters : proc[p].at \in {"number", "insert"} => current \subseteq {proc[p].seen}

Splicing(p) ==
    /\ file # None
    /\ \A r \in Regions : proc[p].doc.lines[r] # file.lines[r] =>
          BaseText(proc[p].request, r) = file.lines[r]

Fresh == \A p \in Appliers : proc[p].at = "replace" => Splicing(p)

\* Who starts, starts alone.
LEMMA Starts ==
  ASSUME Typed, [Next]_vars, NEW p \in Cutters, proc'[p].at # "idle", proc[p].at = "idle"
  PROVE  Undisturbed /\ \A q \in Cutters : q # p => proc'[q] = proc[q]
<1>0. proc \in [Cutters -> Places] /\ Idle.at = "idle" /\ Appliers \cap Posts = {}
  BY WriteBackAssumption DEF Typed, TypeOK, Idle
<1>1. ASSUME NEW q \in Cutters, (q \in Appliers /\ Apply(q)) \/ Snapshot(q)
      PROVE  /\ \A o \in Cutters : o # q => proc'[o] = proc[o]
             /\ q = p => Undisturbed
  <2>1. \A o \in Cutters : o # q => proc'[o] = proc[o]
    BY <1>0, <1>1 DEF Apply, ApplyReads, ApplyFindsNoFile, Refuse, Replace, Commit, Killed, Snapshot,
                      SelectCurrent, SelectMax, Insert, InsertFails, Cut
  <2>2. q = p => Undisturbed
    BY <1>0, <1>1 DEF Apply, ApplyReads, ApplyFindsNoFile, Refuse, Replace, Commit, Killed, Snapshot,
                      SelectCurrent, SelectMax, Insert, InsertFails
  <2> QED BY <2>1, <2>2
<1>2. ASSUME NEW q \in Posts, PostReads(q)
      PROVE  Undisturbed /\ \A o \in Cutters : o # q => proc'[o] = proc[o]
  BY <1>0, <1>2 DEF PostReads
<1>3. ~ (Intake \/ Relay \/ Person \/ Crash \/ UNCHANGED vars)
  BY <1>0 DEF Intake, Propose, Relay, RelayReads, RelayDelivers, RelayFlips, Person, DraftWritten,
              EditorOpens, EditorSaves, Crash, vars
<1> QED BY <1>0, <1>1, <1>2, <1>3 DEF Next, Cutters

LEMMA AloneStep == "race" \notin Enabled /\ Typed /\ Alone /\ [Next]_vars => Alone'
<1> SUFFICES ASSUME "race" \notin Enabled, Typed, Alone, [Next]_vars,
                    NEW p \in Cutters, NEW q \in Cutters, p # q,
                    proc'[p].at # "idle", proc'[q].at # "idle"
             PROVE  FALSE
  BY DEF Alone
<1>1. proc[p].at # "idle"
  BY Starts DEF Undisturbed
<1>2. proc[q].at # "idle"
  BY Starts DEF Undisturbed
<1> QED BY <1>1, <1>2 DEF Alone

LEMMA AlwaysAlone ==
  ASSUME "race" \notin Enabled
  PROVE  Spec => []Alone
<1>1. Init => Alone
  BY DEF Init, Alone, Idle
<1>2. Typed /\ Alone /\ [Next]_vars => Alone'
  BY AloneStep
<1> QED BY <1>1, <1>2, AlwaysTyped, PTL DEF Spec

\* A process that is under way in the middle of another one's step stays as it is.
LEMMA OneMoves ==
  ASSUME Typed, NEW p \in Cutters,
         (p \in Appliers /\ Apply(p)) \/ (p \in Posts /\ PostReads(p)) \/ Snapshot(p)
  PROVE  \A q \in Cutters : q # p => proc'[q] = proc[q]
<1>0. proc \in [Cutters -> Places]
  BY DEF Typed, TypeOK
<1> QED BY <1>0 DEF Apply, ApplyReads, ApplyFindsNoFile, Refuse, Replace, Commit, Killed, Snapshot,
                    SelectCurrent, SelectMax, Insert, InsertFails, Cut, PostReads

LEMMA AtMostOneStep == Typed /\ Alone /\ AtMostOne /\ [Next]_vars => AtMostOne'
<1> SUFFICES ASSUME Typed, Alone, AtMostOne, [Next]_vars PROVE AtMostOne'
  OBVIOUS
<1>0. proc \in [Cutters -> Places] /\ Idle.at = "idle"
  BY DEF Typed, TypeOK, Idle
<1>1. ASSUME NEW p \in Cutters, Insert(p) PROVE AtMostOne'
  <2>1. current' = {proc[p].number}
    BY <1>1 DEF Insert, Promoted, AtMostOne
  <2>2. proc'[p].at \notin {"number", "insert"}
    <3>1. CASE p \in Posts
      BY <1>0, <1>1, <3>1 DEF Insert, Cut
    <3>2. CASE p \notin Posts
      <4>1. proc' = [proc EXCEPT ![p] = [proc[p] EXCEPT !.at = "commit", !.number = proc[p].number]]
        BY <1>1, <3>2 DEF Insert, Cut
      <4> QED BY <1>0, <4>1 DEF Places
    <3> QED BY <3>1, <3>2
  <2>3. \A q \in Cutters : q # p => proc'[q].at = "idle"
    BY <1>1, OneMoves DEF Insert, Snapshot, Alone
  <2> QED BY <2>1, <2>2, <2>3 DEF AtMostOne
<1>2. ASSUME NEW p \in Cutters, NEW row \in 0 .. Len(versions), SelectCurrent(p, row)
      PROVE  AtMostOne'
  <2>1. UNCHANGED current /\ current \subseteq {row}
    BY <1>2 DEF SelectCurrent, db, AtMostOne
  <2>2. proc'[p].at \in {"number", "insert"} => proc'[p].seen = row
    <3>1. CASE row > 0 /\ versions[row] = proc[p].doc
      <4>1. CASE p \in Posts
        BY <1>0, <1>2, <3>1, <4>1 DEF SelectCurrent, Cut
      <4>2. CASE p \notin Posts
        <5>1. proc' = [proc EXCEPT ![p] = [proc[p] EXCEPT !.at = "commit", !.number = row]]
          BY <1>2, <3>1, <4>2 DEF SelectCurrent, Cut
        <5> QED BY <1>0, <5>1 DEF Places
      <4> QED BY <4>1, <4>2
    <3>2. CASE ~ (row > 0 /\ versions[row] = proc[p].doc)
      <4>1. proc' = [proc EXCEPT ![p] = [proc[p] EXCEPT !.at = "number", !.seen = row]]
        BY <1>2, <3>2 DEF SelectCurrent
      <4> QED BY <1>0, <4>1 DEF Places
    <3> QED BY <3>1, <3>2
  <2>3. \A q \in Cutters : q # p => proc'[q] = proc[q]
    BY <1>2, OneMoves DEF Snapshot
  <2> QED BY <2>1, <2>2, <2>3 DEF AtMostOne
<1>3. ASSUME NEW p \in Cutters, SelectMax(p) PROVE AtMostOne'
  <2>1. proc' = [proc EXCEPT ![p] = [proc[p] EXCEPT !.at = "insert", !.number = Len(versions) + 1]]
    BY <1>3 DEF SelectMax
  <2>2. proc'[p].seen = proc[p].seen /\ proc[p].at = "number" /\ UNCHANGED current
    BY <1>0, <1>3, <2>1 DEF SelectMax, Places, db
  <2>3. \A q \in Cutters : q # p => proc'[q] = proc[q]
    BY <1>3, OneMoves DEF Snapshot
  <2> QED BY <2>2, <2>3 DEF AtMostOne
<1>4. ASSUME NEW p \in Appliers, Apply(p) PROVE AtMostOne'
  <2>1. \/ UNCHANGED current /\ proc'[p].at \notin {"number", "insert"}
       \/ UNCHANGED <<current, proc>>
    <3>1. ASSUME NEW c \in Requests, NEW site \in Regions \cup {None}, ApplyReads(p, c, site)
          PROVE  UNCHANGED current /\ proc'[p].at \notin {"number", "insert"}
      BY <1>0, <3>1 DEF ApplyReads, Idle, db, Cutters
    <3>2. CASE Replace(p)
      BY <1>0, <3>2 DEF Replace, Places, db, Cutters
    <3>3. CASE Refuse(p) \/ Commit(p) \/ Killed(p)
      BY <1>0, <3>3 DEF Refuse, Commit, Killed, db, Cutters
    <3> QED BY <1>4, <3>1, <3>2, <3>3 DEF Apply, ApplyFindsNoFile, db
  <2>2. \A q \in Cutters : q # p => proc'[q] = proc[q]
    BY <1>4, OneMoves DEF Cutters
  <2> QED BY <2>1, <2>2 DEF AtMostOne
<1>5. ASSUME NEW p \in Cutters, (p \in Posts /\ PostReads(p)) \/ InsertFails(p) PROVE AtMostOne'
  BY <1>0, <1>5 DEF PostReads, InsertFails, Idle, AtMostOne, db
<1>6. CASE Intake \/ Relay \/ Person \/ Crash \/ UNCHANGED vars
  BY <1>0, <1>6 DEF Intake, Propose, Relay, RelayReads, RelayDelivers, RelayFlips, Person,
                    DraftWritten, EditorOpens, EditorSaves, Crash, vars, db, AtMostOne
<1> QED BY <1>1, <1>2, <1>3, <1>4, <1>5, <1>6 DEF Next, Snapshot, Cutters

\* Two rows are never current together, if no version is cut while another is.
THEOREM OneCurrentAlone ==
  ASSUME "race" \notin Enabled
  PROVE  Spec => []OneCurrent
<1>1. Init => AtMostOne
  BY DEF Init, AtMostOne, Idle
<1>2. AtMostOne => OneCurrent
  <2> SUFFICES ASSUME AtMostOne PROVE OneCurrent
    OBVIOUS
  <2>1. CASE current = {}
    BY <2>1, FS_EmptySet DEF OneCurrent
  <2>2. CASE current # {}
    <3>1. PICK i \in current : TRUE
      BY <2>2
    <3>2. current = {i}
      BY <3>1 DEF AtMostOne
    <3>3. Cardinality(current) = 1
      BY <3>2, FS_Singleton
    <3> QED BY <3>3 DEF OneCurrent
  <2> QED BY <2>1, <2>2
<1> QED BY <1>1, <1>2, AtMostOneStep, AlwaysTyped, AlwaysAlone, PTL DEF Spec

\* A clean verdict means that the one region a splice replaces is as assumed.
LEMMA SpliceIsFresh ==
  ASSUME Typed, NEW c \in Requests, request[c] # NoRequest, file # None,
         NEW site \in Regions \cup {None}, Verdict(c, site) = "clean",
         NEW r \in Regions, Spliced(c, site).lines[r] # file.lines[r]
  PROVE  BaseText(c, r) = file.lines[r]
<1>1. request[c] \in Rows /\ request[c].kind # "none" /\ file \in Doc
  BY DEF Typed, TypeOK, ProcOK
<1>2. CASE request[c].kind = "addition"
  BY <1>1, <1>2 DEF Spliced, Doc
<1>3. CASE request[c].kind = "modification"
  <2>1. site \in Regions /\ file.lines[site] = BaseText(c, site)
    BY <1>3 DEF Verdict
  <2>2. Spliced(c, site) = [file EXCEPT !.lines = [file.lines EXCEPT ![site] = Body(c)]]
    BY <1>3 DEF Spliced
  <2>3. r = site
    BY <1>1, <2>1, <2>2 DEF Doc
  <2> QED BY <2>1, <2>3
<1> QED BY <1>1, <1>2, <1>3 DEF Rows

LEMMA FreshStep == "race" \notin Enabled /\ Typed /\ Alone /\ Fresh /\ [Next]_vars => Fresh'
<1> SUFFICES ASSUME "race" \notin Enabled, Typed, Alone, Fresh, [Next]_vars,
                    NEW p \in Appliers, proc'[p].at = "replace"
             PROVE  Splicing(p)'
  BY DEF Fresh
<1>0. /\ proc \in [Cutters -> Places] /\ Idle.at = "idle" /\ p \in Cutters /\ p \notin Posts
      /\ Appliers \cap Posts = {}
  BY WriteBackAssumption DEF Typed, TypeOK, Idle, Cutters
<1>1. ASSUME NEW c \in Requests, NEW site \in Regions \cup {None}, ApplyReads(p, c, site)
      PROVE  Splicing(p)'
  <2>1. Verdict(c, site) = "clean" /\ proc'[p].doc = Spliced(c, site) /\ proc'[p].request = c
    BY <1>0, <1>1 DEF ApplyReads, Idle
  <2>2. UNCHANGED <<file, versions, request>> /\ file # None /\ request[c] # NoRequest
    BY <1>1 DEF ApplyReads, MayApply, db
  <2>3. \A r \in Regions : Spliced(c, site).lines[r] # file.lines[r] =>
           BaseText(c, r) = file.lines[r]
    BY <2>1, <2>2, SpliceIsFresh
  <2> QED BY <2>1, <2>2, <2>3 DEF Splicing, BaseText
<1>2. CASE proc[p].at = "replace" /\ proc'[p] = proc[p] /\ UNCHANGED file
  <2>1. Splicing(p) /\ file \in Doc
    BY <1>2 DEF Fresh, Splicing, Typed, TypeOK
  <2>2. proc[p].request \in Requests /\ request[proc[p].request].kind # "none"
    BY <1>2 DEF Typed, ProcOK
  <2>3. ASSUME NEW r \in Regions, proc[p].doc.lines[r] # file.lines[r]
        PROVE  BaseText(proc[p].request, r)' = file.lines[r]
    <3>1. BaseText(proc[p].request, r) = file.lines[r] /\ file.lines[r] \in Text
      BY <2>1, <2>3 DEF Splicing, Doc
    <3>2. BaseText(proc[p].request, r) # None
      BY <3>1, WriteBackAssumption
    <3> DEFINE c == proc[p].request
    <3>3. BaseText(c, r)' = BaseText(c, r)
      <4>1. request'[c].base = request[c].base
        BY <2>2, Frame
      <4>2. proc'[p].request = proc[p].request
        BY <1>2
      <4> QED BY <2>2, <3>2, <4>1, <4>2, Frame DEF BaseText
    <3> QED BY <3>1, <3>3
  <2> QED BY <1>2, <2>1, <2>3 DEF Splicing
<1>3. CASE Apply(p)
  <2>1. ~ (Refuse(p) \/ Commit(p) \/ Killed(p))
    BY <1>0 DEF Refuse, Commit, Killed
  <2>2. ~ Replace(p)
    BY <1>0 DEF Replace, Places
  <2>3. ASSUME NEW c \in Requests PROVE ~ ApplyFindsNoFile(p, c)
    BY <1>0 DEF ApplyFindsNoFile
  <2> QED BY <1>1, <1>3, <2>1, <2>2, <2>3 DEF Apply
<1>4. ASSUME NEW q \in Cutters, q # p,
             (q \in Appliers /\ Apply(q)) \/ (q \in Posts /\ PostReads(q)) \/ Snapshot(q)
      PROVE  Splicing(p)'
  <2>1. proc'[p] = proc[p]
    BY <1>0, <1>4, OneMoves
  <2>2. proc[q].at = "idle" /\ proc[p].at = "replace" /\ file # None
    BY <1>0, <1>4, <2>1 DEF Alone, Fresh, Splicing
  <2>3. ~ Undisturbed
    BY <1>0, <2>2 DEF Undisturbed
  <2>4. CASE q \in Appliers /\ Killed(q)
    BY <1>2, <2>1, <2>2, <2>4 DEF Killed
  <2> QED BY <1>4, <2>2, <2>3, <2>4
          DEF Apply, ApplyReads, ApplyFindsNoFile, Refuse, Replace, Commit, PostReads, Snapshot,
              SelectCurrent, SelectMax, Insert, InsertFails
<1>5. ASSUME Snapshot(p) PROVE FALSE
  <2>1. proc[p].at \in {"current", "number", "insert"}
    BY <1>5 DEF Snapshot, SelectCurrent, SelectMax, Insert, InsertFails
  <2>2. CASE SelectMax(p)
    BY <1>0, <2>2 DEF SelectMax, Places
  <2>3. CASE Insert(p)
    BY <1>0, <2>3 DEF Insert, Cut, Places
  <2>4. CASE InsertFails(p)
    BY <1>0, <2>4 DEF InsertFails
  <2>5. ASSUME NEW row \in 0 .. Len(versions), SelectCurrent(p, row) PROVE FALSE
    BY <1>0, <2>5 DEF SelectCurrent, Cut, Places
  <2> QED BY <1>5, <2>2, <2>3, <2>4, <2>5 DEF Snapshot
<1>6. CASE Intake \/ Relay \/ Person \/ Crash \/ UNCHANGED vars
  <2>1. proc'[p] = proc[p]
    BY <1>0, <1>6 DEF Intake, Propose, Relay, RelayReads, RelayDelivers, RelayFlips, Person,
                      DraftWritten, EditorOpens, EditorSaves, Crash, vars
  <2>2. file # None
    BY <2>1 DEF Fresh, Splicing
  <2>3. UNCHANGED file
    BY <1>6, <2>1, <2>2 DEF Intake, Propose, Relay, RelayReads, RelayDelivers, RelayFlips, Person,
                            DraftWritten, EditorOpens, EditorSaves, Crash, vars
  <2> QED BY <1>2, <2>1, <2>3
<1> QED BY <1>0, <1>3, <1>4, <1>5, <1>6 DEF Next, Cutters

\* No apply replaces what a person wrote but what its request assumed, if nobody
\* saves the file and nothing else applies between the verdict and the
\* replacement: the conflict gate is sound, the gap after it is what breaks it.
THEOREM HumanTextKeptAlone ==
  ASSUME "race" \notin Enabled
  PROVE  Spec => HumanTextKept
<1> DEFINE Kept ==
      file # None =>
        \A r \in Regions : file.lines[r].by = "person" /\ file'.lines[r] # file.lines[r] =>
            \/ edits' # edits
            \/ \E p \in Appliers : /\ proc[p].at = "replace" /\ proc'[p].at = "current"
                                  /\ BaseText(proc[p].request, r) = file.lines[r]
<1>1. Init => Fresh
  BY DEF Init, Fresh, Idle, Cutters
<1>2. Typed /\ Alone /\ Fresh /\ [Next]_vars => Fresh'
  BY FreshStep
<1>3. Typed /\ Fresh /\ [Next]_vars => [Kept]_vars
  <2> SUFFICES ASSUME Typed, Fresh, [Next]_vars, file # None, NEW r \in Regions,
                      file'.lines[r] # file.lines[r]
               PROVE  \/ edits' # edits
                      \/ \E p \in Appliers :
                            /\ proc[p].at = "replace" /\ proc'[p].at = "current"
                            /\ BaseText(proc[p].request, r) = file.lines[r]
    OBVIOUS
  <2>1. ASSUME NEW p \in Appliers, Replace(p)
        PROVE  /\ proc[p].at = "replace" /\ proc'[p].at = "current"
               /\ BaseText(proc[p].request, r) = file.lines[r]
    <3>1. proc[p].at = "replace" /\ file' = proc[p].doc
      BY <2>1 DEF Replace
    <3>2. proc'[p].at = "current"
      BY <2>1 DEF Replace, Cutters, Typed, TypeOK, Places
    <3> QED BY <3>1, <3>2 DEF Fresh, Splicing
  <2>2. ASSUME NEW s \in Regions, NEW quoted \in BOOLEAN, EditorSaves(s, quoted)
        PROVE  edits' # edits
    BY <2>2 DEF EditorSaves, Typed, TypeOK
  <2>3. CASE UNCHANGED file
    BY <2>3
  <2> QED BY <2>1, <2>2, <2>3
          DEF Next, Intake, Propose, Apply, ApplyReads, ApplyFindsNoFile, Refuse, Commit, Killed,
              PostReads, Snapshot, SelectCurrent, SelectMax, Insert, InsertFails, Relay,
              RelayReads, RelayDelivers, RelayFlips, Person, DraftWritten, EditorOpens, Crash,
              db, vars
<1>4. Spec => [][Kept]_vars
  <2> HIDE DEF Kept
  <2> QED BY <1>1, <1>2, <1>3, AlwaysTyped, AlwaysAlone, PTL DEF Spec
<1> QED BY <1>4 DEF HumanTextKept

-------------------------------------------------------------------------------
(* Alerts.                                                                 *)

\* Before intake a request has neither events nor alerts.
Matched ==
    /\ AlertPerApply
    /\ \A c \in Requests : request[c] = NoRequest => trail[c] = <<>> /\ AlertsOf(c) = {}

LEMMA FiniteSides ==
  ASSUME Typed, NEW c \in Requests
  PROVE  /\ IsFiniteSet(Applications(c)) /\ Cardinality(Applications(c)) \in Nat
         /\ IsFiniteSet(AlertsOf(c)) /\ Cardinality(AlertsOf(c)) \in Nat
<1>1. Len(trail[c]) \in Nat /\ Applications(c) \subseteq 1 .. Len(trail[c])
  BY DEF Typed, TypeOK, Applications
<1>2. Len(outbox) \in Nat /\ AlertsOf(c) \subseteq 1 .. Len(outbox)
  BY DEF Typed, TypeOK, AlertsOf
<1>3. IsFiniteSet(1 .. Len(trail[c])) /\ IsFiniteSet(1 .. Len(outbox))
  BY <1>1, <1>2, FS_Interval
<1>4. IsFiniteSet(Applications(c)) /\ IsFiniteSet(AlertsOf(c))
  BY <1>1, <1>2, <1>3, FS_Subset
<1> QED BY <1>4, FS_CardinalityType

LEMMA OneMoreAlert ==
  ASSUME Typed, NEW c \in Requests, NEW d \in Requests, outbox' = WithAlert(d)
  PROVE  /\ c # d => AlertsOf(c)' = AlertsOf(c)
         /\ c = d => /\ Cardinality(AlertsOf(c)') = Cardinality(AlertsOf(c)) + 1
                     /\ AlertsOf(c)' # {}
         /\ \A o \in DOMAIN outbox : o \in DOMAIN outbox' /\ outbox'[o] = outbox[o]
         /\ \A o \in DOMAIN outbox' \ DOMAIN outbox : outbox'[o] = Alert(d)
<1>1. Alert(d) \in Alerts /\ Alert(d).request = d /\ outbox \in Seq(Alerts)
  BY DEF Alert, Alerts, Typed, TypeOK
<1>2. outbox' = Append(outbox, Alert(d))
  BY DEF WithAlert
<1>3. /\ DOMAIN outbox' = DOMAIN outbox \cup {Len(outbox) + 1}
      /\ Len(outbox) + 1 \notin DOMAIN outbox
      /\ outbox'[Len(outbox) + 1] = Alert(d)
      /\ \A o \in DOMAIN outbox : outbox'[o] = outbox[o]
  BY <1>1, <1>2
<1>4. c # d => AlertsOf(c)' = AlertsOf(c)
  BY <1>1, <1>3 DEF AlertsOf
<1>5. ASSUME c = d
      PROVE  Cardinality(AlertsOf(c)') = Cardinality(AlertsOf(c)) + 1 /\ AlertsOf(c)' # {}
  <2>1. AlertsOf(c)' = AlertsOf(c) \cup {Len(outbox) + 1}
    BY <1>1, <1>3, <1>5 DEF AlertsOf
  <2>2. Len(outbox) + 1 \notin AlertsOf(c)
    BY <1>3 DEF AlertsOf
  <2> QED BY <2>1, <2>2, FiniteSides, FS_AddElement
<1> QED BY <1>3, <1>4, <1>5

LEMMA OneMoreEvent ==
  ASSUME Typed, NEW c \in Requests, NEW e \in Events, trail'[c] = Append(trail[c], e)
  PROVE  /\ e.type # "applied" => Applications(c)' = Applications(c)
         /\ e.type = "applied" => /\ Cardinality(Applications(c)') = Cardinality(Applications(c)) + 1
                                  /\ Applications(c)' # {}
<1>1. trail[c] \in Seq(Events)
  BY DEF Typed, TypeOK
<1>2. /\ DOMAIN trail'[c] = DOMAIN trail[c] \cup {Len(trail[c]) + 1}
      /\ Len(trail[c]) + 1 \notin DOMAIN trail[c]
      /\ trail'[c][Len(trail[c]) + 1] = e
      /\ \A i \in DOMAIN trail[c] : trail'[c][i] = trail[c][i]
  BY <1>1
<1>3. e.type # "applied" => Applications(c)' = Applications(c)
  BY <1>2 DEF Applications
<1>4. ASSUME e.type = "applied"
      PROVE  Cardinality(Applications(c)') = Cardinality(Applications(c)) + 1 /\ Applications(c)' # {}
  <2>1. Applications(c)' = Applications(c) \cup {Len(trail[c]) + 1}
    BY <1>2, <1>4 DEF Applications
  <2>2. Len(trail[c]) + 1 \notin Applications(c)
    BY <1>2 DEF Applications
  <2> QED BY <2>1, <2>2, FiniteSides, FS_AddElement
<1> QED BY <1>3, <1>4

\* What each kind of step does to a request's applications and alerts.
LEMMA ProposeMatched ==
  ASSUME Typed, Matched, NEW c \in Requests, NEW kind \in {"addition", "modification"},
         NEW base \in 1 .. Len(versions) + 1, NEW target \in Regions \cup {None},
         NEW keeps \in BOOLEAN, Propose(c, kind, base, target, keeps)
  PROVE  /\ Applications(c) = {} /\ AlertsOf(c) = {} /\ ~ FastTracked(c)
         /\ Applications(c)' = {}
         /\ FastTracked(c)' <=> GateStatus(kind) = "applied"
         /\ IF GateStatus(kind) = "applied"
            THEN Cardinality(AlertsOf(c)') = 1 /\ AlertsOf(c)' # {} /\ outbox' = WithAlert(c)
            ELSE UNCHANGED outbox
         /\ \A d \in Requests \ {c} :
               /\ request'[d] = request[d] /\ trail'[d] = trail[d]
               /\ AlertsOf(d)' = AlertsOf(d)
         /\ request'[c] # NoRequest
<1>1. request[c] = NoRequest /\ trail[c] = <<>> /\ AlertsOf(c) = {}
  BY DEF Propose, Matched
<1>2. Applications(c) = {} /\ ~ FastTracked(c)
  BY <1>1 DEF Applications, FastTracked
<1>3. Applications(c)' = {}
  <2>1. trail'[c] = <<Event("proposed", 0)>>
    BY DEF Propose, Typed, TypeOK
  <2> QED BY <2>1 DEF Applications, Event
<1>4. request'[c] # NoRequest /\ (FastTracked(c)' <=> GateStatus(kind) = "applied")
  <2>1. request'[c] = [kind |-> kind, status |-> GateStatus(kind), base |-> base,
                       target |-> target, keeps |-> keeps]
    BY DEF Propose, Typed, TypeOK
  <2>2. request'[c].kind = kind /\ request'[c] # NoRequest
    BY <2>1 DEF NoRequest
  <2> QED BY <2>2 DEF FastTracked, GateStatus
<1>5. IF GateStatus(kind) = "applied"
      THEN Cardinality(AlertsOf(c)') = 1 /\ AlertsOf(c)' # {} /\ outbox' = WithAlert(c)
      ELSE UNCHANGED outbox
  <2>1. CASE GateStatus(kind) = "applied"
    <3>1. outbox' = WithAlert(c)
      BY <2>1 DEF Propose, IntakeAlerts
    <3>2. Cardinality(AlertsOf(c)') = Cardinality(AlertsOf(c)) + 1 /\ AlertsOf(c)' # {}
      BY <3>1, OneMoreAlert
    <3>3. Cardinality(AlertsOf(c)) = 0
      BY <1>1, FS_EmptySet
    <3> QED BY <2>1, <3>1, <3>2, <3>3
  <2> QED BY <2>1 DEF Propose, IntakeAlerts
<1>6. ASSUME NEW d \in Requests \ {c}
      PROVE  /\ request'[d] = request[d] /\ trail'[d] = trail[d]
             /\ AlertsOf(d)' = AlertsOf(d)
  <2>1. request'[d] = request[d] /\ trail'[d] = trail[d]
    BY DEF Propose, Typed, TypeOK
  <2>2. AlertsOf(d)' = AlertsOf(d)
    <3>1. CASE outbox' = WithAlert(c)
      BY <3>1, OneMoreAlert
    <3>2. CASE UNCHANGED outbox
      BY <3>2 DEF AlertsOf
    <3> QED BY <1>5, <3>1, <3>2
  <2> QED BY <2>1, <2>2
<1> QED BY <1>1, <1>2, <1>3, <1>4, <1>5, <1>6

LEMMA CommitMatched ==
  ASSUME Typed, NEW p \in Appliers, Commit(p), NEW c \in Requests
  PROVE  /\ proc[p].request \in Requests
         /\ FastTracked(c)' = FastTracked(c)
         /\ request'[c] = NoRequest => request[c] = NoRequest
         /\ c = proc[p].request =>
               /\ request'[c] # NoRequest
               /\ Cardinality(Applications(c)') = Cardinality(Applications(c)) + 1
               /\ Cardinality(AlertsOf(c)') = Cardinality(AlertsOf(c)) + 1
               /\ Applications(c)' # {} /\ AlertsOf(c)' # {}
         /\ c # proc[p].request =>
               trail'[c] = trail[c] /\ AlertsOf(c)' = AlertsOf(c)
<1> DEFINE d == proc[p].request
<1>1. proc[p].at = "commit" /\ d \in Requests /\ request[d].kind # "none"
  BY DEF Commit, Typed, ProcOK
<1>2. outbox' = WithAlert(d)
  BY DEF Commit
<1>3. Event("applied", AppliedVersion(p)) \in Events /\ Event("applied", 0).type = "applied"
      /\ Event("applied", AppliedVersion(p)).type = "applied"
  BY DEF Event, Events, AppliedVersion, Cutters, Typed, TypeOK, Places
<1>4. trail' = [trail EXCEPT ![d] = Append(trail[d], Event("applied", AppliedVersion(p)))]
  BY DEF Commit
<1>5. [Next]_vars
  BY DEF Next, Apply
<1>6. FastTracked(c)' = FastTracked(c) /\ (request'[c] = NoRequest => request[c] = NoRequest)
      /\ (c = d => request'[c] # NoRequest)
  <2>1. CASE c # d
    <3>1. request'[c] = request[c]
      BY <1>1, <2>1 DEF Commit, Typed, TypeOK
    <3> QED BY <2>1, <3>1 DEF FastTracked
  <2>2. CASE c = d
    <3>1. request'[c].kind = request[c].kind
      BY <1>1, <1>5, <2>2, Frame
    <3>2. request'[c] # NoRequest /\ request[c] # NoRequest
      BY <1>1, <2>2, <3>1 DEF NoRequest
    <3> QED BY <3>1, <3>2 DEF FastTracked
  <2> QED BY <2>1, <2>2
<1>7. c = d => trail'[c] = Append(trail[c], Event("applied", AppliedVersion(p)))
  BY <1>1, <1>4 DEF Typed, TypeOK
<1>8. c # d => trail'[c] = trail[c]
  BY <1>1, <1>4 DEF Typed, TypeOK
<1> QED BY <1>1, <1>2, <1>3, <1>6, <1>7, <1>8, OneMoreAlert, OneMoreEvent

LEMMA RefuseMatched ==
  ASSUME Typed, NEW p \in Appliers, Refuse(p), NEW c \in Requests
  PROVE  /\ FastTracked(c)' = FastTracked(c)
         /\ Applications(c)' = Applications(c)
         /\ AlertsOf(c)' = AlertsOf(c)
         /\ request'[c] = NoRequest => request[c] = NoRequest /\ trail'[c] = trail[c]
<1> DEFINE d == proc[p].request
           v == proc[p].verdict
<1>1. d \in Requests /\ request[d].kind # "none" /\ v \in {"orphaned", "conflicted"}
  BY DEF Refuse, Typed, ProcOK
<1>2. Event(v, 0) \in Events /\ Event(v, 0).type # "applied"
  BY <1>1 DEF Event, Events
<1>3. trail' = [trail EXCEPT ![d] = Append(trail[d], Event(v, 0))]
  BY DEF Refuse, RefusalTrail
<1>4. [Next]_vars
  BY DEF Next, Apply
<1>5. CASE c # d
  <2>1. request'[c] = request[c] /\ trail'[c] = trail[c] /\ UNCHANGED outbox
    BY <1>1, <1>3, <1>5 DEF Refuse, Typed, TypeOK
  <2> QED BY <2>1 DEF FastTracked, Applications, AlertsOf
<1>6. CASE c = d
  <2>1. request'[c].kind = request[c].kind
    BY <1>1, <1>4, <1>6, Frame
  <2>2. request'[c] # NoRequest /\ request[c] # NoRequest
    BY <1>1, <1>6, <2>1 DEF NoRequest
  <2>3. trail'[c] = Append(trail[c], Event(v, 0))
    BY <1>1, <1>3, <1>6 DEF Typed, TypeOK
  <2>4. Applications(c)' = Applications(c)
    BY <1>2, <2>3, OneMoreEvent
  <2>5. UNCHANGED outbox
    BY DEF Refuse
  <2> QED BY <2>1, <2>2, <2>4, <2>5 DEF FastTracked, AlertsOf
<1> QED BY <1>5, <1>6

\* The relay changes no alert's request.
LEMMA RelayMatched ==
  ASSUME Typed, Relay, NEW c \in Requests
  PROVE  AlertsOf(c)' = AlertsOf(c) /\ UNCHANGED <<request, trail>>
<1>1. UNCHANGED <<request, trail>>
  BY DEF Relay, RelayReads, RelayDelivers, RelayFlips, db
<1>2. ASSUME NEW o \in DOMAIN outbox, RelayDelivers(o)
      PROVE  AlertsOf(c)' = AlertsOf(c)
  <2>1. outbox[o] \in Alerts
    BY DEF Typed, TypeOK
  <2>2. [outbox[o] EXCEPT !.told = @ + 1].request = outbox[o].request
    BY <2>1, AlertChange
  <2>3. outbox' = [outbox EXCEPT ![o] = [outbox[o] EXCEPT !.told = @ + 1]]
    BY <1>2 DEF RelayDelivers
  <2>4. \A q \in DOMAIN outbox : outbox'[q].request = outbox[q].request
    BY <2>2, <2>3 DEF Typed, TypeOK
  <2> QED BY <2>3, <2>4 DEF AlertsOf
<1>3. ASSUME NEW o \in DOMAIN outbox, RelayFlips(o)
      PROVE  AlertsOf(c)' = AlertsOf(c)
  <2>1. outbox[o] \in Alerts
    BY DEF Typed, TypeOK
  <2>2. [outbox[o] EXCEPT !.status = "delivered"].request = outbox[o].request
    BY <2>1, AlertChange
  <2>3. outbox' = [outbox EXCEPT ![o] = [outbox[o] EXCEPT !.status = "delivered"]]
    BY <1>3 DEF RelayFlips, Flipped
  <2>4. \A q \in DOMAIN outbox : outbox'[q].request = outbox[q].request
    BY <2>2, <2>3 DEF Typed, TypeOK
  <2> QED BY <2>3, <2>4 DEF AlertsOf
<1>4. CASE RelayReads
  BY <1>4 DEF RelayReads, db, AlertsOf
<1> QED BY <1>1, <1>2, <1>3, <1>4 DEF Relay

LEMMA OthersMatched ==
  ASSUME [Next]_vars, ~ Intake, ~ Relay, \A p \in Appliers : ~ Refuse(p) /\ ~ Commit(p)
  PROVE  UNCHANGED <<request, trail, outbox>>
  BY DEF Next, Apply, ApplyReads, ApplyFindsNoFile, Replace, Killed, PostReads, Snapshot,
         SelectCurrent, SelectMax, Insert, InsertFails, Person, DraftWritten, EditorOpens,
         EditorSaves, Crash, db, vars

LEMMA MatchedStep == Typed /\ Matched /\ [Next]_vars => Matched'
<1> SUFFICES ASSUME Typed, Matched, [Next]_vars, NEW c \in Requests
             PROVE  /\ Cardinality(AlertsOf(c)') =
                          Cardinality(Applications(c)') + (IF FastTracked(c)' THEN 1 ELSE 0)
                    /\ request'[c] = NoRequest => trail'[c] = <<>> /\ AlertsOf(c)' = {}
  BY DEF Matched, AlertPerApply
<1>0. /\ Cardinality(AlertsOf(c)) = Cardinality(Applications(c)) + (IF FastTracked(c) THEN 1 ELSE 0)
      /\ request[c] = NoRequest => trail[c] = <<>> /\ AlertsOf(c) = {}
      /\ Cardinality(AlertsOf(c)) \in Nat /\ Cardinality(Applications(c)) \in Nat
  BY FiniteSides DEF Matched, AlertPerApply
<1>1. CASE Intake
  <2>1. PICK d \in Requests, kind \in {"addition", "modification"},
             base \in 1 .. Len(versions) + 1, target \in Regions \cup {None},
             keeps \in BOOLEAN : Propose(d, kind, base, target, keeps)
    BY <1>1 DEF Intake
  <2>2. CASE c = d
    <3>0. Applications(c)' = {}
      BY <2>1, <2>2, ProposeMatched
    <3>1. Cardinality(Applications(c)') = 0
      BY <3>0, FS_EmptySet
    <3>2. CASE GateStatus(kind) = "applied"
      BY <2>1, <2>2, <3>1, <3>2, ProposeMatched
    <3>3. CASE GateStatus(kind) # "applied"
      <4>0. UNCHANGED outbox /\ AlertsOf(c) = {}
        BY <2>1, <2>2, <3>3, ProposeMatched
      <4>1. AlertsOf(c)' = {}
        BY <4>0 DEF AlertsOf
      <4>2. Cardinality(AlertsOf(c)') = 0
        BY <4>1, FS_EmptySet
      <4> QED BY <2>1, <2>2, <3>1, <3>3, <4>2, ProposeMatched
    <3> QED BY <3>2, <3>3
  <2>3. CASE c # d
    <3>1. request'[c] = request[c] /\ trail'[c] = trail[c] /\ AlertsOf(c)' = AlertsOf(c)
      BY <2>1, <2>3, ProposeMatched
    <3>2. Applications(c)' = Applications(c) /\ FastTracked(c)' = FastTracked(c)
      BY <3>1 DEF Applications, FastTracked
    <3> QED BY <1>0, <3>1, <3>2
  <2> QED BY <2>2, <2>3
<1>2. ASSUME NEW p \in Appliers, Commit(p)
      PROVE  /\ Cardinality(AlertsOf(c)') =
                   Cardinality(Applications(c)') + (IF FastTracked(c)' THEN 1 ELSE 0)
             /\ request'[c] = NoRequest => trail'[c] = <<>> /\ AlertsOf(c)' = {}
  <2>1. CASE c = proc[p].request
    BY <1>0, <1>2, <2>1, CommitMatched
  <2>2. CASE c # proc[p].request
    <3>1. Applications(c)' = Applications(c)
      BY <1>2, <2>2, CommitMatched DEF Applications
    <3> QED BY <1>0, <1>2, <2>2, <3>1, CommitMatched
  <2> QED BY <2>1, <2>2
<1>3. ASSUME NEW p \in Appliers, Refuse(p)
      PROVE  /\ Cardinality(AlertsOf(c)') =
                   Cardinality(Applications(c)') + (IF FastTracked(c)' THEN 1 ELSE 0)
             /\ request'[c] = NoRequest => trail'[c] = <<>> /\ AlertsOf(c)' = {}
  BY <1>0, <1>3, RefuseMatched
<1>4. CASE Relay
  <2>1. AlertsOf(c)' = AlertsOf(c) /\ UNCHANGED <<request, trail>>
    BY <1>4, RelayMatched
  <2> QED BY <1>0, <2>1 DEF Applications, FastTracked
<1>5. CASE UNCHANGED <<request, trail, outbox>>
  BY <1>0, <1>5 DEF Applications, AlertsOf, FastTracked
<1> QED BY <1>1, <1>2, <1>3, <1>4, <1>5, OthersMatched

LEMMA AlwaysMatched == Spec => []Matched
<1>1. Init => Matched
  <2> SUFFICES ASSUME Init, NEW c \in Requests
               PROVE  /\ AlertsOf(c) = {} /\ Applications(c) = {} /\ ~ FastTracked(c)
                      /\ trail[c] = <<>>
    <3> SUFFICES ASSUME NEW c \in Requests, AlertsOf(c) = {}, Applications(c) = {}, ~ FastTracked(c)
                 PROVE  Cardinality(AlertsOf(c)) =
                          Cardinality(Applications(c)) + (IF FastTracked(c) THEN 1 ELSE 0)
      BY DEF Matched, AlertPerApply
    <3>1. Cardinality(AlertsOf(c)) = 0 /\ Cardinality(Applications(c)) = 0
      BY FS_EmptySet
    <3> QED BY <3>1
  <2> QED BY DEF Init, AlertsOf, Applications, FastTracked
<1> QED BY <1>1, MatchedStep, AlwaysTyped, PTL DEF Spec

\* Each application on record has its alert and each alert its application, since
\* the event and the alert are written by one transaction and intake announces
\* what it applies at once.
THEOREM AlertsMatch == Spec => []AlertPerApply
<1>1. Matched => AlertPerApply
  BY DEF Matched
<1> QED BY <1>1, AlwaysMatched, PTL

-------------------------------------------------------------------------------
(* Delivery.                                                               *)

\* A pending alert has been told only in drains that a crash cut short, but for
\* the one the relay is at.
Telling ==
    /\ ToldOnce
    /\ relay.telling # 0 =>
          relay.telling \in relay.batch /\ outbox[relay.telling].told >= 1
    /\ \A o \in relay.batch : outbox[o].status = "pending"
    /\ \A o \in DOMAIN outbox : outbox[o].status = "pending" /\ o # relay.telling =>
          outbox[o].told <= crashes

LEMMA TellingStep == Typed /\ Telling /\ [Next]_vars => Telling'
<1> SUFFICES ASSUME Typed, Telling, [Next]_vars PROVE Telling'
  OBVIOUS
<1>0. /\ \A o \in DOMAIN outbox : outbox[o] \in Alerts /\ outbox[o].told \in Nat
      /\ relay \in [batch : SUBSET DOMAIN outbox, telling : {0} \cup DOMAIN outbox]
      /\ crashes \in Nat /\ outbox \in Seq(Alerts)
  <2>1. outbox \in Seq(Alerts) /\ crashes \in Nat
        /\ relay \in [batch : SUBSET DOMAIN outbox, telling : {0} \cup DOMAIN outbox]
    BY DEF Typed, TypeOK
  <2>2. ASSUME NEW o \in DOMAIN outbox PROVE outbox[o] \in Alerts
    BY <2>1
  <2>3. ASSUME NEW o \in DOMAIN outbox PROVE outbox[o].told \in Nat
    BY <2>2 DEF Alerts
  <2> QED BY <2>1, <2>2, <2>3
<1>1. ASSUME NEW c \in Requests, outbox' = WithAlert(c), UNCHANGED <<relay, crashes>>
      PROVE  Telling'
  <2>1. \A o \in DOMAIN outbox : o \in DOMAIN outbox' /\ outbox'[o] = outbox[o]
    BY <1>1, OneMoreAlert
  <2>2. \A o \in DOMAIN outbox' \ DOMAIN outbox :
           outbox'[o].status = "pending" /\ outbox'[o].told = 0
    BY <1>1, OneMoreAlert DEF Alert
  <2>3. ToldOnce'
    BY <1>0, <1>1, <2>1, <2>2 DEF Telling, ToldOnce
  <2> QED BY <1>0, <1>1, <2>1, <2>2, <2>3 DEF Telling
<1>2. CASE RelayReads
  <2>1. relay.telling = 0 /\ relay' = [batch |-> Pending, telling |-> 0]
    BY <1>2 DEF RelayReads, LoopFree, Resting
  <2> QED BY <1>2, <2>1 DEF RelayReads, Pending, Telling, ToldOnce, db, counts
<1>3. ASSUME NEW o \in DOMAIN outbox, RelayDelivers(o) PROVE Telling'
  <2> DEFINE alert == [outbox[o] EXCEPT !.told = @ + 1]
  <2>1. alert.told = outbox[o].told + 1 /\ alert.status = outbox[o].status
    BY <1>0 DEF Alerts
  <2>2. outbox' = [outbox EXCEPT ![o] = alert] /\ UNCHANGED crashes
    BY <1>3 DEF RelayDelivers, counts
  <2>3. relay' = [relay EXCEPT !.telling = o] /\ relay.telling = 0 /\ o \in relay.batch
    BY <1>3 DEF RelayDelivers
  <2>4. relay'.telling = o /\ relay'.batch = relay.batch
    BY <1>0, <2>3
  <2> HIDE DEF alert
  <2>5. /\ outbox'[o] = alert /\ DOMAIN outbox' = DOMAIN outbox
        /\ \A q \in DOMAIN outbox : q # o => outbox'[q] = outbox[q]
    BY <1>0, <2>2
  <2>6. outbox[o].status = "pending" /\ outbox[o].told <= crashes
    <3>1. o # 0
      BY <1>0
    <3> QED BY <2>3, <3>1 DEF Telling
  <2>7. ToldOnce'
    BY <1>0, <2>1, <2>2, <2>5, <2>6 DEF Telling, ToldOnce
  <2> QED BY <1>0, <2>1, <2>2, <2>3, <2>4, <2>5, <2>6, <2>7 DEF Telling
<1>4. ASSUME NEW o \in DOMAIN outbox, RelayFlips(o) PROVE Telling'
  <2> DEFINE alert == [outbox[o] EXCEPT !.status = "delivered"]
  <2>1. alert.told = outbox[o].told /\ alert.status = "delivered"
    BY <1>0 DEF Alerts
  <2>2. outbox' = [outbox EXCEPT ![o] = alert] /\ UNCHANGED crashes
    BY <1>4 DEF RelayFlips, Flipped, counts
  <2>3. relay.telling = o /\ relay'.telling = 0 /\ relay'.batch = relay.batch \ {o}
    BY <1>4 DEF RelayFlips
  <2> HIDE DEF alert
  <2>4. /\ outbox'[o] = alert /\ DOMAIN outbox' = DOMAIN outbox
        /\ \A q \in DOMAIN outbox : q # o => outbox'[q] = outbox[q]
    BY <1>0, <2>2
  <2>5. outbox[o].told >= 1
    <3>1. o # 0
      BY <1>0
    <3> QED BY <2>3, <3>1 DEF Telling
  <2>6. ToldOnce'
    BY <1>0, <2>1, <2>2, <2>4, <2>5 DEF Telling, ToldOnce
  <2> QED BY <1>0, <2>1, <2>2, <2>3, <2>4, <2>6 DEF Telling
<1>5. CASE Crash
  <2>1. relay' = Resting /\ crashes' = crashes + 1 /\ UNCHANGED outbox
    BY <1>5 DEF Crash, db
  <2>2. ToldOnce'
    BY <1>0, <2>1 DEF Telling, ToldOnce
  <2>3. \A o \in DOMAIN outbox : outbox[o].status = "pending" => outbox[o].told <= 1 + crashes
    BY DEF Telling, ToldOnce
  <2>4. relay'.batch = {} /\ relay'.telling = 0 /\ crashes + 1 = 1 + crashes
    BY <1>0, <2>1 DEF Resting
  <2> QED BY <2>1, <2>2, <2>3, <2>4 DEF Telling
<1>6. CASE UNCHANGED <<outbox, relay, crashes>>
  BY <1>6 DEF Telling, ToldOnce
<1>7. ASSUME NEW p \in Appliers, Commit(p) PROVE Telling'
  <2>1. proc[p].request \in Requests
    BY <1>7 DEF Commit, Typed, ProcOK
  <2> QED BY <1>1, <1>7, <2>1 DEF Commit, counts
<1>8. CASE Intake
  <2>1. PICK c \in Requests, kind \in {"addition", "modification"},
             base \in 1 .. Len(versions) + 1, target \in Regions \cup {None},
             keeps \in BOOLEAN : Propose(c, kind, base, target, keeps)
    BY <1>8 DEF Intake
  <2> QED BY <1>1, <1>6, <2>1 DEF Propose, IntakeAlerts, counts
<1> QED BY <1>2, <1>3, <1>4, <1>5, <1>6, <1>7, <1>8
        DEF Next, Apply, ApplyReads, ApplyFindsNoFile, Refuse, Replace, Killed, PostReads, Snapshot,
            SelectCurrent, SelectMax, Insert, InsertFails, Relay, Person, DraftWritten, EditorOpens,
            EditorSaves, db, vars, counts

\* An alert is delivered before it counts as delivered, and once but for crashes:
\* the relay flips each row in a transaction of its own after it has told it, and
\* no second drain runs meanwhile.
THEOREM AlertsToldOnce == Spec => []ToldOnce
<1>1. Init => Telling
  BY DEF Init, Telling, ToldOnce, Resting
<1>2. Telling => ToldOnce
  BY DEF Telling
<1> QED BY <1>1, <1>2, TellingStep, AlwaysTyped, PTL DEF Spec

-------------------------------------------------------------------------------
(* The promise.                                                            *)

\* What is applied is what has an alert.
Announced == AppliedSet = {c \in Requests : AlertsOf(c) # {}}

LEMMA MatchedIsAnnounced == Typed /\ Matched => Announced
<1> SUFFICES ASSUME Typed, Matched, NEW c \in Requests
             PROVE  Applications(c) # {} \/ FastTracked(c) <=> AlertsOf(c) # {}
  BY DEF AppliedSet, Announced
<1>1. /\ IsFiniteSet(Applications(c)) /\ Cardinality(Applications(c)) \in Nat
      /\ IsFiniteSet(AlertsOf(c)) /\ Cardinality(AlertsOf(c)) \in Nat
  BY FiniteSides
<1>2. Cardinality(Applications(c)) = 0 <=> Applications(c) = {}
  BY <1>1, FS_EmptySet
<1>3. Cardinality(AlertsOf(c)) = 0 <=> AlertsOf(c) = {}
  BY <1>1, FS_EmptySet
<1>4. Cardinality(AlertsOf(c)) = Cardinality(Applications(c)) + (IF FastTracked(c) THEN 1 ELSE 0)
  BY DEF Matched, AlertPerApply
<1> QED BY <1>1, <1>2, <1>3, <1>4

\* A new alert is the first of its request, which so becomes applied, or a further
\* one, which the descriptor does not tell from the first.
LEMMA AlertApplies ==
  ASSUME Typed, Announced, Announced', NEW d \in Requests, outbox' = WithAlert(d)
  PROVE  Promise!Apply(d) \/ UNCHANGED Promise!vars
<1>1. \A c \in Requests \ {d} : AlertsOf(c)' = AlertsOf(c)
  BY OneMoreAlert
<1>2. AlertsOf(d)' # {}
  BY OneMoreAlert
<1>3. /\ \A o \in DOMAIN outbox : o \in DOMAIN outbox' /\ outbox'[o] = outbox[o]
      /\ \A o \in DOMAIN outbox' \ DOMAIN outbox : outbox'[o].status # "delivered"
  BY OneMoreAlert DEF Alert
<1>4. SurfacedSet' = SurfacedSet
  BY <1>3 DEF SurfacedSet, AlertsOf
<1>5. AppliedSet' = AppliedSet \cup {d}
  BY <1>1, <1>2 DEF Announced
<1>6. OwedSet = AppliedSet \ SurfacedSet /\ OwedSet' = AppliedSet' \ SurfacedSet'
  BY DEF OwedSet, Announced
<1>7. CASE d \in AppliedSet
  BY <1>4, <1>5, <1>6, <1>7 DEF Promise!vars
<1>8. CASE d \notin AppliedSet
  <2>1. d \notin SurfacedSet
    BY <1>8 DEF SurfacedSet, Announced
  <2> QED BY <1>4, <1>5, <1>6, <1>8, <2>1 DEF Promise!Apply
<1> QED BY <1>7, <1>8

\* A flip shows the first alert of its request, or a further one.
LEMMA FlipSurfaces ==
  ASSUME Typed, Announced, Announced', NEW o \in DOMAIN outbox, RelayFlips(o)
  PROVE  (\E c \in Requests : Promise!Surface(c)) \/ UNCHANGED Promise!vars
<1> DEFINE d == outbox[o].request
           alert == [outbox[o] EXCEPT !.status = "delivered"]
<1>1. outbox[o] \in Alerts /\ outbox \in Seq(Alerts)
  BY DEF Typed, TypeOK
<1>2. d \in Requests /\ alert.request = d /\ alert.status = "delivered"
  BY <1>1 DEF Alerts
<1>3. outbox' = [outbox EXCEPT ![o] = alert]
  BY DEF RelayFlips, Flipped
<1>4. \A c \in Requests : AlertsOf(c)' = AlertsOf(c)
  BY RelayMatched DEF Relay
<1> HIDE DEF alert
<1>5. /\ outbox'[o] = alert /\ \A q \in DOMAIN outbox : q # o => outbox'[q] = outbox[q]
  BY <1>1, <1>3
<1>6. SurfacedSet' = SurfacedSet \cup {d}
  <2>1. ASSUME NEW c \in Requests PROVE c \in SurfacedSet' <=> c \in SurfacedSet \/ c = d
    <3>1. o \in AlertsOf(c) <=> c = d
      BY <1>2 DEF AlertsOf
    <3>2. \A q \in AlertsOf(c) : q # o => (outbox'[q].status = "delivered" <=> outbox[q].status = "delivered")
      BY <1>5 DEF AlertsOf
    <3> QED BY <1>2, <1>4, <1>5, <3>1, <3>2 DEF SurfacedSet
  <2> QED BY <1>2, <2>1 DEF SurfacedSet
<1>7. AppliedSet' = AppliedSet /\ d \in AppliedSet
  BY <1>2, <1>4 DEF Announced, AlertsOf
<1>8. OwedSet = AppliedSet \ SurfacedSet /\ OwedSet' = AppliedSet' \ SurfacedSet'
  BY DEF OwedSet, Announced
<1>9. CASE d \in SurfacedSet
  BY <1>6, <1>7, <1>8, <1>9 DEF Promise!vars
<1>10. CASE d \notin SurfacedSet
  <2>1. d \in OwedSet /\ OwedSet' = OwedSet \ {d}
    BY <1>6, <1>7, <1>8, <1>10
  <2>2. Promise!Surface(d)
    BY <1>6, <1>7, <2>1 DEF Promise!Surface
  <2> QED BY <1>2, <2>2
<1> QED BY <1>9, <1>10

LEMMA PromiseStep ==
  Typed /\ Announced /\ Announced' /\ [Next]_vars => [Promise!Next]_(Promise!vars)
<1> SUFFICES ASSUME Typed, Announced, Announced', [Next]_vars
             PROVE  Promise!Next \/ UNCHANGED Promise!vars
  OBVIOUS
<1>1. CASE Intake
  <2>1. PICK c \in Requests, kind \in {"addition", "modification"},
             base \in 1 .. Len(versions) + 1, target \in Regions \cup {None},
             keeps \in BOOLEAN : Propose(c, kind, base, target, keeps)
    BY <1>1 DEF Intake
  <2>2. CASE outbox' = WithAlert(c)
    BY <2>2, AlertApplies DEF Promise!Next
  <2>3. CASE UNCHANGED outbox
    BY <2>3 DEF Announced, AlertsOf, SurfacedSet, OwedSet, Promise!vars
  <2> QED BY <2>1, <2>2, <2>3 DEF Propose, IntakeAlerts
<1>2. ASSUME NEW p \in Appliers, Commit(p) PROVE Promise!Next \/ UNCHANGED Promise!vars
  <2>1. proc[p].request \in Requests
    BY <1>2 DEF Commit, Typed, ProcOK
  <2> QED BY <1>2, <2>1, AlertApplies DEF Commit, Promise!Next
<1>3. ASSUME NEW o \in DOMAIN outbox, RelayFlips(o)
      PROVE  Promise!Next \/ UNCHANGED Promise!vars
  BY <1>3, FlipSurfaces DEF Promise!Next
<1>4. ASSUME NEW o \in DOMAIN outbox, RelayDelivers(o)
      PROVE  UNCHANGED Promise!vars
  <2>1. \A c \in Requests : AlertsOf(c)' = AlertsOf(c)
    BY <1>4, RelayMatched DEF Relay
  <2>2. outbox[o] \in Alerts /\ outbox \in Seq(Alerts)
    BY DEF Typed, TypeOK
  <2>3. [outbox[o] EXCEPT !.told = @ + 1].status = outbox[o].status
    BY <2>2 DEF Alerts
  <2>4. outbox' = [outbox EXCEPT ![o] = [outbox[o] EXCEPT !.told = @ + 1]]
    BY <1>4 DEF RelayDelivers
  <2>5. \A q \in DOMAIN outbox : outbox'[q].status = outbox[q].status
    BY <2>2, <2>3, <2>4
  <2>6. SurfacedSet' = SurfacedSet
    BY <2>1, <2>5 DEF SurfacedSet, AlertsOf
  <2>7. AppliedSet' = AppliedSet /\ OwedSet' = OwedSet
    BY <2>1, <2>6 DEF Announced, OwedSet
  <2> QED BY <2>6, <2>7 DEF Promise!vars
<1>5. CASE UNCHANGED outbox
  BY <1>5 DEF Announced, AlertsOf, SurfacedSet, OwedSet, Promise!vars
<1> QED BY <1>1, <1>2, <1>3, <1>4, <1>5
        DEF Next, Apply, ApplyReads, ApplyFindsNoFile, Refuse, Replace, Killed, PostReads, Snapshot,
            SelectCurrent, SelectMax, Insert, InsertFails, Relay, RelayReads, Person, DraftWritten,
            EditorOpens, EditorSaves, Crash, db, vars

\* The write-back keeps the safety part of its promise: a request becomes applied
\* and owed its alert in one step, which happens once, and only an owed alert is
\* shown.
THEOREM PromiseIsSafe == Spec => Promise!Spec
<1>1. Init => Promise!Init
  BY DEF Init, Promise!Init, AppliedSet, OwedSet, SurfacedSet, AlertsOf, Applications, FastTracked
<1> QED BY <1>1, MatchedIsAnnounced, PromiseStep, AlwaysTyped, AlwaysMatched, PTL
        DEF Spec, Promise!Spec


-------------------------------------------------------------------------------
(* What stands in the file is on the record.                               *)

\* Some line of a content, or some addition in it, is of this request.  Unlike
\* Holds it does not look at the row, so it says something of a request before
\* there is one.
Mentions(doc, c) ==
    \/ doc.added[c] > 0
    \/ \E r \in Regions : doc.lines[r].by = "request" /\ doc.lines[r].n = c

\* After the replacement an apply goes on to its transaction.
Applying == {"current", "number", "insert", "commit"}

Recorded(c) ==
    /\ request[c].kind # "none"
    /\ \/ Applications(c) # {}
       \/ \E p \in Appliers : proc[p].request = c /\ proc[p].at \in Applying

\* ChangeRecorded alone is not inductive: a person saves what was opened before,
\* an applier writes what it read before, and an insert may fail on a number that
\* is taken.
Known ==
    /\ file # None => \A c \in Requests : Mentions(file, c) => Recorded(c)
    /\ editor # None => \A c \in Requests : Mentions(editor, c) => Recorded(c)
    /\ \A p \in Appliers : proc[p].at = "replace" =>
          \A c \in Requests : Mentions(proc[p].doc, c) => c = proc[p].request \/ Recorded(c)

Numbered == \A p \in Appliers : proc[p].at = "insert" => proc[p].number = Len(versions) + 1

\* A splice brings in the request it splices, and no other.
LEMMA SpliceMentions ==
  ASSUME Typed, NEW c \in Requests, request[c] # NoRequest, file # None,
         NEW site \in Regions \cup {None}, Verdict(c, site) = "clean",
         NEW d \in Requests, d # c, Mentions(Spliced(c, site), d)
  PROVE  Mentions(file, d)
<1>1. request[c] \in Rows /\ request[c].kind # "none" /\ file \in Doc
  BY DEF Typed, TypeOK, ProcOK
<1>2. CASE request[c].kind = "addition"
  <2>1. Spliced(c, site) = [file EXCEPT !.added = [file.added EXCEPT ![c] = @ + 1]]
    BY <1>2 DEF Spliced
  <2>2. Spliced(c, site).lines = file.lines /\ Spliced(c, site).added[d] = file.added[d]
    BY <1>1, <2>1 DEF Doc
  <2> QED BY <2>2 DEF Mentions
<1>3. CASE request[c].kind = "modification"
  <2>1. site \in Regions
    BY <1>3 DEF Verdict
  <2>2. Spliced(c, site) = [file EXCEPT !.lines = [file.lines EXCEPT ![site] = Body(c)]]
    BY <1>3 DEF Spliced
  <2>3. /\ Spliced(c, site).added = file.added
        /\ Spliced(c, site).lines[site] = Body(c)
        /\ \A r \in Regions : r # site => Spliced(c, site).lines[r] = file.lines[r]
    BY <1>1, <2>1, <2>2 DEF Doc
  <2>4. Body(c).n = c
    BY DEF Body
  <2> QED BY <2>3, <2>4 DEF Mentions
<1> QED BY <1>1, <1>2, <1>3 DEF Rows

\* The transaction puts its application on the record.
LEMMA CommitRecords ==
  ASSUME Typed, NEW p \in Appliers, Commit(p), NEW c \in Requests, proc[p].request = c
  PROVE  Applications(c)' # {}
<1>1. proc[p].number \in Nat
  BY DEF Commit, Cutters, Typed, TypeOK, Places
<1>2. Event("applied", proc[p].number) \in Events
      /\ Event("applied", proc[p].number).type = "applied"
  BY <1>1 DEF Event, Events
<1>3. trail' = [trail EXCEPT ![c] = Append(trail[c], Event("applied", proc[p].number))]
  BY DEF Commit, AppliedVersion
<1>4. trail'[c] = Append(trail[c], Event("applied", proc[p].number))
  BY <1>3 DEF Typed, TypeOK
<1> QED BY <1>2, <1>4, OneMoreEvent

\* No step takes a request's applications from its trail.
LEMMA ApplicationsStay ==
  ASSUME Typed, [Next]_vars, NEW c \in Requests, request[c].kind # "none", Applications(c) # {}
  PROVE  Applications(c)' # {}
<1>1. CASE UNCHANGED trail
  BY <1>1 DEF Applications
<1>2. ASSUME NEW d \in Requests, NEW kind \in {"addition", "modification"},
             NEW base \in 1 .. Len(versions) + 1, NEW target \in Regions \cup {None},
             NEW keeps \in BOOLEAN, Propose(d, kind, base, target, keeps)
      PROVE  Applications(c)' # {}
  <2>1. c # d
    BY <1>2 DEF Propose, NoRequest
  <2>2. trail'[c] = trail[c]
    BY <1>2, <2>1 DEF Propose, Typed, TypeOK
  <2> QED BY <2>2 DEF Applications
<1>3. ASSUME NEW p \in Appliers, Refuse(p) PROVE Applications(c)' # {}
  BY <1>3, RefuseMatched
<1>4. ASSUME NEW p \in Appliers, Commit(p) PROVE Applications(c)' # {}
  <2>1. CASE c = proc[p].request
    BY <1>4, <2>1, CommitRecords
  <2>2. CASE c # proc[p].request
    <3>1. trail'[c] = trail[c]
      BY <1>4, <2>2 DEF Commit, Typed, TypeOK
    <3> QED BY <3>1 DEF Applications
  <2> QED BY <2>1, <2>2
<1> QED BY <1>1, <1>2, <1>3, <1>4
        DEF Next, Intake, Apply, ApplyReads, ApplyFindsNoFile, Replace, Killed, PostReads, Snapshot,
            SelectCurrent, SelectMax, Insert, InsertFails, Relay, RelayReads, RelayDelivers,
            RelayFlips, Person, DraftWritten, EditorOpens, EditorSaves, Crash, db, vars

\* Unless it is killed, an apply that has replaced the file goes on with its
\* request until it commits.
LEMMA ApplyGoesOn ==
  ASSUME "kill" \notin Enabled, Typed, Numbered, [Next]_vars,
         NEW p \in Appliers, proc[p].at \in Applying
  PROVE  \/ proc'[p].at \in Applying /\ proc'[p].request = proc[p].request
         \/ Commit(p)
<1> DEFINE Goal == \/ proc'[p].at \in Applying /\ proc'[p].request = proc[p].request
                   \/ Commit(p)
<1> SUFFICES Goal
  OBVIOUS
<1> USE DEF Cutters
<1>0. /\ proc \in [Cutters -> Places] /\ proc[p] \in Places /\ p \notin Posts
      /\ "idle" \notin Applying /\ Idle.at = "idle"
  BY WriteBackAssumption DEF Typed, TypeOK, Applying, Idle
<1>1. CASE proc'[p] = proc[p]
  BY <1>1
<1>2. ASSUME NEW row \in 0 .. Len(versions), SelectCurrent(p, row) PROVE Goal
  <2>1. CASE row > 0 /\ versions[row] = proc[p].doc
    <3>1. proc' = [proc EXCEPT ![p] = [proc[p] EXCEPT !.at = "commit", !.number = row]]
      BY <1>0, <1>2, <2>1 DEF SelectCurrent, Cut
    <3> QED BY <1>0, <3>1 DEF Places, Applying
  <2>2. CASE ~ (row > 0 /\ versions[row] = proc[p].doc)
    <3>1. proc' = [proc EXCEPT ![p] = [proc[p] EXCEPT !.at = "number", !.seen = row]]
      BY <1>2, <2>2 DEF SelectCurrent
    <3> QED BY <1>0, <3>1 DEF Places, Applying
  <2> QED BY <2>1, <2>2
<1>3. CASE SelectMax(p)
  <2>1. proc' = [proc EXCEPT ![p] = [proc[p] EXCEPT !.at = "insert", !.number = Len(versions) + 1]]
    BY <1>3 DEF SelectMax
  <2> QED BY <1>0, <2>1 DEF Places, Applying
<1>4. CASE Insert(p)
  <2>1. proc' = [proc EXCEPT ![p] = [proc[p] EXCEPT !.at = "commit", !.number = proc[p].number]]
    BY <1>0, <1>4 DEF Insert, Cut
  <2> QED BY <1>0, <2>1 DEF Places, Applying
<1>5. ~ InsertFails(p)
  BY DEF InsertFails, Numbered
<1>6. ~ (Replace(p) \/ Refuse(p) \/ Killed(p))
  BY DEF Replace, Refuse, Killed, Applying
<1>7. ASSUME NEW c \in Requests, NEW site \in Regions \cup {None},
             ApplyReads(p, c, site) \/ ApplyFindsNoFile(p, c)
      PROVE  FALSE
  BY <1>0, <1>7 DEF ApplyReads, ApplyFindsNoFile
<1>8. ASSUME NEW q \in Cutters, q # p,
             (q \in Appliers /\ Apply(q)) \/ (q \in Posts /\ PostReads(q)) \/ Snapshot(q)
      PROVE  proc'[p] = proc[p]
  BY <1>8, OneMoves
<1>9. CASE Intake \/ Relay \/ Person \/ Crash \/ UNCHANGED vars
  BY <1>0, <1>9 DEF Intake, Propose, Relay, RelayReads, RelayDelivers, RelayFlips, Person,
                    DraftWritten, EditorOpens, EditorSaves, Crash, vars
<1> HIDE DEF Goal
<1>10. CASE Apply(p)
  BY <1>6, <1>7, <1>10 DEF Apply, Goal
<1>11. CASE Snapshot(p)
  BY <1>2, <1>3, <1>4, <1>5, <1>11 DEF Snapshot
<1> QED BY <1>0, <1>1, <1>8, <1>9, <1>10, <1>11 DEF Next

\* What is recorded stays recorded.
LEMMA RecordedStays ==
  ASSUME "kill" \notin Enabled, Typed, Numbered, [Next]_vars, NEW c \in Requests, Recorded(c)
  PROVE  Recorded(c)'
<1>1. request'[c].kind # "none"
  BY Frame DEF Recorded
<1>2. CASE Applications(c) # {}
  BY <1>1, <1>2, ApplicationsStay DEF Recorded
<1>3. ASSUME NEW p \in Appliers, proc[p].request = c, proc[p].at \in Applying PROVE Recorded(c)'
  <2>1. CASE Commit(p)
    BY <1>1, <1>3, <2>1, CommitRecords DEF Recorded
  <2>2. CASE proc'[p].at \in Applying /\ proc'[p].request = proc[p].request
    BY <1>1, <1>3, <2>2 DEF Recorded
  <2> QED BY <1>3, <2>1, <2>2, ApplyGoesOn
<1> QED BY <1>2, <1>3 DEF Recorded

\* A number chosen while nobody else is under way is still free at the insert.
LEMMA NumberedStep == "race" \notin Enabled /\ Typed /\ Alone /\ Numbered /\ [Next]_vars => Numbered'
<1> SUFFICES ASSUME "race" \notin Enabled, Typed, Alone, Numbered, [Next]_vars,
                    NEW p \in Appliers, proc'[p].at = "insert"
             PROVE  proc'[p].number = Len(versions') + 1
  BY DEF Numbered
<1> DEFINE Goal == proc'[p].number = Len(versions') + 1
<1> SUFFICES Goal
  OBVIOUS
<1> USE DEF Cutters
<1>0. /\ proc \in [Cutters -> Places] /\ proc[p] \in Places /\ p \notin Posts /\ Idle.at = "idle"
  BY WriteBackAssumption DEF Typed, TypeOK, Idle
<1>1. CASE proc'[p] = proc[p] /\ UNCHANGED versions
  BY <1>1 DEF Numbered
<1>2. CASE SelectMax(p)
  <2>1. proc' = [proc EXCEPT ![p] = [proc[p] EXCEPT !.at = "insert", !.number = Len(versions) + 1]]
    BY <1>2 DEF SelectMax
  <2>2. UNCHANGED versions
    BY <1>2 DEF SelectMax, db
  <2> QED BY <1>0, <2>1, <2>2 DEF Places
<1>3. ASSUME Insert(p) PROVE FALSE
  <2>1. proc' = [proc EXCEPT ![p] = [proc[p] EXCEPT !.at = "commit", !.number = proc[p].number]]
    BY <1>0, <1>3 DEF Insert, Cut
  <2> QED BY <1>0, <2>1 DEF Places
<1>4. ASSUME NEW row \in 0 .. Len(versions), SelectCurrent(p, row) PROVE FALSE
  BY <1>0, <1>4 DEF SelectCurrent, Cut, Places
<1>5. ~ (InsertFails(p) \/ Refuse(p) \/ Commit(p) \/ Killed(p))
  BY <1>0 DEF InsertFails, Refuse, Commit, Killed
<1>6. ~ Replace(p)
  BY <1>0 DEF Replace, Places
<1>7. ASSUME NEW c \in Requests, NEW site \in Regions \cup {None}, ApplyReads(p, c, site)
      PROVE  FALSE
  BY <1>0, <1>7 DEF ApplyReads, Idle
<1>8. ASSUME NEW c \in Requests, ApplyFindsNoFile(p, c) PROVE proc'[p] = proc[p] /\ UNCHANGED versions
  BY <1>8 DEF ApplyFindsNoFile, db
<1>9. ASSUME NEW q \in Cutters, q # p,
             (q \in Appliers /\ Apply(q)) \/ (q \in Posts /\ PostReads(q)) \/ Snapshot(q)
      PROVE  proc'[p] = proc[p] /\ UNCHANGED versions
  <2>1. proc'[p] = proc[p]
    BY <1>9, OneMoves
  <2>2. proc[q].at = "idle"
    BY <1>9, <2>1 DEF Alone
  <2>3. ~ Insert(q)
    BY <2>2 DEF Insert
  <2> QED BY <1>9, <2>1, <2>3
          DEF Apply, ApplyReads, ApplyFindsNoFile, Refuse, Replace, Commit, Killed, PostReads,
              Snapshot, SelectCurrent, SelectMax, InsertFails, db
<1>10. CASE Intake \/ Relay \/ Person \/ Crash \/ UNCHANGED vars
  <2>1. proc'[p] = proc[p]
    BY <1>0, <1>10 DEF Intake, Propose, Relay, RelayReads, RelayDelivers, RelayFlips, Person,
                       DraftWritten, EditorOpens, EditorSaves, Crash, vars
  <2>2. UNCHANGED versions
    BY <1>10 DEF Intake, Propose, Relay, RelayReads, RelayDelivers, RelayFlips, Person,
                 DraftWritten, EditorOpens, EditorSaves, Crash, db, vars
  <2> QED BY <1>1, <2>1, <2>2
<1> HIDE DEF Goal
<1>11. CASE Apply(p)
  BY <1>1, <1>5, <1>6, <1>7, <1>8, <1>11 DEF Apply
<1>12. CASE Snapshot(p)
  BY <1>2, <1>3, <1>4, <1>5, <1>12 DEF Snapshot
<1> QED BY <1>0, <1>1, <1>9, <1>10, <1>11, <1>12 DEF Next

\* Nothing unrecorded gets into the file, the editor or a content about to be
\* written.
LEMMA KnownStep ==
  "kill" \notin Enabled /\ Typed /\ Numbered /\ Known /\ [Next]_vars => Known'
<1> SUFFICES ASSUME "kill" \notin Enabled, Typed, Numbered, Known, [Next]_vars PROVE Known'
  OBVIOUS
<1>0. /\ proc \in [Cutters -> Places] /\ Idle.at = "idle"
      /\ \A p \in Appliers : p \in Cutters /\ p \notin Posts
  BY WriteBackAssumption DEF Typed, TypeOK, Idle, Cutters
<1>1. \A c \in Requests : Recorded(c) => Recorded(c)'
  BY RecordedStays
<1>2. ASSUME file' # None, NEW c \in Requests, Mentions(file', c) PROVE Recorded(c)'
  <2>1. CASE UNCHANGED file
    BY <1>1, <1>2, <2>1 DEF Known
  <2>2. ASSUME NEW p \in Appliers, Replace(p) PROVE Recorded(c)'
    <3>1. file' = proc[p].doc /\ proc[p].at = "replace"
      BY <2>2 DEF Replace
    <3>2. proc'[p].at \in Applying /\ proc'[p].request = proc[p].request
      BY <1>0, <2>2 DEF Replace, Places, Applying
    <3>3. request'[proc[p].request].kind # "none"
      BY <3>1, Frame DEF Typed, ProcOK
    <3>4. c = proc[p].request \/ Recorded(c)
      BY <1>2, <3>1 DEF Known
    <3> QED BY <1>1, <3>2, <3>3, <3>4 DEF Recorded
  <2>3. ASSUME NEW r \in Regions, NEW quoted \in BOOLEAN, EditorSaves(r, quoted)
        PROVE  Recorded(c)'
    <3> DEFINE typed == [by |-> "person", n |-> edits + 1, quoted |-> quoted]
    <3>1. editor # None /\ editor \in Doc
      BY <2>3 DEF EditorSaves, Typed, TypeOK
    <3>2. file' = [editor EXCEPT !.lines = [editor.lines EXCEPT ![r] = typed]]
      BY <2>3 DEF EditorSaves
    <3>3. /\ file'.added = editor.added
          /\ \A s \in Regions : file'.lines[s] = editor.lines[s] \/ file'.lines[s].by = "person"
      BY <3>1, <3>2 DEF Doc
    <3>4. Mentions(editor, c)
      BY <1>2, <3>3 DEF Mentions
    <3> QED BY <1>1, <3>1, <3>4 DEF Known
  <2>4. ~ DraftWritten
    <3> SUFFICES ASSUME DraftWritten PROVE FALSE
      OBVIOUS
    <3> QED BY <1>2 DEF DraftWritten, Draft, Mentions
  <2> QED BY <2>1, <2>2, <2>3, <2>4
          DEF Next, Intake, Propose, Apply, ApplyReads, ApplyFindsNoFile, Refuse, Commit, Killed,
              PostReads, Snapshot, SelectCurrent, SelectMax, Insert, InsertFails, Relay,
              RelayReads, RelayDelivers, RelayFlips, Person, EditorOpens, Crash, db, vars, people
<1>3. ASSUME editor' # None, NEW c \in Requests, Mentions(editor', c) PROVE Recorded(c)'
  <2>1. CASE UNCHANGED editor
    BY <1>1, <1>3, <2>1 DEF Known
  <2>2. CASE EditorOpens
    BY <1>1, <1>3, <2>2 DEF EditorOpens, Known
  <2> QED BY <1>3, <2>1, <2>2
          DEF Next, Intake, Propose, Apply, ApplyReads, ApplyFindsNoFile, Refuse, Replace, Commit,
              Killed, PostReads, Snapshot, SelectCurrent, SelectMax, Insert, InsertFails, Relay,
              RelayReads, RelayDelivers, RelayFlips, Person, DraftWritten, EditorSaves, Crash,
              db, vars, people
<1>4. ASSUME NEW p \in Appliers, proc'[p].at = "replace",
             NEW c \in Requests, Mentions(proc'[p].doc, c)
      PROVE  c = proc'[p].request \/ Recorded(c)'
  <2> DEFINE Goal == c = proc'[p].request \/ Recorded(c)'
  <2> SUFFICES Goal
    OBVIOUS
  <2>0. proc \in [Cutters -> Places] /\ p \in Cutters /\ p \notin Posts
    BY <1>0
  <2>1. CASE proc'[p] = proc[p]
    BY <1>1, <1>4, <2>1 DEF Known
  <2>2. ASSUME NEW d \in Requests, NEW site \in Regions \cup {None}, ApplyReads(p, d, site)
        PROVE  Goal
    <3>1. proc'[p].doc = Spliced(d, site) /\ proc'[p].request = d /\ Verdict(d, site) = "clean"
      BY <1>0, <1>4, <2>2 DEF ApplyReads, Idle
    <3>2. request[d] # NoRequest /\ file # None
      BY <2>2 DEF ApplyReads, MayApply
    <3>3. c # d => Mentions(file, c)
      BY <1>4, <3>1, <3>2, SpliceMentions
    <3> QED BY <1>1, <3>1, <3>2, <3>3 DEF Known
  <2>3. ~ (InsertFails(p) \/ Refuse(p) \/ Commit(p) \/ Killed(p))
    BY <1>0, <1>4 DEF InsertFails, Refuse, Commit, Killed
  <2>4. ~ (Replace(p) \/ SelectMax(p))
    BY <1>0, <1>4 DEF Replace, SelectMax, Places
  <2>5. ASSUME NEW row \in 0 .. Len(versions), SelectCurrent(p, row) PROVE FALSE
    BY <1>0, <1>4, <2>5 DEF SelectCurrent, Cut, Places
  <2>6. ASSUME Insert(p) PROVE FALSE
    BY <1>0, <1>4, <2>6 DEF Insert, Cut, Places
  <2>7. ASSUME NEW d \in Requests, ApplyFindsNoFile(p, d) PROVE proc'[p] = proc[p]
    BY <2>7 DEF ApplyFindsNoFile
  <2>8. ASSUME NEW q \in Cutters, q # p,
               (q \in Appliers /\ Apply(q)) \/ (q \in Posts /\ PostReads(q)) \/ Snapshot(q)
        PROVE  proc'[p] = proc[p]
    BY <1>0, <2>8, OneMoves
  <2>9. CASE Intake \/ Relay \/ Person \/ Crash \/ UNCHANGED vars
    <3>1. proc'[p] = proc[p]
      BY <2>0, <2>9 DEF Intake, Propose, Relay, RelayReads, RelayDelivers, RelayFlips, Person,
                        DraftWritten, EditorOpens, EditorSaves, Crash, vars
    <3> QED BY <2>1, <3>1
  <2> HIDE DEF Goal
  <2>10. CASE Apply(p)
    BY <2>1, <2>2, <2>3, <2>4, <2>7, <2>10 DEF Apply
  <2>11. CASE Snapshot(p)
    BY <2>3, <2>4, <2>5, <2>6, <2>11 DEF Snapshot
  <2> QED BY <1>0, <2>1, <2>8, <2>9, <2>10, <2>11 DEF Next, Cutters
<1>5. /\ file' # None => \A c \in Requests : Mentions(file', c) => Recorded(c)'
      /\ editor' # None => \A c \in Requests : Mentions(editor', c) => Recorded(c)'
      /\ \A p \in Appliers : proc'[p].at = "replace" =>
            \A c \in Requests : Mentions(proc'[p].doc, c) => c = proc'[p].request \/ Recorded(c)'
  BY <1>2, <1>3, <1>4
<1> QED BY <1>5 DEF Known, Mentions

\* A change that stands in the file is on the record or being put there, if no
\* apply is killed and none cuts its version while another process does.
THEOREM ChangesAreRecorded ==
  ASSUME "race" \notin Enabled, "kill" \notin Enabled
  PROVE  Spec => []ChangeRecorded
<1>1. Init => Numbered /\ Known
  <2> SUFFICES ASSUME Init PROVE Numbered /\ Known
    OBVIOUS
  <2>1. \A p \in Appliers : proc[p].at = "idle"
    BY DEF Init, Idle, Cutters
  <2>2. file = None \/ file = Draft
    BY DEF Init
  <2>3. \A c \in Requests : ~ Mentions(Draft, c)
    BY DEF Mentions, Draft
  <2> QED BY <2>1, <2>2, <2>3 DEF Init, Numbered, Known
<1>2. Typed /\ Alone /\ Numbered /\ Known /\ [Next]_vars => (Numbered /\ Known)'
  BY NumberedStep, KnownStep
<1>3. Typed /\ Known => ChangeRecorded
  <2> SUFFICES ASSUME Typed, Known, file # None, NEW c \in Requests, Holds(file, c)
               PROVE  Recorded(c)
    BY DEF ChangeRecorded, Recorded, Applying
  <2>1. Body(c).by = "request" /\ Body(c).n = c
    BY DEF Body
  <2>2. Mentions(file, c)
    BY <2>1 DEF Holds, Mentions
  <2> QED BY <2>2 DEF Known
<1> QED BY <1>1, <1>2, <1>3, AlwaysTyped, AlwaysAlone, PTL DEF Spec

\* Once there is a file there always is one.
LEMMA FileStays == Typed /\ file # None /\ [Next]_vars => file' # None
<1> SUFFICES ASSUME Typed, file # None, [Next]_vars PROVE file' # None
  OBVIOUS
<1>1. ASSUME NEW p \in Appliers, Replace(p) PROVE file' # None
  BY <1>1, WriteBackAssumption DEF Replace, Typed, ProcOK, Carrying, Cutters
<1>2. ASSUME NEW r \in Regions, NEW quoted \in BOOLEAN, EditorSaves(r, quoted) PROVE file' # None
  <2>1. [by |-> "person", n |-> edits + 1, quoted |-> quoted] \in Text
    BY DEF Typed, TypeOK, Text
  <2>2. file' \in Doc
    BY <1>2, <2>1 DEF EditorSaves, Typed, TypeOK, Doc
  <2> QED BY <2>2, WriteBackAssumption
<1>3. CASE UNCHANGED file
  BY <1>3
<1> QED BY <1>1, <1>2, <1>3
        DEF Next, Intake, Propose, Apply, ApplyReads, ApplyFindsNoFile, Refuse, Commit, Killed,
            PostReads, Snapshot, SelectCurrent, SelectMax, Insert, InsertFails, Relay, RelayReads,
            RelayDelivers, RelayFlips, Person, DraftWritten, EditorOpens, Crash, db, vars

\* No refusal is silent as long as the file was there to begin with: the answer
\* and the event are written together.
THEOREM RefusalsAreRecorded ==
  ASSUME "absent" \notin Enabled
  PROVE  Spec => RefusalRecorded
<1> DEFINE OnRecord ==
      \A p \in Appliers :
        answer'[p] # answer[p] /\ answer'[p].verdict \in {"orphaned", "conflicted"} =>
            LET c == answer'[p].request IN
            trail'[c] = Append(trail[c], Event(answer'[p].verdict, 0))
<1> DEFINE There == file # None
<1>1. Init => There
  <2>1. Draft # None
    BY DraftIsDoc, WriteBackAssumption
  <2> QED BY <2>1 DEF Init
<1>2. Typed /\ There /\ [Next]_vars => [OnRecord]_vars
  <2> SUFFICES ASSUME Typed, file # None, [Next]_vars, NEW p \in Appliers,
                      answer'[p] # answer[p], answer'[p].verdict \in {"orphaned", "conflicted"}
               PROVE  trail'[answer'[p].request] =
                        Append(trail[answer'[p].request], Event(answer'[p].verdict, 0))
    OBVIOUS
  <2>0. answer \in [Appliers -> Answers] /\ trail \in [Requests -> Seq(Events)]
    BY DEF Typed, TypeOK
  <2>1. ASSUME NEW q \in Appliers, Refuse(q)
        PROVE  trail'[answer'[p].request] =
                 Append(trail[answer'[p].request], Event(answer'[p].verdict, 0))
    <3>1. p = q
      BY <2>0, <2>1 DEF Refuse
    <3>2. answer'[p].request = proc[p].request /\ answer'[p].verdict = proc[p].verdict
      BY <2>0, <2>1, <3>1 DEF Refuse
    <3>3. proc[p].request \in Requests
      BY <2>1, <3>1 DEF Refuse, Typed, ProcOK
    <3>4. trail' = [trail EXCEPT ![proc[p].request] =
                       Append(trail[proc[p].request], Event(proc[p].verdict, 0))]
      BY <2>1, <3>1 DEF Refuse, RefusalTrail
    <3> QED BY <2>0, <3>2, <3>3, <3>4
  <2>2. ASSUME NEW q \in Appliers, Commit(q) PROVE FALSE
    BY <2>0, <2>2 DEF Commit
  <2>3. ASSUME NEW q \in Appliers, NEW c \in Requests, NEW site \in Regions \cup {None},
               ApplyReads(q, c, site) \/ ApplyFindsNoFile(q, c)
        PROVE  FALSE
    BY <2>0, <2>3 DEF ApplyReads, ApplyFindsNoFile, NoAnswer
  <2>4. answer' # answer
    OBVIOUS
  <2> QED BY <2>1, <2>2, <2>3, <2>4
          DEF Next, Intake, Propose, Apply, Replace, Killed, PostReads, Snapshot, SelectCurrent,
              SelectMax, Insert, InsertFails, Relay, RelayReads, RelayDelivers, RelayFlips, Person,
              DraftWritten, EditorOpens, EditorSaves, Crash, db, vars
<1>3. Typed /\ There /\ [Next]_vars => There'
  BY FileStays
<1>4. Spec => [][OnRecord]_vars
  <2> HIDE DEF OnRecord, There
  <2> QED BY <1>1, <1>2, <1>3, AlwaysTyped, PTL DEF Spec
<1> QED BY <1>4 DEF RefusalRecorded

===============================================================================
