---------------------------- MODULE AgentRunsProofs ----------------------------
(***************************************************************************)
(* Proofs about AgentRuns, for every number of runs, cap and choice of the *)
(* operations and accidents.                                               *)
(***************************************************************************)
EXTENDS AgentRuns, FiniteSetTheorems, TLAPS

-------------------------------------------------------------------------------
(* Lemmas about the operators of the model.                                *)

\* There are finitely many rows.
LEMMA RunsFinite == IsFiniteSet(Runs)
  BY AgentRunsAssumption, FS_Interval DEF Runs

\* The batch of a tick consists of waiting runs.
LEMMA BatchIsWaiting ==
  ASSUME NEW due \in DueRuns,
         NEW batch \in Oldest(WithStatus({"pending"}) \cup due, Slots)
  PROVE  /\ batch \in SUBSET Runs
         /\ due \in SUBSET Runs
         /\ \A r \in batch : status[r] \in Waiting
         /\ \A r \in due : status[r] = "scheduled"
  BY DEF DueRuns, Oldest, WithStatus, Waiting

\* A launch leaves every row in a known status.
LEMMA LaunchedType ==
  ASSUME TypeOK, NEW batch, NEW due, NEW outcome, Launched(batch, due, outcome)
  PROVE  status' \in [Runs -> Statuses]
  BY DEF TypeOK, Launched, Statuses, Finished, Watched, Active

\* A verdict is a finished status.
LEMMA VerdictFinishes ==
  ASSUME TypeOK, NEW r \in Runs, output[r] # "none"
  PROVE  StatusOf(output[r]) \in Finished
  BY AgentRunsAssumption DEF TypeOK, StatusOf, Finished

\* Agents, users at the terminal and time change no row and close no run; they
\* turn a session into another one, end it, but never make one.
LEMMA EnvironmentKeeps ==
  ASSUME TypeOK, NEW r \in Runs, Environment(r)
  PROVE  /\ UNCHANGED <<status, origin, cleanup, server, continues, crashes>>
         /\ \A q \in Runs : pane[q] = "none" => pane'[q] = "none"
         /\ \A q \in Runs : output[q] # "none" => output'[q] # "none"
         /\ \A q \in Runs : cooldown[q] # "none" => cooldown'[q] # "none"
<1>1. ASSUME NEW verdict \in Written, AgentWrites(r, verdict)
      PROVE  /\ UNCHANGED <<status, origin, cleanup, server, continues, crashes, pane, cooldown>>
             /\ \A q \in Runs : output[q] # "none" => output'[q] # "none"
  BY <1>1, AgentRunsAssumption DEF AgentWrites, memory, TypeOK
<1>2. ASSUME NEW from \in SUBSET (Panes \ {"none"}), NEW to, MovePane(r, from, to)
      PROVE  /\ UNCHANGED <<status, origin, cleanup, server, continues, crashes, output, cooldown>>
             /\ \A q \in Runs : pane[q] = "none" => pane'[q] = "none"
  BY <1>2 DEF MovePane, memory, TypeOK
<1>3. CASE IdleElapses(r)
  BY <1>3 DEF IdleElapses
<1>4. CASE CooldownElapses(r)
  BY <1>4 DEF CooldownElapses, TypeOK
<1>5. ClaudePanes \subseteq Panes \ {"none"} /\ "working" \in ClaudePanes
  BY DEF Panes, ClaudePanes
<1> QED BY <1>1, <1>2, <1>3, <1>4, <1>5
        DEF Environment, AgentIdles, AgentAsks, AgentLimited, AgentExits, UserTypes, SessionCloses

-------------------------------------------------------------------------------
(* Type correctness.                                                       *)

\* Every state of the system is of the declared types.
THEOREM TypeCorrect == Spec => []TypeOK
<1>1. Init => TypeOK
  BY AgentRunsAssumption DEF Init, TypeOK, Statuses, Panes, Absent, Stale
<1>2. TypeOK /\ [Next]_vars => TypeOK'
  <2> SUFFICES ASSUME TypeOK, [Next]_vars PROVE TypeOK'
    OBVIOUS
  <2>st. Finished \cup {"running", "pending", "scheduled", "rate_limited", "stuck", "deleted"}
           \subseteq Statuses
    BY DEF Statuses, Finished, Watched, Active
  <2>pn. {"none", "shell", "working", "idle", "asking", "limited"} = Panes
    BY DEF Panes, ClaudePanes
  <2>ag. Absent = 0 /\ Young = 1 /\ Stale = 3
    BY DEF Absent, Young, Stale
  <2>1. CASE DispatcherTick
    <3>1. PICK due \in DueRuns :
            \E batch \in Oldest(WithStatus({"pending"}) \cup due, Slots) :
            \E outcome \in [batch -> LaunchEnds] :
               /\ Launched(batch, due, outcome)
               /\ pane' = [r \in Runs |->
                     IF r \in batch /\ outcome[r] = "started" THEN "working"
                     ELSE IF r \in batch /\ outcome[r] = "abandoned" THEN "idle"
                     ELSE pane[r]]
      BY <2>1 DEF DispatcherTick
    <3>2. status' \in [Runs -> Statuses]
      BY <3>1, LaunchedType
    <3>3. pane' \in [Runs -> Panes]
      BY <3>1, <2>pn DEF TypeOK
    <3> QED BY <2>1, <3>2, <3>3 DEF DispatcherTick, TypeOK, memory
  <2>2. CASE CrashInLaunch
    <3>1. status' \in [Runs -> Statuses]
      BY <2>2, LaunchedType DEF CrashInLaunch
    <3>2. pane' \in [Runs -> Panes]
      BY <2>2, <2>pn DEF CrashInLaunch, TypeOK
    <3> QED BY <2>2, <2>ag, <3>1, <3>2, AgentRunsAssumption
            DEF CrashInLaunch, CrashServer, ForgetMemory, TypeOK
  <2>3. CASE Crash
    BY <2>3, <2>ag, AgentRunsAssumption DEF Crash, CrashServer, ForgetMemory, TypeOK
  <2>4. CASE Start
    <3>1. \A r \in Runs : Recovered(r) \in Statuses
      BY <2>st, VerdictFinishes DEF Recovered, TypeOK, Finished
    <3> QED BY <2>4, <3>1 DEF Start, TypeOK, memory
  <2>5. ASSUME NEW r \in Runs, MonitorVisit(r) PROVE TypeOK'
    <3>1. CASE SeeWorking(r)
      BY <2>5, <3>1, <2>ag DEF MonitorVisit, SeeWorking, TypeOK
    <3>2. CASE output[r] # "none" /\ Finalize(r)
      BY <2>5, <3>2, <2>ag, <2>st, VerdictFinishes DEF MonitorVisit, Finalize, TypeOK
    <3>3. CASE SeeIdle(r)
      BY <2>5, <3>3, <2>ag, <2>st DEF MonitorVisit, SeeIdle, TypeOK
    <3>4. CASE SeeAsking(r)
      BY <2>5, <3>4, <2>st DEF MonitorVisit, SeeAsking, TypeOK
    <3>5. CASE SeeLimitFirst(r)
      BY <2>5, <3>5, <2>st DEF MonitorVisit, SeeLimitFirst, TypeOK
    <3>6. CASE SeeLimitOver(r)
      BY <2>5, <3>6, <2>st, <2>pn DEF MonitorVisit, SeeLimitOver, TypeOK
    <3> QED BY <2>5, <3>1, <3>2, <3>3, <3>4, <3>5, <3>6 DEF MonitorVisit
  <2>6. ASSUME NEW r \in Runs, CleanupFires(r) PROVE TypeOK'
    BY <2>6, <2>pn DEF CleanupFires, TypeOK
  <2>7. ASSUME NEW r \in Runs, Request(r) PROVE TypeOK'
    <3>1. ASSUME NEW st \in {"pending", "scheduled"}, TriggerAgent(r, st) PROVE TypeOK'
      BY <3>1, <2>st DEF TriggerAgent, TypeOK, memory
    <3>2. ASSUME NEW by \in {"invoke", "hook"}, NEW session \in {"none", "shell"},
                 BornRunning(r, by, session)
          PROVE  TypeOK'
      BY <3>2, <2>st, <2>pn DEF BornRunning, TypeOK, memory
    <3>3. CASE InvokeAgent(r)
      BY <3>2, <3>3 DEF InvokeAgent
    <3>4. CASE RegisterInvocation(r)
      BY <3>2, <3>4 DEF RegisterInvocation
    <3>5. CASE CancelRun(r)
      BY <3>5, <2>st, <2>pn, <2>ag DEF CancelRun, Finished, TypeOK
    <3>6. CASE DeleteRun(r)
      BY <3>6, <2>st DEF DeleteRun, TypeOK, memory
    <3>7. CASE FailRun(r)
      BY <3>7, <2>st, <2>ag DEF FailRun, Finished, TypeOK
    <3>8. CASE ContinueRun(r)
      BY <3>8, <2>st, <2>pn, AgentRunsAssumption DEF ContinueRun, TypeOK, memory
    <3>9. CASE CompleteRun(r)
      BY <3>9, <2>st, AgentRunsAssumption DEF CompleteRun, Finished, TypeOK
    <3>10. CASE CompleteInvocation(r)
      BY <3>10, <2>st DEF CompleteInvocation, Finished, TypeOK, memory
    <3>11. CASE RecheckRun(r)
      BY <3>11, <2>st, VerdictFinishes DEF RecheckRun, TypeOK, memory
    <3> QED BY <2>7, <3>1, <3>3, <3>4, <3>5, <3>6, <3>7, <3>8, <3>9, <3>10, <3>11
            DEF Request
  <2>8. ASSUME NEW r \in Runs, Environment(r) PROVE TypeOK'
    <3>1. ASSUME NEW verdict \in Written, AgentWrites(r, verdict) PROVE TypeOK'
      BY <3>1 DEF AgentWrites, TypeOK, memory
    <3>2. ASSUME NEW from, NEW to \in Panes, MovePane(r, from, to) PROVE TypeOK'
      BY <3>2 DEF MovePane, TypeOK, memory
    <3>3. CASE IdleElapses(r)
      BY <3>3, <2>ag DEF IdleElapses, TypeOK
    <3>4. CASE CooldownElapses(r)
      BY <3>4 DEF CooldownElapses, TypeOK
    <3> QED BY <2>8, <3>1, <3>2, <3>3, <3>4, <2>pn
            DEF Environment, AgentIdles, AgentAsks, AgentLimited, AgentExits,
                UserTypes, SessionCloses
  <2>9. CASE UNCHANGED vars
    BY <2>9 DEF vars, memory, TypeOK
  <2> QED BY <2>1, <2>2, <2>3, <2>4, <2>5, <2>6, <2>7, <2>8, <2>9 DEF Next
<1> QED BY <1>1, <1>2, PTL DEF Spec

-------------------------------------------------------------------------------
(* The dispatcher.                                                         *)

\* A run that waits without a session starts to run only in a tick of the
\* dispatcher, completed or cut short by a crash.
LEMMA OnlyTheDispatcherLaunches ==
  ASSUME TypeOK, [Next]_vars, NEW r \in Runs, LaunchedNow(r)
  PROVE  DispatcherTick \/ CrashInLaunch
<1> USE DEF LaunchedNow, Waiting
<1>1. CASE Crash
  BY <1>1 DEF Crash
<1>2. CASE Start
  BY <1>2, VerdictFinishes DEF Start, Recovered, Finished, Watched, TypeOK
<1>3. ASSUME NEW q \in Runs, MonitorVisit(q) PROVE FALSE
  <2>1. status[q] # status[r]
    BY <1>3 DEF MonitorVisit, Watched
  <2>2. status'[r] = status[r]
    BY <1>3, <2>1 DEF MonitorVisit, SeeWorking, Finalize, SeeIdle, SeeAsking, SeeLimitFirst,
                      SeeLimitOver, TypeOK
  <2> QED BY <2>2
<1>4. ASSUME NEW q \in Runs, CleanupFires(q) PROVE FALSE
  BY <1>4 DEF CleanupFires
<1>5. ASSUME NEW q \in Runs, Request(q) PROVE FALSE
  <2>1. ASSUME NEW st \in {"pending", "scheduled"}, TriggerAgent(q, st) PROVE FALSE
    BY <2>1 DEF TriggerAgent, TypeOK
  <2>2. CASE InvokeAgent(q) \/ RegisterInvocation(q)
    BY <2>2 DEF InvokeAgent, RegisterInvocation, BornRunning, Fresh, TypeOK
  <2>3. CASE CancelRun(q) \/ DeleteRun(q) \/ FailRun(q)
    BY <2>3 DEF CancelRun, DeleteRun, FailRun, TypeOK
  <2>4. CASE ContinueRun(q)
    BY <2>4 DEF ContinueRun, TypeOK
  <2>5. CASE CompleteRun(q) \/ CompleteInvocation(q)
    BY <2>5 DEF CompleteRun, CompleteInvocation, TypeOK
  <2>6. CASE RecheckRun(q)
    BY <2>6, VerdictFinishes DEF RecheckRun, Finished, TypeOK
  <2> QED BY <1>5, <2>1, <2>2, <2>3, <2>4, <2>5, <2>6 DEF Request
<1>6. ASSUME NEW q \in Runs, Environment(q) PROVE FALSE
  BY <1>6, EnvironmentKeeps
<1>7. CASE UNCHANGED vars
  BY <1>7 DEF vars
<1> QED BY <1>1, <1>2, <1>3, <1>4, <1>5, <1>6, <1>7 DEF Next

\* A batch with a run in it fits beside the rows that run already.
LEMMA BatchFits ==
  ASSUME TypeOK, NEW due \in DueRuns,
         NEW batch \in Oldest(WithStatus({"pending"}) \cup due, Slots), NEW r \in batch
  PROVE  Cardinality(WithStatus({"running"}) \cup batch) <= MaxConcurrent
<1> DEFINE running == WithStatus({"running"})
<1>1. batch \in SUBSET Runs /\ running \in SUBSET Runs /\ batch \cap running = {}
  BY BatchIsWaiting DEF WithStatus, Waiting
<1>2. IsFiniteSet(batch) /\ IsFiniteSet(running)
  BY <1>1, RunsFinite, FS_Subset
<1>3. Cardinality(batch) \in Nat /\ Cardinality(running) \in Nat /\ Cardinality(batch) # 0
  BY <1>2, FS_CardinalityType, FS_EmptySet
<1>4. Cardinality(batch) <= Slots
  <2>1. Slots \in Nat
    BY <1>3, AgentRunsAssumption DEF Slots
  <2>2. CASE Cardinality(batch) = Slots
    BY <2>1, <2>2
  <2>3. CASE /\ batch = WithStatus({"pending"}) \cup due
             /\ Cardinality(WithStatus({"pending"}) \cup due) < Slots
    BY <1>3, <2>1, <2>3
  <2> QED BY <2>2, <2>3 DEF Oldest
<1>5. Cardinality(running) + Cardinality(batch) <= MaxConcurrent
  BY <1>3, <1>4, AgentRunsAssumption DEF Slots
<1>6. Cardinality(running \cup batch) = Cardinality(running) + Cardinality(batch)
  <2>1. running \cap batch = {}
    BY <1>1
  <2>2. Cardinality(running \cap batch) = 0
    BY <2>1, FS_EmptySet
  <2>3. Cardinality(running \cup batch)
          = Cardinality(running) + Cardinality(batch) - Cardinality(running \cap batch)
    BY <1>2, FS_Union
  <2> HIDE DEF running
  <2> QED BY <1>3, <2>2, <2>3
<1> QED BY <1>5, <1>6

\* No launch ever takes the number of running rows past MAX_CONCURRENT_AGENTS.
THEOREM DispatcherKeepsCap == Spec => LaunchesWithinCap
<1> DEFINE Capped == (\E r \in Runs : LaunchedNow(r))
              => Cardinality({r \in Runs : status'[r] = "running"}) <= MaxConcurrent
<1>1. TypeOK /\ [Next]_vars => [Capped]_vars
  <2> DEFINE Running2 == {r \in Runs : status'[r] = "running"}
  <2> SUFFICES ASSUME TypeOK, [Next]_vars, NEW q \in Runs, LaunchedNow(q)
               PROVE  Cardinality(Running2) <= MaxConcurrent
    OBVIOUS
  <2>1. PICK due \in DueRuns : \E batch \in Oldest(WithStatus({"pending"}) \cup due, Slots) :
              \E outcome : Launched(batch, due, outcome)
    BY OnlyTheDispatcherLaunches DEF DispatcherTick, CrashInLaunch
  <2>2. PICK batch \in Oldest(WithStatus({"pending"}) \cup due, Slots) :
              \E outcome : Launched(batch, due, outcome)
    BY <2>1
  <2>3. Running2 \subseteq WithStatus({"running"}) \cup batch
    BY <2>2 DEF Launched, WithStatus
  <2>4. q \in batch
    BY <2>2 DEF Launched, LaunchedNow, Waiting
  <2>5. Cardinality(WithStatus({"running"}) \cup batch) <= MaxConcurrent
    BY <2>4, BatchFits
  <2>6. IsFiniteSet(WithStatus({"running"}) \cup batch)
    BY RunsFinite, FS_Subset, BatchIsWaiting DEF WithStatus
  <2>7. /\ Cardinality(Running2) <= Cardinality(WithStatus({"running"}) \cup batch)
        /\ Cardinality(Running2) \in Nat
        /\ Cardinality(WithStatus({"running"}) \cup batch) \in Nat
    BY <2>3, <2>6, FS_Subset, FS_CardinalityType
  <2> QED BY <2>5, <2>7, AgentRunsAssumption
<1> QED BY <1>1, TypeCorrect, PTL DEF Spec, LaunchesWithinCap

\* No launch passes over an older run that stays pending.
THEOREM DispatcherIsFair == Spec => OldestFirst
<1> DEFINE Older == \A r, q \in Runs : LaunchedNow(r) /\ q < r => status'[q] # "pending"
<1>1. TypeOK /\ [Next]_vars => [Older]_vars
  <2> SUFFICES ASSUME TypeOK, [Next]_vars, NEW r \in Runs, NEW q \in Runs,
                      LaunchedNow(r), q < r
               PROVE  status'[q] # "pending"
    OBVIOUS
  <2>0. r \in Nat /\ q \in Nat
    BY AgentRunsAssumption DEF Runs
  <2>1. PICK due \in DueRuns :
           \E batch \in Oldest(WithStatus({"pending"}) \cup due, Slots) : \E outcome :
              /\ Launched(batch, due, outcome)
              /\ r \in batch /\ outcome[r] = "started"
              /\ q \in batch => outcome[q] \in LaunchEnds
    <3>1. CASE DispatcherTick
      BY <3>1 DEF DispatcherTick, Launched, LaunchedNow, Waiting
    <3>2. CASE CrashInLaunch
      <4>1. PICK due \in DueRuns :
              \E batch \in Oldest(WithStatus({"pending"}) \cup due, Slots) :
              \E c \in batch :
              \E outcome :
                 /\ \A p \in batch : (p < c) <=> (outcome[p] \in LaunchEnds)
                 /\ Launched(batch, due, outcome)
        BY <3>2 DEF CrashInLaunch
      <4>2. PICK batch \in Oldest(WithStatus({"pending"}) \cup due, Slots), c \in Runs :
              \E outcome :
                 /\ \A p \in batch : (p < c) <=> (outcome[p] \in LaunchEnds)
                 /\ Launched(batch, due, outcome)
        BY <4>1, BatchIsWaiting
      <4>3. PICK outcome :
                 /\ \A p \in batch : (p < c) <=> (outcome[p] \in LaunchEnds)
                 /\ Launched(batch, due, outcome)
        BY <4>2
      <4>4. r \in batch /\ outcome[r] = "started"
        BY <4>3 DEF Launched, LaunchedNow, Waiting
      <4>5. q < c
        <5>1. r < c
          BY <4>3, <4>4 DEF LaunchEnds
        <5>2. c \in Nat
          BY AgentRunsAssumption DEF Runs
        <5> QED BY <2>0, <5>1, <5>2
      <4> QED BY <4>3, <4>4, <4>5
    <3> QED BY <3>1, <3>2, OnlyTheDispatcherLaunches
  <2>2. PICK batch \in Oldest(WithStatus({"pending"}) \cup due, Slots) : \E outcome :
              /\ Launched(batch, due, outcome)
              /\ r \in batch /\ outcome[r] = "started"
              /\ q \in batch => outcome[q] \in LaunchEnds
    BY <2>1
  <2>3. CASE q \in batch
    BY <2>2, <2>3 DEF Launched, LaunchEnds
  <2>4. CASE q \notin batch
    <3>1. ~(r < q)
      BY <2>0
    <3>2. q \notin WithStatus({"pending"}) \cup due
      BY <2>2, <2>4, <3>1 DEF Oldest
    <3> QED BY <2>2, <2>4, <3>2 DEF Launched, WithStatus
  <2> QED BY <2>3, <2>4
<1> QED BY <1>1, TypeCorrect, PTL DEF Spec, OldestFirst

\* A run that has left the queue stays out of it.
THEOREM QueueIsLeftForGood == Spec => NeverRequeued
<1> DEFINE Left == \A r \in Runs : status[r] \notin Waiting \cup {"none"}
                         => status'[r] \notin Waiting \cup {"none"}
<1>1. TypeOK /\ [Next]_vars => [Left]_vars
  <2> SUFFICES ASSUME TypeOK, [Next]_vars, NEW r \in Runs,
                      status[r] \notin Waiting \cup {"none"}
               PROVE  status'[r] \notin Waiting \cup {"none"}
    OBVIOUS
  <2> USE DEF Waiting
  <2>1. CASE DispatcherTick \/ CrashInLaunch
    <3>1. PICK due \in DueRuns : \E batch \in Oldest(WithStatus({"pending"}) \cup due, Slots) :
              \E outcome : Launched(batch, due, outcome)
      BY <2>1 DEF DispatcherTick, CrashInLaunch
    <3>2. PICK batch \in Oldest(WithStatus({"pending"}) \cup due, Slots) :
              \E outcome : Launched(batch, due, outcome)
      BY <3>1
    <3>3. r \notin batch /\ r \notin due
      BY BatchIsWaiting
    <3> QED BY <3>2, <3>3 DEF Launched
  <2>2. CASE Crash
    BY <2>2 DEF Crash
  <2>3. CASE Start
    BY <2>3, VerdictFinishes DEF Start, Recovered, Finished, TypeOK
  <2>4. ASSUME NEW q \in Runs, MonitorVisit(q) PROVE status'[r] \notin Waiting \cup {"none"}
    <3>1. CASE output[q] # "none" /\ Finalize(q)
      BY <3>1, VerdictFinishes DEF Finalize, Finished, TypeOK
    <3>2. CASE SeeWorking(q) \/ SeeIdle(q) \/ SeeAsking(q) \/ SeeLimitFirst(q) \/ SeeLimitOver(q)
      BY <3>2 DEF SeeWorking, SeeIdle, SeeAsking, SeeLimitFirst, SeeLimitOver, TypeOK
    <3> QED BY <2>4, <3>1, <3>2 DEF MonitorVisit
  <2>5. ASSUME NEW q \in Runs, CleanupFires(q) PROVE status'[r] \notin Waiting \cup {"none"}
    BY <2>5 DEF CleanupFires
  <2>6. ASSUME NEW q \in Runs, Request(q) PROVE status'[r] \notin Waiting \cup {"none"}
    <3>1. ASSUME NEW st \in {"pending", "scheduled"}, TriggerAgent(q, st)
          PROVE  status'[r] = status[r]
      BY <3>1 DEF TriggerAgent, Fresh, TypeOK
    <3>2. CASE InvokeAgent(q) \/ RegisterInvocation(q)
      BY <3>2 DEF InvokeAgent, RegisterInvocation, BornRunning, TypeOK
    <3>3. CASE CancelRun(q) \/ DeleteRun(q) \/ FailRun(q) \/ ContinueRun(q)
      BY <3>3 DEF CancelRun, DeleteRun, FailRun, ContinueRun, TypeOK
    <3>4. CASE CompleteRun(q) \/ CompleteInvocation(q)
      BY <3>4 DEF CompleteRun, CompleteInvocation, TypeOK
    <3>5. CASE RecheckRun(q)
      BY <3>5, VerdictFinishes DEF RecheckRun, Finished, TypeOK
    <3> QED BY <2>6, <3>1, <3>2, <3>3, <3>4, <3>5 DEF Request
  <2>7. ASSUME NEW q \in Runs, Environment(q) PROVE status'[r] \notin Waiting \cup {"none"}
    BY <2>7, EnvironmentKeeps
  <2>8. CASE UNCHANGED vars
    BY <2>8 DEF vars
  <2> QED BY <2>1, <2>2, <2>3, <2>4, <2>5, <2>6, <2>7, <2>8 DEF Next
<1> QED BY <1>1, TypeCorrect, PTL DEF Spec, NeverRequeued

\* A finished run is revived only in a session that is still there.
THEOREM RevivalsHaveSessions == Spec => RevivedInItsSession
<1> DEFINE Revived == \A r \in Runs : status[r] \in Finished /\ status'[r] = "running"
                            => pane[r] # "none"
<1>1. TypeOK /\ [Next]_vars => [Revived]_vars
  <2> SUFFICES ASSUME TypeOK, [Next]_vars, NEW r \in Runs,
                      status[r] \in Finished, status'[r] = "running"
               PROVE  pane[r] # "none"
    OBVIOUS
  <2> USE DEF Finished
  <2>1. CASE DispatcherTick \/ CrashInLaunch
    <3>1. PICK due \in DueRuns : \E batch \in Oldest(WithStatus({"pending"}) \cup due, Slots) :
              \E outcome : Launched(batch, due, outcome)
      BY <2>1 DEF DispatcherTick, CrashInLaunch
    <3>2. PICK batch \in Oldest(WithStatus({"pending"}) \cup due, Slots) :
              \E outcome : Launched(batch, due, outcome)
      BY <3>1
    <3>3. r \notin batch
      BY BatchIsWaiting DEF Waiting
    <3> QED BY <3>2, <3>3 DEF Launched
  <2>2. CASE Crash
    BY <2>2 DEF Crash
  <2>3. CASE Start
    BY <2>3, VerdictFinishes DEF Start, Recovered, TypeOK
  <2>4. ASSUME NEW q \in Runs, MonitorVisit(q) PROVE FALSE
    <3>1. q # r
      BY <2>4 DEF MonitorVisit, Watched
    <3> QED BY <2>4, <3>1 DEF MonitorVisit, SeeWorking, Finalize, SeeIdle, SeeAsking,
                              SeeLimitFirst, SeeLimitOver, TypeOK
  <2>5. ASSUME NEW q \in Runs, CleanupFires(q) PROVE FALSE
    BY <2>5 DEF CleanupFires
  <2>6. ASSUME NEW q \in Runs, Request(q) PROVE pane[r] # "none"
    <3>1. ASSUME NEW st \in {"pending", "scheduled"}, TriggerAgent(q, st) PROVE FALSE
      BY <3>1 DEF TriggerAgent, TypeOK
    <3>2. CASE InvokeAgent(q) \/ RegisterInvocation(q)
      BY <3>2 DEF InvokeAgent, RegisterInvocation, BornRunning, Fresh, TypeOK
    <3>3. CASE CancelRun(q) \/ DeleteRun(q) \/ FailRun(q)
      BY <3>3 DEF CancelRun, DeleteRun, FailRun, TypeOK
    <3>4. CASE ContinueRun(q)
      BY <3>4 DEF ContinueRun, TypeOK
    <3>5. CASE CompleteRun(q) \/ CompleteInvocation(q)
      BY <3>5 DEF CompleteRun, CompleteInvocation, TypeOK
    <3>6. CASE RecheckRun(q)
      BY <3>6, VerdictFinishes DEF RecheckRun, TypeOK
    <3> QED BY <2>6, <3>1, <3>2, <3>3, <3>4, <3>5, <3>6 DEF Request
  <2>7. ASSUME NEW q \in Runs, Environment(q) PROVE FALSE
    BY <2>7, EnvironmentKeeps
  <2>8. CASE UNCHANGED vars
    BY <2>8 DEF vars
  <2> QED BY <2>1, <2>2, <2>3, <2>4, <2>5, <2>6, <2>7, <2>8 DEF Next
<1> QED BY <1>1, TypeCorrect, PTL DEF Spec, RevivedInItsSession

\* No restart leaves the monitor a row to watch whose session is gone: the
\* startup recovery gives such a row the verdict of its output, or fails it.
THEOREM RecoveryIsThorough == Spec => RecoveryLeavesNoGhost
<1> DEFINE NoGhost == server = "down" /\ server' = "up"
                        => \A r \in Runs : status'[r] \in Watched => pane[r] # "none"
<1>1. TypeOK /\ [Next]_vars => [NoGhost]_vars
  <2> SUFFICES ASSUME TypeOK, [Next]_vars, server = "down", server' = "up",
                      NEW r \in Runs, status'[r] \in Watched
               PROVE  pane[r] # "none"
    OBVIOUS
  <2>1. CASE Start
    <3>1. Recovered(r) \in Watched
      BY <2>1 DEF Start
    <3>2. Watched \cap Finished = {} /\ "failed" \notin Watched
      BY DEF Watched, Finished
    <3>3. CASE pane[r] = "none" /\ output[r] # "none"
      <4>1. status[r] \in {"pending", "running"} => Recovered(r) \in Finished
        BY <3>3, VerdictFinishes DEF Recovered
      <4> QED BY <3>1, <3>2, <3>3, <4>1 DEF Recovered
    <3>4. CASE pane[r] = "none" /\ output[r] = "none"
      BY <3>1, <3>2, <3>4 DEF Recovered
    <3> QED BY <3>3, <3>4
  <2>2. ASSUME NEW q \in Runs, Environment(q) PROVE FALSE
    BY <2>2, EnvironmentKeeps
  <2>3. CASE UNCHANGED vars
    BY <2>3 DEF vars
  <2>4. ~ (DispatcherTick \/ CrashInLaunch \/ Crash)
    BY DEF DispatcherTick, CrashInLaunch, Crash, CrashServer
  <2>5. ASSUME NEW q \in Runs, MonitorVisit(q) \/ CleanupFires(q) PROVE FALSE
    BY <2>5 DEF MonitorVisit, CleanupFires
  <2>6. ASSUME NEW q \in Runs, Request(q) PROVE FALSE
    BY <2>6 DEF Request, TriggerAgent, InvokeAgent, RegisterInvocation, BornRunning, CancelRun,
                DeleteRun, FailRun, ContinueRun, CompleteRun, CompleteInvocation, RecheckRun
  <2> QED BY <2>1, <2>2, <2>3, <2>4, <2>5, <2>6 DEF Next
<1> QED BY <1>1, TypeCorrect, PTL DEF Spec, RecoveryLeavesNoGhost

-------------------------------------------------------------------------------
(* The monitor and the sessions.                                           *)

\* What accounts for the sessions when nothing is deleted, failed, rechecked or
\* lost.  SessionAccounted alone is not inductive: the hook that ends an
\* invocation finishes its row without a clean-up, which is harmless only
\* because such a row never had a session.
Housekept ==
    /\ server = "up"
    /\ SessionAccounted
    /\ \A r \in Runs : origin[r] = "hook"
          => pane[r] = "none" /\ status[r] \notin Waiting \cup {"none"}

\* Every session belongs to a row that is watched, or that waits for a human, or
\* will be closed, as long as the operations that break this are left out.
THEOREM SessionsAreAccounted ==
  ASSUME Enabled \cap {"delete", "fail", "recheck", "leak", "crash"} = {}
  PROVE  Spec => []SessionAccounted
<1>1. Init => Housekept
  BY DEF Init, Housekept, SessionAccounted
<1>2. TypeOK /\ Housekept /\ [Next]_vars => Housekept'
  <2> SUFFICES ASSUME TypeOK, Housekept, [Next]_vars PROVE Housekept'
    OBVIOUS
  <2> USE DEF Housekept, SessionAccounted, Watched
  <2>1. CASE DispatcherTick
    <3>1. PICK due \in DueRuns : \E batch \in Oldest(WithStatus({"pending"}) \cup due, Slots) :
            \E outcome \in [batch -> LaunchEnds] :
               /\ Launched(batch, due, outcome)
               /\ pane' = [r \in Runs |->
                     IF r \in batch /\ outcome[r] = "started" THEN "working"
                     ELSE IF r \in batch /\ outcome[r] = "abandoned" THEN "idle"
                     ELSE pane[r]]
      BY <2>1 DEF DispatcherTick
    <3>2. PICK batch \in Oldest(WithStatus({"pending"}) \cup due, Slots) :
            \E outcome \in [batch -> LaunchEnds] :
               /\ Launched(batch, due, outcome)
               /\ pane' = [r \in Runs |->
                     IF r \in batch /\ outcome[r] = "started" THEN "working"
                     ELSE IF r \in batch /\ outcome[r] = "abandoned" THEN "idle"
                     ELSE pane[r]]
      BY <3>1
    <3>3. PICK outcome \in [batch -> LaunchEnds] :
               /\ Launched(batch, due, outcome)
               /\ pane' = [r \in Runs |->
                     IF r \in batch /\ outcome[r] = "started" THEN "working"
                     ELSE IF r \in batch /\ outcome[r] = "abandoned" THEN "idle"
                     ELSE pane[r]]
      BY <3>2
    <3>4. LaunchEnds = {"started", "refused"}
      BY DEF LaunchEnds
    <3>5. UNCHANGED <<origin, cleanup, server>>
      BY <2>1 DEF DispatcherTick, memory
    <3>6. \A r \in batch \cup due : status[r] \in Waiting /\ origin[r] # "hook"
      BY BatchIsWaiting DEF Waiting
    <3>7. ASSUME NEW r \in Runs, pane'[r] # "none"
          PROVE  status'[r] \in Watched \cup {"stuck"} \/ cleanup'[r] > 0
      <4>1. CASE r \in batch
        BY <3>3, <3>4, <3>5, <3>6, <3>7, <4>1 DEF Launched, Waiting
      <4>2. CASE r \in due \ batch
        BY <3>3, <3>5, <3>6, <3>7, <4>2 DEF Waiting
      <4>3. CASE r \notin batch \cup due
        BY <3>3, <3>5, <3>7, <4>3 DEF Launched
      <4> QED BY <4>1, <4>2, <4>3
    <3>8. ASSUME NEW r \in Runs, origin'[r] = "hook"
          PROVE  pane'[r] = "none" /\ status'[r] \notin Waiting \cup {"none"}
      BY <3>3, <3>5, <3>6, <3>8 DEF Launched
    <3> QED BY <3>5, <3>7, <3>8
  <2>2. CASE CrashInLaunch \/ Crash
    BY <2>2 DEF CrashInLaunch, Crash, CrashServer
  <2>3. CASE Start
    BY <2>3 DEF Start
  <2>4. ASSUME NEW r \in Runs, MonitorVisit(r) PROVE Housekept'
    <3> USE DEF TypeOK
    <3>1. CASE SeeWorking(r)
      BY <2>4, <3>1 DEF MonitorVisit, SeeWorking
    <3>2. CASE output[r] # "none" /\ Finalize(r)
      BY <2>4, <3>2, VerdictFinishes DEF MonitorVisit, Finalize, Finished, Waiting
    <3>3. CASE SeeIdle(r)
      BY <2>4, <3>3 DEF MonitorVisit, SeeIdle, Waiting
    <3>4. CASE SeeAsking(r)
      BY <2>4, <3>4 DEF MonitorVisit, SeeAsking, Waiting
    <3>5. CASE SeeLimitFirst(r)
      BY <2>4, <3>5 DEF MonitorVisit, SeeLimitFirst, Waiting
    <3>6. CASE SeeLimitOver(r)
      <4>1. pane[r] # "none"
        BY <2>4, <3>6 DEF MonitorVisit, SeeLimitOver, DetectState, PaneContent, ClaudePanes
      <4> QED BY <2>4, <3>6, <4>1 DEF MonitorVisit, SeeLimitOver, Waiting
    <3> QED BY <2>4, <3>1, <3>2, <3>3, <3>4, <3>5, <3>6 DEF MonitorVisit
  <2>5. ASSUME NEW r \in Runs, CleanupFires(r) PROVE Housekept'
    BY <2>5 DEF CleanupFires, TypeOK
  <2>6. ASSUME NEW r \in Runs, Request(r) PROVE Housekept'
    <3> USE DEF TypeOK
    <3>1. ASSUME NEW st \in {"pending", "scheduled"}, TriggerAgent(r, st) PROVE Housekept'
      BY <3>1 DEF TriggerAgent, Fresh, memory
    <3>2. CASE InvokeAgent(r)
      BY <3>2 DEF InvokeAgent, BornRunning, Fresh, memory, Waiting
    <3>3. CASE RegisterInvocation(r)
      BY <3>3 DEF RegisterInvocation, BornRunning, Fresh, memory, Waiting
    <3>4. CASE CancelRun(r)
      BY <3>4 DEF CancelRun, Waiting
    <3>5. CASE DeleteRun(r) \/ FailRun(r) \/ RecheckRun(r)
      BY <3>5 DEF DeleteRun, FailRun, RecheckRun
    <3>6. CASE ContinueRun(r)
      BY <3>6 DEF ContinueRun, memory, Waiting
    <3>7. CASE CompleteRun(r)
      BY <3>7 DEF CompleteRun, Waiting
    <3>8. CASE CompleteInvocation(r)
      BY <3>8 DEF CompleteInvocation, memory, Waiting
    <3> QED BY <2>6, <3>1, <3>2, <3>3, <3>4, <3>5, <3>6, <3>7, <3>8 DEF Request
  <2>7. ASSUME NEW r \in Runs, Environment(r) PROVE Housekept'
    BY <2>7, EnvironmentKeeps
  <2>8. CASE UNCHANGED vars
    BY <2>8 DEF vars, memory
  <2> QED BY <2>1, <2>2, <2>3, <2>4, <2>5, <2>6, <2>7, <2>8 DEF Next
<1>3. Housekept => SessionAccounted
  BY DEF Housekept
<1> QED BY <1>1, <1>2, <1>3, TypeCorrect, PTL DEF Spec

\* Until the first crash a rate-limited run always has a cooldown pending.
THEOREM RateLimitsEnd == Spec => []RateLimitedHasTimer
<1>1. Init => RateLimitedHasTimer
  BY DEF Init, RateLimitedHasTimer
<1>2. TypeOK /\ RateLimitedHasTimer /\ [Next]_vars => RateLimitedHasTimer'
  <2> SUFFICES ASSUME TypeOK, RateLimitedHasTimer, [Next]_vars, crashes' = 0,
                      NEW r \in Runs, status'[r] = "rate_limited"
               PROVE  cooldown'[r] # "none"
    BY DEF RateLimitedHasTimer
  <2> USE DEF TypeOK, RateLimitedHasTimer, memory
  <2>1. CASE DispatcherTick
    BY <2>1 DEF DispatcherTick, Launched
  <2>2. CASE CrashInLaunch \/ Crash
    BY <2>2, AgentRunsAssumption DEF CrashInLaunch, Crash, CrashServer
  <2>3. CASE Start
    BY <2>3, VerdictFinishes DEF Start, Recovered, Finished
  <2>4. ASSUME NEW q \in Runs, MonitorVisit(q) PROVE cooldown'[r] # "none"
    <3>1. CASE output[q] # "none" /\ Finalize(q)
      BY <2>4, <3>1, VerdictFinishes DEF MonitorVisit, Finalize, Finished
    <3>2. CASE SeeWorking(q) \/ SeeIdle(q) \/ SeeAsking(q)
      BY <2>4, <3>2 DEF MonitorVisit, SeeWorking, SeeIdle, SeeAsking
    <3>3. CASE SeeLimitFirst(q) \/ SeeLimitOver(q)
      BY <2>4, <3>3 DEF MonitorVisit, SeeLimitFirst, SeeLimitOver
    <3> QED BY <2>4, <3>1, <3>2, <3>3 DEF MonitorVisit
  <2>5. ASSUME NEW q \in Runs, CleanupFires(q) PROVE cooldown'[r] # "none"
    BY <2>5 DEF CleanupFires
  <2>6. ASSUME NEW q \in Runs, Request(q) PROVE cooldown'[r] # "none"
    <3>1. ASSUME NEW st \in {"pending", "scheduled"}, TriggerAgent(q, st)
          PROVE  cooldown'[r] # "none"
      BY <3>1 DEF TriggerAgent
    <3>2. CASE InvokeAgent(q) \/ RegisterInvocation(q)
      BY <3>2 DEF InvokeAgent, RegisterInvocation, BornRunning
    <3>3. CASE CancelRun(q) \/ FailRun(q)
      BY <3>3 DEF CancelRun, FailRun
    <3>4. CASE DeleteRun(q) \/ ContinueRun(q)
      BY <3>4 DEF DeleteRun, ContinueRun
    <3>5. CASE CompleteRun(q) \/ CompleteInvocation(q)
      BY <3>5 DEF CompleteRun, CompleteInvocation
    <3>6. CASE RecheckRun(q)
      BY <3>6, VerdictFinishes DEF RecheckRun, Finished
    <3> QED BY <2>6, <3>1, <3>2, <3>3, <3>4, <3>5, <3>6 DEF Request
  <2>7. ASSUME NEW q \in Runs, Environment(q) PROVE cooldown'[r] # "none"
    BY <2>7, EnvironmentKeeps
  <2>8. CASE UNCHANGED vars
    BY <2>8 DEF vars
  <2> QED BY <2>1, <2>2, <2>3, <2>4, <2>5, <2>6, <2>7, <2>8 DEF Next
<1> QED BY <1>1, <1>2, TypeCorrect, PTL DEF Spec

\* A dispatched run succeeds only with an output file, through any number of
\* crashes, recoveries, continues and rechecks.
THEOREM SuccessIsWritten == Spec => []SuccessHasOutput
<1>1. Init => SuccessHasOutput
  BY DEF Init, SuccessHasOutput
<1>2. TypeOK /\ SuccessHasOutput /\ [Next]_vars => SuccessHasOutput'
  <2> SUFFICES ASSUME TypeOK, SuccessHasOutput, [Next]_vars, "complete" \notin Enabled,
                      NEW r \in Runs, origin'[r] = "queue",
                      status'[r] \in {"completed", "partial"}
               PROVE  output'[r] # "none"
    BY DEF SuccessHasOutput
  <2> USE DEF TypeOK, SuccessHasOutput, memory
  <2>1. CASE DispatcherTick
    BY <2>1 DEF DispatcherTick, Launched
  <2>2. CASE CrashInLaunch \/ Crash
    <3>1. CASE CrashInLaunch
      <4>1. UNCHANGED <<origin, output>>
        BY <3>1 DEF CrashInLaunch
      <4>2. \E due, batch, outcome : Launched(batch, due, outcome)
        BY <3>1 DEF CrashInLaunch
      <4> QED BY <4>1, <4>2 DEF Launched
    <3>2. CASE Crash
      BY <3>2 DEF Crash
    <3> QED BY <2>2, <3>1, <3>2
  <2>3. CASE Start
    <3>1. Recovered(r) = status[r] \/ Recovered(r) = "failed" \/ output[r] # "none"
      BY DEF Recovered
    <3> QED BY <2>3, <3>1 DEF Start
  <2>4. ASSUME NEW q \in Runs, MonitorVisit(q) PROVE output'[r] # "none"
    <3>1. CASE output[q] # "none" /\ Finalize(q)
      BY <2>4, <3>1 DEF MonitorVisit, Finalize
    <3>2. CASE SeeWorking(q) \/ SeeIdle(q) \/ SeeAsking(q)
      BY <2>4, <3>2 DEF MonitorVisit, SeeWorking, SeeIdle, SeeAsking
    <3>3. CASE SeeLimitFirst(q) \/ SeeLimitOver(q)
      BY <2>4, <3>3 DEF MonitorVisit, SeeLimitFirst, SeeLimitOver
    <3> QED BY <2>4, <3>1, <3>2, <3>3 DEF MonitorVisit
  <2>5. ASSUME NEW q \in Runs, CleanupFires(q) PROVE output'[r] # "none"
    BY <2>5 DEF CleanupFires
  <2>6. ASSUME NEW q \in Runs, Request(q) PROVE output'[r] # "none"
    <3>1. ASSUME NEW st \in {"pending", "scheduled"}, TriggerAgent(q, st)
          PROVE  output'[r] # "none"
      BY <3>1 DEF TriggerAgent
    <3>2. CASE InvokeAgent(q) \/ RegisterInvocation(q)
      BY <3>2 DEF InvokeAgent, RegisterInvocation, BornRunning
    <3>3. CASE CancelRun(q) \/ FailRun(q) \/ DeleteRun(q) \/ ContinueRun(q)
      BY <3>3 DEF CancelRun, FailRun, DeleteRun, ContinueRun
    <3>4. CASE CompleteRun(q)
      BY <3>4 DEF CompleteRun
    <3>5. CASE CompleteInvocation(q)
      BY <3>5 DEF CompleteInvocation
    <3>6. CASE RecheckRun(q)
      BY <3>6 DEF RecheckRun
    <3> QED BY <2>6, <3>1, <3>2, <3>3, <3>4, <3>5, <3>6 DEF Request
  <2>7. ASSUME NEW q \in Runs, Environment(q) PROVE output'[r] # "none"
    BY <2>7, EnvironmentKeeps
  <2>8. CASE UNCHANGED vars
    BY <2>8 DEF vars
  <2> QED BY <2>1, <2>2, <2>3, <2>4, <2>5, <2>6, <2>7, <2>8 DEF Next
<1> QED BY <1>1, <1>2, TypeCorrect, PTL DEF Spec

===============================================================================
