------------------------------ MODULE SetupProofs ------------------------------
(* Proofs about Setup and Database, for every number of servers, runs, kills,  *)
(* edits and backups kept.                                                     *)
EXTENDS Setup, FiniteSetTheorems, WellFoundedInduction, TLAPS

-------------------------------------------------------------------------------
(* Type correctness.                                                       *)

Items == Nat \cup {NoSuch, Cast, Stale}
Folders == [card : Items, body : Items]
Configs == [broken : BOOLEAN, port : {"none", "default", "user"}, terminal : {"none", "", "seed", "user"},
            legacy : {"none", "user"}, extra : BOOLEAN]
Entries == SUBSET {"ours", "mixed", "foreign"}

SetupTypeOK ==
    /\ scenario \in Scenarios
    /\ used \in [edits : Nat, runs : Nat, kills : Nat, starts : Nat, hooks : Nat]
    /\ home \in [Places -> Folders]
    /\ mine \in [Places -> [Slots -> [is : Nat, since : Nat]]]
    /\ DOMAIN baks \subseteq 1 .. used.runs
    /\ \A t \in DOMAIN baks : baks[t] \in [Places -> Folders]
    /\ cfg \in Configs /\ asked \in [port : BOOLEAN, terminal : BOOLEAN]
    /\ settings \in [broken : BOOLEAN, entries : Entries, foreign : BOOLEAN]
    /\ hook \in [at : {"off", "install", "uninstall"}, read : Entries]
    /\ run \in [pc : 0 .. 20, stamp : Nat, mode : {"full", "silent", "upgrade", "dry"}, launched : BOOLEAN]
    /\ run.pc # 0 => run.stamp = used.runs /\ used.runs > 0

\* The steps of the script, by number.
LEMMA ScriptSteps ==
  /\ Finished = 20 /\ Len(Script) = 19
  /\ \A i \in 1 .. 19 :
        /\ Script[i].do = "doctor" => i = 1
        /\ Script[i].do = "stash" => (i = 2 /\ Script[i].on = "generated") \/ (i = 4 /\ Script[i].on = "skill")
        /\ Script[i].do = "write" => (i = 3 /\ Script[i].on = "generated") \/ (i = 5 /\ Script[i].on = "skill")
        /\ Script[i].do = "aside" => \/ i = 6 /\ Script[i].on = "agent"
                                     \/ i = 8 /\ Script[i].on = "skill"
                                     \/ i = 10 /\ Script[i].on = "shim"
        /\ Script[i].do = "copy" => (i = 7 /\ Script[i].on = "agent") \/ (i = 9 /\ Script[i].on = "skill")
        /\ Script[i].do = "clear" => i = 11 /\ Script[i].on = "root"
        /\ Script[i].do = "link" => i = 12
        /\ Script[i].do = "alembic" => i = 13
        /\ Script[i].do = "merge" => i = 14
        /\ Script[i].do = "prompt" => i = 15
        /\ Script[i].do = "prune" => i = 16
        /\ Script[i].do = "launch" => i = 17
        /\ Script[i].do = "poll" => i = 18
        /\ Script[i].do = "terminal" => i = 19
BY DEF Script, Finished

-------------------------------------------------------------------------------
(* The inductive invariant.                                                *)

\* What a process at each of its stages may rely on: tables are there once it has
\* passed their creation, alembic's stamp means the tables are there.
Staged ==
    /\ DbTypeOK
    /\ db.stamped => db.tables = Tables
    /\ \A p \in Processes :
          /\ at[p] \in {"columns", "seed", "look", "stamp", "insert", "ready", "serving"} => db.tables = Tables
          /\ at[p] \in {"ready", "serving"} => db.stamped
    /\ \A s \in Servers :
          /\ at[s] \in {"seed", "look", "stamp", "insert", "ready", "serving"} => db.columns
          /\ at[s] \in {"look", "stamp", "insert", "ready", "serving"} => db.seeded
          /\ at[s] \notin {"upgrade", "first", "rest"}
    /\ at[Cli] \in {"off", "upgrade", "first", "rest", "insert", "ready", "dead"}

\* What a run that has come as far as step n has put in place.
Past(n) == run.mode # "dry" /\ run.pc >= n
Built ==
    /\ Past(4) => home["generated"].card = Cast
    /\ Past(8) => home["agent"] = Ours
    /\ Past(10) => home["skill"] = Ours
    /\ Past(11) => home["shim"] = Empty
    /\ Past(13) => home["root"].body = Cast
    /\ Past(14) => db.tables = Tables /\ db.stamped
    /\ Past(15) => ~cfg.broken /\ cfg.port # "none" /\ cfg.legacy = "none"
    /\ Past(17) => Cardinality(DOMAIN baks) <= Keep

\* What is about to be written holds nothing of people's.
AtStep(n) == run.mode # "dry" /\ run.pc = n
Cleared ==
    /\ AtStep(3) => home["generated"].card = NoSuch
    /\ AtStep(5) => home["skill"].card = NoSuch
    /\ AtStep(7) => home["agent"].card \in {NoSuch, Cast} /\ home["agent"].body \in {NoSuch, Cast}
    /\ AtStep(9) => home["skill"].card \in {NoSuch, Cast} /\ home["skill"].body \in {NoSuch, Cast}
    /\ AtStep(12) => home["root"] = Empty

\* The step that moves a place aside; generated skills are never moved as a whole.
AsideAt == [p \in Places |->
    CASE p = "agent" -> 6 [] p = "skill" -> 8 [] p = "shim" -> 10 [] p = "root" -> 11 [] p = "generated" -> 20]

\* The backup of this run holds nothing of a place it has yet to move.
Fresh ==
    run.pc # 0 /\ run.stamp \in DOMAIN baks =>
        \A p \in Places : run.pc <= AsideAt[p] => baks[run.stamp][p] = Empty

\* Where what people last wrote is: a backup that holds it was made by a later run.
Held(p, s) ==
    \/ home[p][s] = mine[p][s].is
    \/ <<p, mine[p][s].is>> \in cards
    \/ \E t \in DOMAIN baks : t > mine[p][s].since /\ baks[t][p][s] = mine[p][s].is

Recent(p, s) == mine[p][s].is # 0 /\ used.runs <= mine[p][s].since + Keep

WorkHeld ==
    /\ \A p \in Places, s \in Slots :
          /\ mine[p][s].since <= used.runs
          /\ run.pc # 0 => mine[p][s].since < used.runs
          /\ Recent(p, s) => Held(p, s)
    /\ mine["root"]["card"].is = 0

\* A terminal under the old key counts only while there is none under the new one.
Asked ==
    /\ asked.port => cfg.port = "user"
    /\ asked.terminal => "user" \in {cfg.terminal, cfg.legacy}
    /\ cfg.legacy # "none" => cfg.terminal \in {"none", "user"}

\* What cast-hook is about to write back holds the hook, too.
Foreign ==
    settings.foreign =>
        /\ "foreign" \in settings.entries
        /\ hook.at # "off" => "foreign" \in hook.read

Inv == SetupTypeOK /\ Staged /\ Built /\ Cleared /\ Fresh /\ WorkHeld /\ Asked /\ Foreign

-------------------------------------------------------------------------------
(* The database.                                                           *)

LEMMA DbSubset == ASSUME DbTypeOK PROVE db.tables \subseteq Tables /\ Tables = {"first", "rest"}
BY DEF DbTypeOK, Tables

\* The database only grows, and every process gets to know it.
LEMMA StagedDbSteps ==
  ASSUME Staged, DbSteps
  PROVE  /\ Staged'
         /\ db.tables = Tables => db'.tables = Tables
         /\ db.stamped => db'.stamped
<1> USE DatabaseAssumption DEF Staged, DbTypeOK, Processes, Go
<1>1. CASE \E s \in Servers : InitDb(s)
  <2> PICK s \in Servers : InitDb(s)
    BY <1>1
  <2>1. CASE CreateFirst(s)
    BY <2>1, DbSubset DEF CreateFirst, Tables
  <2>2. CASE CreateRest(s)
    BY <2>2 DEF CreateRest
  <2>3. CASE RunMigrations(s)
    BY <2>3 DEF RunMigrations
  <2>4. CASE SeedSystemGoals(s)
    BY <2>4 DEF SeedSystemGoals
  <2> QED BY <2>1, <2>2, <2>3, <2>4 DEF InitDb
<1>2. CASE \E s \in Servers : EnsureDbAtHead(s)
  BY <1>2 DEF EnsureDbAtHead, Branch, Tables
<1>3. CASE \E p \in Processes : Alembic(p)
  <2> PICK p \in Processes : Alembic(p)
    BY <1>3
  <2>1. CASE Stamp(p)
    BY <2>1 DEF Stamp
  <2>2. CASE Upgrade(p)
    BY <2>2 DEF Upgrade
  <2>3. CASE Baseline(p)
    BY <2>3, DbSubset DEF Baseline, Tables
  <2>4. CASE InsertVersion(p)
    <3>1. CASE db.stamped
      BY <2>4, <3>1 DEF InsertVersion
    <3>2. CASE ~db.stamped
      <4>1. db' = [db EXCEPT !.stamped = TRUE] /\ at' = [at EXCEPT ![p] = "ready"] /\ at[p] = "insert"
        BY <2>4, <3>2 DEF InsertVersion
      <4>2. db'.stamped /\ db'.tables = db.tables /\ db'.columns = db.columns /\ db'.seeded = db.seeded
        BY <4>1
      <4>3. DbTypeOK'
        BY <4>1
      <4>4. \A q \in Processes : at'[q] = (IF q = p THEN "ready" ELSE at[q])
        BY <4>1
      <4> HIDE DEF DbTypeOK
      <4> QED BY <4>1, <4>2, <4>3, <4>4
    <3> QED BY <3>1, <3>2
  <2> QED BY <2>1, <2>2, <2>3, <2>4 DEF Alembic
<1> QED BY <1>1, <1>2, <1>3 DEF DbSteps

LEMMA StagedStep == ASSUME SetupTypeOK, Staged, [Next]_vars PROVE Staged'
<1> USE DatabaseAssumption
<1>1. CASE UNCHANGED dbVars
  BY <1>1 DEF Staged, DbTypeOK, dbVars
<1>2. CASE DatabaseStep
  BY <1>2, StagedDbSteps DEF DatabaseStep
<1>3. CASE RunAlembic
  BY <1>3 DEF RunAlembic, Staged, DbTypeOK, Processes, Go
<1>4. CASE Launch
  <2>1. CASE UNCHANGED at
    BY <1>4, <2>1 DEF Launch, Staged, DbTypeOK
  <2>2. CASE \E s \in Servers : at[s] = "off" /\ Go(s, "init")
    BY <1>4, <2>2 DEF Launch, Staged, DbTypeOK, Processes, Go
  <2> QED BY <1>4, <2>1, <2>2 DEF Launch
<1>5. CASE Stop
  BY <1>5 DEF Stop, Staged, DbTypeOK, Processes, Go
<1>6. CASE \E s \in Servers : StartServer(s)
  BY <1>6 DEF StartServer, Staged, DbTypeOK, Processes, Go
<1>7. CASE \E s \in Servers : Bind(s)
  BY <1>7 DEF Bind, Staged, DbTypeOK, Processes, Go
<1>8. CASE \E s \in Servers : ServerEnds(s)
  BY <1>8 DEF ServerEnds, Staged, DbTypeOK, Processes, Go
<1> QED
  BY <1>1, <1>2, <1>3, <1>4, <1>5, <1>6, <1>7, <1>8
  DEF Next, Installer, vars, dbVars, Doctor, Stash, WriteCard, Aside, Copy, ClearRoot, LinkRoot, MergeConfig,
      TerminalPrompt, Prune, Poll, WireTerminal, DryStep, Finish, HookSave, HookLoad, StartRun, UserWrites,
      UserConfigures, UserFixesTerminal, UserHooks

-------------------------------------------------------------------------------
(* The configuration and the hooks.                                        *)

LEMMA AskedStep == ASSUME SetupTypeOK, Asked, [Next]_vars PROVE Asked'
<1> USE DEF Configs
<1>1. CASE UNCHANGED config
  BY <1>1 DEF Asked, config
<1>2. CASE MergeConfig
  <2>1. CASE UNCHANGED <<cfg, asked>>
    BY <2>1 DEF Asked
  <2>2. CASE UNCHANGED asked /\ \E seed \in {"", "seed"} : cfg' = Merged(seed)
    <3> PICK seed \in {"", "seed"} : cfg' = Merged(seed)
      BY <2>2
    <3>1. cfg'.port = (IF cfg.port = "none" THEN "default" ELSE cfg.port) /\ cfg'.legacy = "none"
      BY DEF Merged, NoConfig
    <3>2. "user" \in {cfg.terminal, cfg.legacy} /\ (cfg.legacy # "none" => cfg.terminal \in {"none", "user"})
              => cfg'.terminal = "user"
      BY DEF Merged, NoConfig, SetupTypeOK
    <3> QED BY <2>2, <3>1, <3>2 DEF Asked
  <2> QED BY <1>2, <2>1, <2>2 DEF MergeConfig
<1>3. CASE TerminalPrompt
  BY <1>3 DEF TerminalPrompt, Chosen, config, Asked, SetupTypeOK
<1>4. ASSUME FixTerminal PROVE Asked'
  <2>1. CASE UNCHANGED config
    BY <2>1 DEF config, Asked
  <2>2. CASE asked' = [port |-> asked.port /\ ~cfg.broken, terminal |-> TRUE]
           /\ cfg' = IF cfg.broken THEN [NoConfig EXCEPT !.terminal = "user"] ELSE [cfg EXCEPT !.terminal = "user"]
    <3>1. asked'.port = (asked.port /\ ~cfg.broken)
      BY <2>2
    <3>2. cfg'.terminal = "user" /\ (~cfg.broken => cfg'.port = cfg.port)
      BY <2>2 DEF NoConfig, SetupTypeOK
    <3> QED BY <3>1, <3>2 DEF Asked
  <2> QED BY <1>4, <2>1, <2>2 DEF FixTerminal
<1>5. CASE Stop
  <2>1. CASE UNCHANGED config
    BY <2>1 DEF config, Asked
  <2>2. CASE cfg' = NoConfig /\ asked' = [port |-> FALSE, terminal |-> FALSE]
    BY <2>2 DEF NoConfig, Asked
  <2> QED BY <1>5, <2>1, <2>2 DEF Stop
<1>6. CASE UserConfigures
  <2>1. CASE cfg' = [cfg EXCEPT !.port = "user"] /\ asked' = [asked EXCEPT !.port = TRUE]
    BY <2>1 DEF Asked, SetupTypeOK
  <2>2. CASE cfg' = [cfg EXCEPT !.terminal = "user"] /\ asked' = [asked EXCEPT !.terminal = TRUE]
    BY <2>2 DEF Asked, SetupTypeOK
  <2>3. CASE cfg.terminal = "none" /\ cfg' = [cfg EXCEPT !.legacy = "user"] /\ asked' = [asked EXCEPT !.terminal = TRUE]
    BY <2>3 DEF Asked, SetupTypeOK
  <2>4. CASE cfg' = [cfg EXCEPT !.extra = TRUE] /\ UNCHANGED asked
    BY <2>4 DEF Asked, SetupTypeOK
  <2>5. CASE cfg' = [cfg EXCEPT !.broken = ~@] /\ UNCHANGED asked
    BY <2>5 DEF Asked, SetupTypeOK
  <2> QED BY <1>6, <2>1, <2>2, <2>3, <2>4, <2>5 DEF UserConfigures
<1> QED
  BY <1>1, <1>2, <1>3, <1>4, <1>5, <1>6
  DEF Next, Installer, vars, config, Doctor, Stash, WriteCard, Aside, Copy, ClearRoot, LinkRoot, RunAlembic,
      Prune, Launch, Poll, WireTerminal, DryStep, Finish, HookSave, HookLoad, StartRun, UserWrites,
      UserFixesTerminal, UserHooks, StartServer, Bind, ServerEnds, DatabaseStep

LEMMA ForeignStep == ASSUME SetupTypeOK, Foreign, [Next]_vars PROVE Foreign'
<1>1. CASE UNCHANGED hooks
  BY <1>1 DEF Foreign, hooks
<1>2. CASE \E kind \in {"install", "uninstall"} : HookLoad(kind)
  BY <1>2 DEF HookLoad, Foreign
<1>3. CASE HookSave
  <2>1. hook'.at = "off"
    BY <1>3 DEF HookSave
  <2>2. CASE UNCHANGED settings
    BY <2>1, <2>2 DEF Foreign
  <2>3. CASE settings' = [settings EXCEPT !.broken = FALSE,
               !.entries = IF hook.at = "install" THEN Installed(hook.read) ELSE Uninstalled(hook.read)]
    <3>1. settings'.foreign = settings.foreign /\ settings'.entries \in {Installed(hook.read), Uninstalled(hook.read)}
      BY <2>3 DEF SetupTypeOK
    <3>2. "foreign" \in hook.read => "foreign" \in settings'.entries
      BY <3>1 DEF Installed, Uninstalled, IsOurs
    <3> QED BY <1>3, <2>1, <3>1, <3>2 DEF HookSave, Foreign
  <2> QED BY <1>3, <2>2, <2>3 DEF HookSave
<1>4. CASE UserHooks
  <2>1. CASE settings' = [settings EXCEPT !.entries = @ \cup {"foreign"}, !.foreign = hook.at = "off"]
    <3>1. settings'.entries = settings.entries \cup {"foreign"} /\ settings'.foreign = (hook.at = "off")
      BY <2>1 DEF SetupTypeOK
    <3> QED BY <1>4, <3>1 DEF UserHooks, Foreign
  <2>2. CASE settings' = [settings EXCEPT !.entries = @ \cup {"mixed"}]
    <3>1. settings'.entries = settings.entries \cup {"mixed"} /\ settings'.foreign = settings.foreign
      BY <2>2 DEF SetupTypeOK
    <3> QED BY <1>4, <3>1 DEF UserHooks, Foreign
  <2>3. CASE settings' = [settings EXCEPT !.broken = ~@]
    <3>1. settings'.entries = settings.entries /\ settings'.foreign = settings.foreign
      BY <2>3 DEF SetupTypeOK
    <3> QED BY <1>4, <3>1 DEF UserHooks, Foreign
  <2> QED BY <1>4, <2>1, <2>2, <2>3 DEF UserHooks
<1> QED
  BY <1>1, <1>2, <1>3, <1>4
  DEF Next, Installer, vars, hooks, Doctor, Stash, WriteCard, Aside, Copy, ClearRoot, LinkRoot, RunAlembic,
      MergeConfig, TerminalPrompt, Prune, Launch, Poll, WireTerminal, DryStep, Finish, Stop, StartRun, UserWrites,
      UserConfigures, UserFixesTerminal, StartServer, Bind, ServerEnds, DatabaseStep

-------------------------------------------------------------------------------
(* Type correctness is inductive.                                          *)

\* The step a run is at, when it is at one of a kind.
LEMMA AtRange == ASSUME SetupTypeOK, NEW do, At(do)
                 PROVE /\ run.pc \in 1 .. 19 /\ run.mode # "dry" /\ Script[run.pc].do = do
                       /\ run.stamp = used.runs /\ used.runs \in Nat \ {0}
BY ScriptSteps DEF At, SetupTypeOK

\* A run only advances, gives way to the end, or is over.
LEMMA RunTypes ==
  ASSUME SetupTypeOK, run.pc \in 1 .. 19 \/ run.pc = 20,
         \/ run' = run
         \/ run.pc \in 1 .. 19 /\ Proceed
         \/ Over
         \/ run.pc \in 1 .. 19 /\ run' = [run EXCEPT !.pc = Finished]
         \/ run.pc \in 1 .. 19 /\ \E n \in {run.pc + 1, Finished} : run' = [run EXCEPT !.pc = n, !.launched = TRUE]
  PROVE  /\ run' \in [pc : 0 .. 20, stamp : Nat, mode : {"full", "silent", "upgrade", "dry"}, launched : BOOLEAN]
         /\ run'.pc # 0 => run'.stamp = used.runs /\ used.runs > 0
<1>0. /\ run \in [pc : 0 .. 20, stamp : Nat, mode : {"full", "silent", "upgrade", "dry"}, launched : BOOLEAN]
      /\ run.pc # 0 => run.stamp = used.runs /\ used.runs > 0
      /\ Finished = 20
  BY ScriptSteps DEF SetupTypeOK
<1> USE <1>0
<1>1. CASE run' = run
  BY <1>1
<1>2. CASE run.pc \in 1 .. 19 /\ Proceed
  <2>1. run' = [pc |-> run.pc + 1, stamp |-> run.stamp, mode |-> run.mode, launched |-> run.launched]
    BY <1>2 DEF Proceed
  <2> QED BY <1>2, <2>1
<1>3. CASE Over
  BY <1>3 DEF Over, Idle
<1>4. CASE run.pc \in 1 .. 19 /\ run' = [run EXCEPT !.pc = Finished]
  BY <1>4
<1>5. CASE run.pc \in 1 .. 19 /\ \E n \in {run.pc + 1, Finished} : run' = [run EXCEPT !.pc = n, !.launched = TRUE]
  <2> PICK n \in {run.pc + 1, Finished} : run' = [run EXCEPT !.pc = n, !.launched = TRUE]
    BY <1>5
  <2>1. n \in 1 .. 20 /\ run.pc # 0
    BY <1>5
  <2>2. run' = [pc |-> n, stamp |-> run.stamp, mode |-> run.mode, launched |-> TRUE]
    OBVIOUS
  <2>3. run.stamp = used.runs /\ used.runs > 0 /\ run.stamp \in Nat
    BY <2>1
  <2>4. run'.stamp = used.runs
    BY <2>2, <2>3
  <2>5. run' \in [pc : 0 .. 20, stamp : Nat, mode : {"full", "silent", "upgrade", "dry"}, launched : BOOLEAN]
    <3>1. n \in 0 .. 20 /\ run.mode \in {"full", "silent", "upgrade", "dry"} /\ TRUE \in BOOLEAN
      BY <2>1
    <3> HIDE <1>0
    <3> QED BY <2>2, <2>3, <3>1, Zenon
  <2> QED BY <2>3, <2>4, <2>5
<1> QED BY <1>1, <1>2, <1>3, <1>4, <1>5

\* A backup is filed under the stamp of the run.
LEMMA BackupTypes ==
  ASSUME SetupTypeOK, run.pc # 0, NEW p \in Places, NEW item \in Folders
  PROVE  /\ DOMAIN WithBackup(p, item) = DOMAIN baks \cup {run.stamp}
         /\ DOMAIN WithBackup(p, item) \subseteq 1 .. used.runs
         /\ \A t \in DOMAIN WithBackup(p, item) : WithBackup(p, item)[t] \in [Places -> Folders]
<1>1. [q \in Places |-> Empty] \in [Places -> Folders]
  BY DEF Empty, Folders, Items
<1>2. BackupDir \in [Places -> Folders]
  BY <1>1 DEF BackupDir, SetupTypeOK
<1>3. [BackupDir EXCEPT ![p] = item] \in [Places -> Folders]
  BY <1>2
<1>4. run.stamp = used.runs /\ used.runs \in Nat \ {0}
  BY DEF SetupTypeOK
<1> QED BY <1>3, <1>4 DEF WithBackup, SetupTypeOK

LEMMA Folding == /\ Empty \in Folders /\ Ours \in Folders /\ Places # {}
                 /\ \A f \in Folders, x \in Items, s \in Slots : [f EXCEPT ![s] = x] \in Folders
                 /\ \A f \in Folders, s \in Slots : f[s] \in Items
BY DEF Empty, Ours, Folders, Items, Places, Slots

\* What the files hold.
FileTypes ==
    /\ home \in [Places -> Folders]
    /\ mine \in [Places -> [Slots -> [is : Nat, since : Nat]]]
    /\ DOMAIN baks \subseteq 1 .. used.runs
    /\ \A t \in DOMAIN baks : baks[t] \in [Places -> Folders]

UsedType == used \in [edits : Nat, runs : Nat, kills : Nat, starts : Nat, hooks : Nat]

\* Counters stay numbers, and only a new run counts as a run.
LEMMA UsedStep ==
  ASSUME SetupTypeOK, [Next]_vars
  PROVE  /\ UsedType'
         /\ used'.runs = used.runs \/ (run.pc = 0 /\ used'.runs = used.runs + 1)
<1> USE DEF UsedType, Count, SetupTypeOK
<1>1. CASE UNCHANGED used
  BY <1>1
<1>2. CASE \E mode \in scenario.modes : StartRun(mode)
  BY <1>2 DEF StartRun
<1>3. CASE Launch
  BY <1>3 DEF Launch
<1>4. CASE Stop
  BY <1>4 DEF Stop
<1>5. CASE \E kind \in {"install", "uninstall"} : HookLoad(kind)
  BY <1>5 DEF HookLoad
<1>6. CASE \E p \in Places, s \in Slots : UserWrites(p, s)
  <2>1. Count("edits")
    BY <1>6 DEF UserWrites
  <2> QED BY <2>1
<1>7. CASE UserConfigures
  BY <1>7 DEF UserConfigures
<1>8. CASE UserHooks
  BY <1>8 DEF UserHooks
<1>9. CASE \E s \in Servers : StartServer(s)
  BY <1>9 DEF StartServer
<1>10. CASE \E s \in Servers : ServerEnds(s)
  BY <1>10 DEF ServerEnds
<1> QED
  BY <1>1, <1>2, <1>3, <1>4, <1>5, <1>6, <1>7, <1>8, <1>9, <1>10
  DEF Next, Installer, vars, Doctor, Stash, WriteCard, Aside, Copy, ClearRoot, LinkRoot, RunAlembic, MergeConfig,
      TerminalPrompt, Prune, Poll, WireTerminal, DryStep, Finish, HookSave, UserFixesTerminal, Bind, DatabaseStep

LEMMA FileTypesStep == ASSUME SetupTypeOK, [Next]_vars PROVE FileTypes'
<1> USE Folding
<1>0. FileTypes
  BY DEF SetupTypeOK, FileTypes
<1>1. CASE UNCHANGED <<home, mine, baks>>
  BY <1>0, <1>1, UsedStep DEF FileTypes, UsedType, SetupTypeOK
<1>2. CASE Stash
  BY <1>0, <1>2, AtRange, ScriptSteps DEF Stash, Here, Slots, FileTypes, Items
<1>3. CASE WriteCard
  BY <1>0, <1>3 DEF WriteCard, Slots, FileTypes, Items
<1>4. CASE Aside
  <2>1. run.pc # 0 /\ Here \in Places /\ home[Here] \in Folders /\ UNCHANGED <<mine, used>> /\ BackupIfExists(Here)
    BY <1>0, <1>4, AtRange, ScriptSteps DEF Aside, Here, Places, Directories, FileTypes
  <2>2. home' \in [Places -> Folders]
    BY <1>0, <2>1 DEF BackupIfExists, FileTypes
  <2> QED BY <1>0, <2>1, <2>2, BackupTypes DEF BackupIfExists, FileTypes
<1>5. CASE Copy
  <2> PICK s \in Slots : home' = [home EXCEPT ![Here][s] = Cast]
    BY <1>5 DEF Copy
  <2>1. Here \in Places
    BY <1>5, AtRange, ScriptSteps DEF Copy, Here, Places, Directories
  <2>2. [home[Here] EXCEPT ![s] = Cast] \in Folders
    BY <1>0, <2>1 DEF FileTypes, Items
  <2>3. home' \in [Places -> Folders]
    BY <1>0, <2>1, <2>2 DEF FileTypes
  <2> QED BY <1>0, <1>5, <2>3 DEF Copy, FileTypes
<1>6. CASE ClearRoot
  <2>1. run.pc # 0 /\ "root" \in Places /\ home["root"] \in Folders /\ UNCHANGED <<mine, used>>
    BY <1>0, <1>6, AtRange DEF ClearRoot, Places, FileTypes
  <2>2. home' \in [Places -> Folders]
    BY <1>0, <1>6, <2>1 DEF ClearRoot, BackupIfExists, FileTypes
  <2>3. baks' = baks \/ baks' = WithBackup("root", home["root"])
    BY <1>6 DEF ClearRoot, BackupIfExists
  <2> QED BY <1>0, <2>1, <2>2, <2>3, BackupTypes DEF FileTypes
<1>7. CASE LinkRoot
  BY <1>0, <1>7 DEF LinkRoot, FileTypes, Slots, Items
<1>8. CASE Prune
  BY <1>0, <1>8 DEF Prune, FileTypes
<1>9. CASE Stop
  <2>1. UNCHANGED <<home, mine>> /\ used'.runs = used.runs
    BY <1>9, UsedStep DEF Stop, SetupTypeOK
  <2>2. CASE UNCHANGED baks
    BY <1>0, <2>1, <2>2 DEF FileTypes
  <2>3. CASE baks' = WithBackup(Here, Empty) /\ (At("aside") \/ At("clear"))
    <3>1. Here \in Places /\ run.pc # 0
      BY <2>3, AtRange, ScriptSteps DEF Here, Places, Directories
    <3> QED BY <1>0, <2>1, <2>3, <3>1, BackupTypes DEF FileTypes
  <2> QED BY <1>9, <2>2, <2>3 DEF Stop
<1>10. CASE \E p \in Places, s \in Slots : UserWrites(p, s)
  <2> PICK p \in Places, s \in Slots : UserWrites(p, s)
    BY <1>10
  <2>1. UNCHANGED baks /\ used'.runs = used.runs /\ used.runs \in Nat /\ used.edits + 1 \in Nat
    BY DEF UserWrites, Count, SetupTypeOK
  <2>2. [home[p] EXCEPT ![s] = used.edits + 1] \in Folders
    BY <1>0, <2>1 DEF FileTypes, Items
  <2>3. home' \in [Places -> Folders]
    BY <1>0, <2>2 DEF UserWrites, FileTypes
  <2>4. mine' \in [Places -> [Slots -> [is : Nat, since : Nat]]]
    BY <1>0, <2>1 DEF UserWrites, FileTypes
  <2> QED BY <1>0, <2>1, <2>3, <2>4 DEF FileTypes
<1> QED
  BY <1>1, <1>2, <1>3, <1>4, <1>5, <1>6, <1>7, <1>8, <1>9, <1>10
  DEF Next, Installer, vars, files, Doctor, RunAlembic, MergeConfig, TerminalPrompt, Launch, Poll, WireTerminal,
      DryStep, Finish, HookSave, HookLoad, StartRun, UserConfigures, UserFixesTerminal, UserHooks, StartServer, Bind,
      ServerEnds, DatabaseStep

ConfigTypes == cfg \in Configs /\ asked \in [port : BOOLEAN, terminal : BOOLEAN]

LEMMA ConfigTypesStep == ASSUME SetupTypeOK, [Next]_vars PROVE ConfigTypes'
<1> DEFINE Askeds == [port : BOOLEAN, terminal : BOOLEAN]
<1>0. cfg \in Configs /\ asked \in Askeds
  BY DEF SetupTypeOK
<1>a. NoConfig \in Configs /\ [port |-> FALSE, terminal |-> FALSE] \in Askeds
  BY DEF NoConfig, Configs
<1>b. \A c \in Configs :
         /\ \A b \in BOOLEAN : [c EXCEPT !.broken = b] \in Configs /\ [c EXCEPT !.extra = b] \in Configs
         /\ \A x \in {"default", "user"} : [c EXCEPT !.port = x] \in Configs
         /\ \A x \in {"none", "", "seed", "user"} : [c EXCEPT !.terminal = x] \in Configs
         /\ \A x \in {"none", "user"} : [c EXCEPT !.legacy = x] \in Configs
  BY DEF Configs
<1>c. /\ [asked EXCEPT !.port = TRUE] \in Askeds /\ [asked EXCEPT !.terminal = TRUE] \in Askeds
      /\ \A b \in BOOLEAN : [port |-> b, terminal |-> TRUE] \in Askeds
  BY <1>0
<1>1. CASE UNCHANGED config
  BY <1>0, <1>1 DEF config, ConfigTypes
<1>2. CASE MergeConfig
  <2>1. \A seed \in {"", "seed"} : Merged(seed) \in Configs
    BY <1>0 DEF Merged, NoConfig, Configs
  <2> QED BY <1>0, <1>2, <2>1 DEF MergeConfig, ConfigTypes
<1>3. CASE TerminalPrompt
  <2>1. Chosen \in Configs
    BY <1>0 DEF Chosen, Configs
  <2> QED BY <1>0, <1>c, <1>3, <2>1 DEF TerminalPrompt, config, ConfigTypes
<1>4. ASSUME FixTerminal PROVE ConfigTypes'
  <2>1. CASE UNCHANGED config
    BY <1>1, <2>1
  <2>2. CASE asked' = [port |-> asked.port /\ ~cfg.broken, terminal |-> TRUE]
           /\ cfg' = IF cfg.broken THEN [NoConfig EXCEPT !.terminal = "user"] ELSE [cfg EXCEPT !.terminal = "user"]
    <3>1. cfg' \in Configs
      BY <1>0, <1>a, <1>b, <2>2
    <3>2. (asked.port /\ ~cfg.broken) \in BOOLEAN
      OBVIOUS
    <3>3. asked' \in Askeds
      BY <1>c, <2>2, <3>2, Zenon
    <3> QED BY <3>1, <3>3 DEF ConfigTypes
  <2> QED BY <1>4, <2>1, <2>2 DEF FixTerminal
<1>5. CASE Stop
  BY <1>0, <1>a, <1>5 DEF Stop, config, ConfigTypes
<1>6. CASE UserConfigures
  <2>1. cfg' \in Configs
    <3>1. (~cfg.broken) \in BOOLEAN /\ cfg.legacy \in {"none", "user"}
      BY <1>0 DEF Configs
    <3> QED BY <1>0, <1>b, <1>6, <3>1 DEF UserConfigures
  <2> QED BY <1>0, <1>c, <1>6, <2>1 DEF UserConfigures, ConfigTypes
<1> QED
  BY <1>1, <1>2, <1>3, <1>4, <1>5, <1>6
  DEF Next, Installer, vars, config, Doctor, Stash, WriteCard, Aside, Copy, ClearRoot, LinkRoot, RunAlembic,
      Prune, Launch, Poll, WireTerminal, DryStep, Finish, HookSave, HookLoad, StartRun, UserWrites,
      UserFixesTerminal, UserHooks, StartServer, Bind, ServerEnds, DatabaseStep

HookTypes ==
    /\ settings \in [broken : BOOLEAN, entries : Entries, foreign : BOOLEAN]
    /\ hook \in [at : {"off", "install", "uninstall"}, read : Entries]

LEMMA HookTypesStep == ASSUME SetupTypeOK, [Next]_vars PROVE HookTypes'
<1>0. HookTypes
  BY DEF SetupTypeOK, HookTypes
<1>1. CASE UNCHANGED hooks
  BY <1>0, <1>1 DEF HookTypes, hooks
<1>2. CASE \E kind \in {"install", "uninstall"} : HookLoad(kind)
  BY <1>0, <1>2 DEF HookLoad, HookTypes
<1>3. CASE HookSave
  <2>1. hook' \in [at : {"off", "install", "uninstall"}, read : Entries]
    BY <1>3 DEF HookSave, Entries
  <2>2. Installed(hook.read) \in Entries /\ Uninstalled(hook.read) \in Entries
    BY <1>0 DEF HookTypes, Installed, Uninstalled, IsOurs, Entries
  <2>3. settings' \in [broken : BOOLEAN, entries : Entries, foreign : BOOLEAN]
    BY <1>0, <1>3, <2>2 DEF HookSave, HookTypes
  <2> QED BY <2>1, <2>3 DEF HookTypes
<1>4. CASE UserHooks
  <2>1. settings.entries \cup {"foreign"} \in Entries /\ settings.entries \cup {"mixed"} \in Entries
    BY <1>0 DEF HookTypes, Entries
  <2>2. (hook.at = "off") \in BOOLEAN /\ (~settings.broken) \in BOOLEAN
    OBVIOUS
  <2>3. settings' \in [broken : BOOLEAN, entries : Entries, foreign : BOOLEAN]
    BY <1>0, <1>4, <2>1, <2>2 DEF UserHooks, HookTypes
  <2> QED BY <1>0, <1>4, <2>3 DEF UserHooks, HookTypes
<1> QED
  BY <1>1, <1>2, <1>3, <1>4
  DEF Next, Installer, vars, hooks, Doctor, Stash, WriteCard, Aside, Copy, ClearRoot, LinkRoot, RunAlembic,
      MergeConfig, TerminalPrompt, Prune, Launch, Poll, WireTerminal, DryStep, Finish, Stop, StartRun, UserWrites,
      UserConfigures, UserFixesTerminal, StartServer, Bind, ServerEnds, DatabaseStep

RunType ==
    /\ run \in [pc : 0 .. 20, stamp : Nat, mode : {"full", "silent", "upgrade", "dry"}, launched : BOOLEAN]
    /\ run.pc # 0 => run.stamp = used.runs /\ used.runs > 0

\* What a step of the installer does to the run.
LEMMA RunShape ==
  ASSUME SetupTypeOK, Installer
  PROVE  /\ run.pc \in 1 .. 20
         /\ \/ UNCHANGED run
            \/ run.pc \in 1 .. 19 /\ Proceed
            \/ Over
            \/ run.pc \in 1 .. 19 /\ run' = [run EXCEPT !.pc = Finished]
            \/ run.pc \in 1 .. 19 /\ \E n \in {run.pc + 1, Finished} : run' = [run EXCEPT !.pc = n, !.launched = TRUE]
<1>2. \A do : At(do) => run.pc \in 1 .. 19
  BY ScriptSteps DEF At
<1>0. run.pc \in 1 .. 20
  <2>1. CASE DryStep \/ Finish \/ Stop
    BY <2>1, ScriptSteps DEF DryStep, Finish, Stop
  <2>2. CASE Doctor \/ Stash \/ WriteCard \/ Aside \/ Copy \/ ClearRoot \/ LinkRoot
    BY <1>2, <2>2 DEF Doctor, Stash, WriteCard, Aside, Copy, ClearRoot, LinkRoot
  <2>3. CASE RunAlembic \/ MergeConfig \/ TerminalPrompt \/ Prune \/ WireTerminal
    <3>1. At("alembic") \/ At("merge") \/ At("prompt") \/ At("prune") \/ At("terminal")
      BY <2>3 DEF RunAlembic, MergeConfig, TerminalPrompt, Prune, WireTerminal
    <3> QED BY <1>2, <3>1
  <2>4. CASE Launch \/ Poll
    <3>1. At("launch") \/ At("poll")
      BY <2>4 DEF Launch, Poll
    <3> QED BY <1>2, <3>1
  <2> QED BY <2>1, <2>2, <2>3, <2>4 DEF Installer
<1>3. \/ UNCHANGED run
      \/ run.pc \in 1 .. 19 /\ Proceed
      \/ Over
      \/ run.pc \in 1 .. 19 /\ run' = [run EXCEPT !.pc = Finished]
      \/ run.pc \in 1 .. 19 /\ \E n \in {run.pc + 1, Finished} : run' = [run EXCEPT !.pc = n, !.launched = TRUE]
  <2>1. CASE Launch \/ Poll
    BY <1>2, <2>1 DEF Launch, Poll, Proceed
  <2>2. CASE DryStep \/ Finish \/ Stop
    BY <2>2, ScriptSteps DEF DryStep, Finish, Stop
  <2>3. CASE Doctor \/ Stash \/ WriteCard \/ Aside \/ Copy \/ ClearRoot \/ LinkRoot
    BY <1>2, <2>3 DEF Doctor, Stash, WriteCard, Aside, Copy, ClearRoot, LinkRoot
  <2>4. CASE RunAlembic \/ MergeConfig \/ TerminalPrompt \/ Prune \/ WireTerminal
    BY <1>2, <2>4 DEF RunAlembic, MergeConfig, TerminalPrompt, Prune, WireTerminal
  <2> QED BY <2>1, <2>2, <2>3, <2>4 DEF Installer
<1> QED BY <1>0, <1>3

LEMMA RunTypeStep == ASSUME SetupTypeOK, [Next]_vars PROVE RunType'
<1>0. RunType
  BY DEF SetupTypeOK, RunType
<1>1. CASE \E mode \in scenario.modes : StartRun(mode)
  <2> PICK mode \in scenario.modes : StartRun(mode)
    BY <1>1
  <2>1. mode \in {"full", "silent", "upgrade", "dry"}
    BY ScenarioAssumption DEF SetupTypeOK
  <2>2. used.runs \in Nat /\ used'.runs = used.runs + 1
    BY DEF StartRun, Count, SetupTypeOK
  <2>3. run' = [pc |-> 1, stamp |-> used.runs + 1, mode |-> mode, launched |-> FALSE]
    BY DEF StartRun, Idle
  <2> QED BY <2>1, <2>2, <2>3 DEF RunType
<1>2. CASE UNCHANGED run /\ used'.runs = used.runs
  BY <1>0, <1>2 DEF RunType
<1>3. CASE Installer
  <2>1. used'.runs = used.runs
    BY <1>3, RunShape, UsedStep
  <2> QED BY <1>3, <2>1, RunShape, RunTypes DEF RunType
<1>4. (UNCHANGED run /\ used'.runs = used.runs) \/ Installer \/ \E mode \in scenario.modes : StartRun(mode)
  BY DEF Next, vars, HookSave, HookLoad, UserWrites, UserConfigures, UserFixesTerminal, UserHooks, StartServer, Bind,
         ServerEnds, DatabaseStep, Count, SetupTypeOK
<1> QED BY <1>1, <1>2, <1>3, <1>4

LEMMA TypeStep == ASSUME SetupTypeOK, [Next]_vars PROVE SetupTypeOK'
<1>1. UNCHANGED scenario
  BY DEF Next, Installer, vars, Doctor, Stash, WriteCard, Aside, Copy, ClearRoot, LinkRoot, RunAlembic, MergeConfig,
         TerminalPrompt, Prune, Launch, Poll, WireTerminal, DryStep, Finish, Stop, HookSave, HookLoad, StartRun,
         UserWrites, UserConfigures, UserFixesTerminal, UserHooks, StartServer, Bind, ServerEnds, DatabaseStep
<1>2. scenario' \in Scenarios
  BY <1>1 DEF SetupTypeOK
<1> QED
  BY <1>2, UsedStep, FileTypesStep, ConfigTypesStep, HookTypesStep, RunTypeStep
  DEF SetupTypeOK, UsedType, FileTypes, ConfigTypes, HookTypes, RunType

-------------------------------------------------------------------------------
(* What a run has put in place.                                            *)

\* Where a run is when it is at a step of a kind.
LEMMA WhereAt ==
  ASSUME SetupTypeOK
  PROVE  /\ \A do : At(do) => run.mode # "dry" /\ run.pc \in 1 .. 19 /\ run.stamp = used.runs /\ used.runs \in Nat \ {0}
         /\ At("doctor") => run.pc = 1
         /\ At("stash") => (run.pc = 2 /\ Here = "generated") \/ (run.pc = 4 /\ Here = "skill")
         /\ At("write") => (run.pc = 3 /\ Here = "generated") \/ (run.pc = 5 /\ Here = "skill")
         /\ At("aside") => \/ run.pc = 6 /\ Here = "agent"
                           \/ run.pc = 8 /\ Here = "skill"
                           \/ run.pc = 10 /\ Here = "shim"
         /\ At("copy") => (run.pc = 7 /\ Here = "agent") \/ (run.pc = 9 /\ Here = "skill")
         /\ At("clear") => run.pc = 11 /\ Here = "root"
         /\ At("link") => run.pc = 12
         /\ At("alembic") => run.pc = 13
         /\ At("merge") => run.pc = 14
         /\ At("prompt") => run.pc = 15
         /\ At("prune") => run.pc = 16
         /\ At("launch") => run.pc = 17
         /\ At("poll") => run.pc = 18
         /\ At("terminal") => run.pc = 19
<1>1. \A do : At(do) => run.mode # "dry" /\ run.pc \in 1 .. 19 /\ Script[run.pc].do = do
                          /\ run.stamp = used.runs /\ used.runs \in Nat \ {0}
  BY AtRange
<1> QED BY <1>1, ScriptSteps DEF Here

LEMMA DbGrows ==
  ASSUME Staged, [Next]_vars
  PROVE  (db.tables = Tables => db'.tables = Tables) /\ (db.stamped => db'.stamped)
<1>1. CASE UNCHANGED db
  BY <1>1
<1>2. CASE DatabaseStep
  BY <1>2, StagedDbSteps DEF DatabaseStep
<1> QED
  BY <1>1, <1>2
  DEF Next, Installer, vars, dbVars, Doctor, Stash, WriteCard, Aside, Copy, ClearRoot, LinkRoot, RunAlembic,
      MergeConfig, TerminalPrompt, Prune, Launch, Poll, WireTerminal, DryStep, Finish, Stop, HookSave, HookLoad,
      StartRun, UserWrites, UserConfigures, UserFixesTerminal, UserHooks, StartServer, Bind, ServerEnds

\* A step of the script that leaves the run where it is, or takes it one further.
Stays == run' = run
Advances == run'.pc = run.pc + 1 /\ run'.mode = run.mode

LEMMA ProceedAdvances == ASSUME SetupTypeOK, Proceed PROVE Advances
BY DEF Proceed, Advances, SetupTypeOK

LEMMA BuiltStep ==
  ASSUME SetupTypeOK, Staged, Built, Cleared, [Next]_vars
  PROVE  Built' /\ Cleared'
<1>0. /\ run.pc \in 0 .. 20 /\ home \in [Places -> Folders]
      /\ {"agent", "generated", "skill", "shim", "root"} = Places /\ {"card", "body"} = Slots
  BY DEF SetupTypeOK, Places, Directories, Slots
<1>a. /\ Empty.card = NoSuch /\ Empty.body = NoSuch
      /\ Ours.card = Cast /\ Ours.body = Cast
  BY DEF Empty, Ours
<1>1. CASE run'.pc \in {0, 1} \/ run'.mode = "dry"
  BY <1>1 DEF Built, Cleared, Past, AtStep
<1>2. CASE UNCHANGED <<home, baks, cfg, run>>
  BY <1>2, DbGrows DEF Built, Cleared, Past, AtStep
<1>3. CASE Doctor
  <2>1. run'.pc \in {0, 2}
    BY <1>3, WhereAt, ProceedAdvances DEF Doctor, Over, Idle, Advances
  <2> QED BY <2>1 DEF Built, Cleared, Past, AtStep
<1>4. CASE Stash
  <2>1. /\ run.mode # "dry" /\ UNCHANGED <<baks, cfg, db>> /\ home' = [home EXCEPT ![Here].card = NoSuch]
        /\ run'.pc = run.pc + 1
        /\ (run.pc = 2 /\ Here = "generated") \/ (run.pc = 4 /\ Here = "skill")
    BY <1>4, WhereAt, ProceedAdvances DEF Stash, Advances, config, dbVars
  <2> QED BY <1>0, <2>1 DEF Built, Cleared, Past, AtStep, Folders
<1>5. CASE WriteCard
  <2>1. /\ run.mode # "dry" /\ UNCHANGED <<baks, cfg, db>> /\ home' = [home EXCEPT ![Here].card = Cast]
        /\ run'.pc = run.pc + 1
        /\ (run.pc = 3 /\ Here = "generated") \/ (run.pc = 5 /\ Here = "skill")
    BY <1>5, WhereAt, ProceedAdvances DEF WriteCard, Advances, config, dbVars
  <2> QED BY <1>0, <2>1 DEF Built, Cleared, Past, AtStep, Folders
<1>6. CASE Aside
  <2>1. /\ run.mode # "dry" /\ UNCHANGED <<cfg, db>> /\ home' = [home EXCEPT ![Here] = Empty]
        /\ run'.pc = run.pc + 1
        /\ \/ run.pc = 6 /\ Here = "agent"
           \/ run.pc = 8 /\ Here = "skill"
           \/ run.pc = 10 /\ Here = "shim"
    BY <1>6, WhereAt, ProceedAdvances DEF Aside, BackupIfExists, Advances, config, dbVars
  <2> QED BY <1>0, <1>a, <2>1 DEF Built, Cleared, Past, AtStep
<1>7. CASE Copy
  <2>1. /\ run.mode # "dry" /\ UNCHANGED <<baks, cfg, db>>
        /\ \E s \in Slots : home' = [home EXCEPT ![Here][s] = Cast]
        /\ (home'[Here] = Ours /\ Advances) \/ Stays
        /\ (run.pc = 7 /\ Here = "agent") \/ (run.pc = 9 /\ Here = "skill")
    BY <1>7, WhereAt, ProceedAdvances DEF Copy, Stays, config, dbVars
  <2> PICK s \in Slots : home' = [home EXCEPT ![Here][s] = Cast]
    BY <2>1
  <2>2. /\ home'[Here].card \in {home[Here].card, Cast} /\ home'[Here].body \in {home[Here].body, Cast}
        /\ \A p \in Places : p # Here => home'[p] = home[p]
    BY <1>0, <2>1 DEF Folders
  <2>3. CASE run.pc = 7 /\ Here = "agent"
    BY <1>0, <2>1, <2>2, <2>3 DEF Built, Cleared, Past, AtStep, Advances, Stays
  <2>4. CASE run.pc = 9 /\ Here = "skill"
    BY <1>0, <2>1, <2>2, <2>4 DEF Built, Cleared, Past, AtStep, Advances, Stays
  <2> QED BY <2>1, <2>3, <2>4 DEF Built, Cleared, Past, AtStep
<1>8. CASE ClearRoot
  <2>1. /\ run.mode # "dry" /\ UNCHANGED <<cfg, db>> /\ home' = [home EXCEPT !["root"] = Empty]
        /\ run'.pc = run.pc + 1 /\ run.pc = 11
    BY <1>8, WhereAt, ProceedAdvances DEF ClearRoot, BackupIfExists, Advances, config, dbVars
  <2> QED BY <1>0, <2>1 DEF Built, Cleared, Past, AtStep
<1>9. CASE LinkRoot
  <2>1. /\ run.mode # "dry" /\ UNCHANGED <<baks, cfg, db>> /\ home' = [home EXCEPT !["root"].body = Cast]
        /\ run'.pc = run.pc + 1 /\ run.pc = 12
    BY <1>9, WhereAt, ProceedAdvances DEF LinkRoot, Advances, config, dbVars
  <2> QED BY <1>0, <2>1 DEF Built, Cleared, Past, AtStep, Folders
<1>10. CASE RunAlembic
  <2>1. /\ run.mode # "dry" /\ UNCHANGED <<home, baks, cfg, db>> /\ run.pc = 13
        /\ \/ run' = run
           \/ run' = Idle
           \/ run'.pc = 14 /\ at[Cli] = "ready"
    BY <1>10, WhereAt, ProceedAdvances DEF RunAlembic, files, config, Advances, Over
  <2>2. at[Cli] = "ready" => db.tables = Tables /\ db.stamped
    BY DEF Staged, Processes
  <2> QED BY <2>1, <2>2 DEF Built, Cleared, Past, AtStep, Idle
<1>11. CASE MergeConfig
  <2>1. run.mode # "dry" /\ UNCHANGED <<home, baks, db>> /\ run.pc = 14
    BY <1>11, WhereAt DEF MergeConfig, files, dbVars
  <2>2. CASE run' = Idle
    BY <1>1, <2>2 DEF Idle
  <2>3. CASE Proceed /\ \E seed \in {"", "seed"} : cfg' = Merged(seed)
    <3>1. ~cfg'.broken /\ cfg'.port # "none" /\ cfg'.legacy = "none"
      BY <2>3 DEF Merged, NoConfig
    <3>2. Advances
      BY <2>3, ProceedAdvances
    <3> QED BY <2>1, <3>1, <3>2 DEF Advances, Built, Cleared, Past, AtStep
  <2> QED BY <1>11, <2>2, <2>3 DEF MergeConfig, Over
<1>12. CASE TerminalPrompt
  <2>1. /\ run.mode # "dry" /\ UNCHANGED <<home, baks, db>> /\ run.pc = 15 /\ run'.pc = 16
        /\ cfg' = cfg \/ cfg' = Chosen
    BY <1>12, WhereAt, ProceedAdvances DEF TerminalPrompt, files, config, Advances, dbVars
  <2>2. Chosen.broken = cfg.broken /\ Chosen.port = cfg.port /\ Chosen.legacy = "none"
    BY DEF Chosen, SetupTypeOK, Configs
  <2> QED BY <2>1, <2>2 DEF Built, Cleared, Past, AtStep
<1>13. CASE Prune
  <2>1. run.mode # "dry" /\ UNCHANGED <<home, cfg, db>> /\ run.pc = 16
    BY <1>13, WhereAt DEF Prune, config, dbVars
  <2>2. CASE UNCHANGED run
    BY <2>1, <2>2 DEF Built, Cleared, Past, AtStep
  <2>3. CASE Proceed /\ UNCHANGED baks /\ ~(Cardinality(DOMAIN baks) > Keep)
    <3>1. Cardinality(DOMAIN baks) \in Nat
      <4>1. DOMAIN baks \subseteq 1 .. used.runs /\ used.runs \in Nat
        BY DEF SetupTypeOK
      <4>2. IsFiniteSet(1 .. used.runs)
        BY <4>1, FS_Interval
      <4>3. IsFiniteSet(DOMAIN baks)
        BY <4>1, <4>2, FS_Subset
      <4> QED BY <4>3, FS_CardinalityType
    <3>2. Cardinality(DOMAIN baks') <= Keep
      BY <2>3, <3>1, SetupAssumption
    <3>3. run'.pc = 17 /\ run'.mode = run.mode
      BY <2>1, <2>3, ProceedAdvances DEF Advances
    <3> QED BY <2>1, <3>2, <3>3 DEF Built, Cleared, Past, AtStep
  <2> QED BY <1>13, <2>2, <2>3 DEF Prune
<1>14. CASE Launch \/ Poll
  <2>1. run.mode # "dry" /\ UNCHANGED <<home, baks, cfg, db>> /\ run.pc \in {17, 18}
    BY <1>14, WhereAt DEF Launch, Poll, files, config, dbVars
  <2>2. run'.pc \in {18, 19, 20}
    <3>1. \E n \in {run.pc + 1, Finished} : run' = [run EXCEPT !.pc = n] \/ run' = [run EXCEPT !.pc = n, !.launched = TRUE]
      BY <1>14 DEF Launch, Poll, Proceed
    <3>2. PICK n \in {run.pc + 1, Finished} : run' = [run EXCEPT !.pc = n] \/ run' = [run EXCEPT !.pc = n, !.launched = TRUE]
      BY <3>1
    <3>3. n \in {18, 19, 20}
      BY <2>1, ScriptSteps
    <3>4. run'.pc = n
      BY <3>2 DEF SetupTypeOK
    <3> QED BY <3>3, <3>4
  <2> QED BY <2>1, <2>2 DEF Built, Cleared, Past, AtStep
<1>15. CASE WireTerminal
  <2>1. run.mode # "dry" /\ UNCHANGED <<home, baks, db>> /\ run.pc = 19 /\ run'.pc = 20
    BY <1>15, WhereAt, ProceedAdvances DEF WireTerminal, Advances, files, dbVars
  <2>2. ~cfg.broken /\ cfg.port # "none" /\ cfg.legacy = "none"
    BY <2>1 DEF Built, Past
  <2>3. cfg' = cfg \/ cfg' = [cfg EXCEPT !.terminal = "user"]
    BY <1>15, <2>2 DEF WireTerminal, FixTerminal, config
  <2>4. ~cfg'.broken /\ cfg'.port # "none" /\ cfg'.legacy = "none"
    BY <2>2, <2>3 DEF SetupTypeOK, Configs
  <2> QED BY <2>1, <2>4 DEF Built, Cleared, Past, AtStep
<1>16. CASE DryStep
  <2>1. run'.mode = "dry"
    BY <1>16, ProceedAdvances DEF DryStep, Advances
  <2> QED BY <1>1, <2>1 DEF Built, Cleared, Past, AtStep
<1>17. CASE Finish \/ Stop
  <2>1. run' = Idle
    BY <1>17 DEF Finish, Stop, Over
  <2> QED BY <2>1 DEF Built, Cleared, Past, AtStep, Idle
<1>18. CASE UserConfigures \/ UserFixesTerminal \/ \E p \in Places, s \in Slots : UserWrites(p, s)
  <2>1. run'.pc = 0
    BY <1>18 DEF UserConfigures, UserFixesTerminal, UserWrites
  <2> QED BY <2>1 DEF Built, Cleared, Past, AtStep
<1>19. CASE \E mode \in scenario.modes : StartRun(mode)
  <2>1. run'.pc = 1
    BY <1>19 DEF StartRun, Idle
  <2> QED BY <2>1 DEF Built, Cleared, Past, AtStep
<1> QED
  BY <1>2, <1>3, <1>4, <1>5, <1>6, <1>7, <1>8, <1>9, <1>10, <1>11, <1>12, <1>13, <1>14, <1>15, <1>16, <1>17, <1>18, <1>19
  DEF Next, Installer, vars, files, config, HookSave, HookLoad, UserHooks, StartServer, Bind, ServerEnds, DatabaseStep

-------------------------------------------------------------------------------
(* Backups.                                                                *)

LEMMA AsideSteps ==
  /\ AsideAt["agent"] = 6 /\ AsideAt["skill"] = 8 /\ AsideAt["shim"] = 10 /\ AsideAt["root"] = 11
  /\ AsideAt["generated"] = 20 /\ \A p \in Places : AsideAt[p] \in Nat
  /\ Places = {"agent", "skill", "shim", "root", "generated"}
BY DEF AsideAt, Places, Directories

\* A backup of a place adds to what the backups hold of it, and takes nothing away.
LEMMA BackupHolds ==
  ASSUME SetupTypeOK, Fresh, run.pc # 0, NEW p \in Places, run.pc <= AsideAt[p], NEW item \in Folders
  PROVE  /\ run.stamp \in DOMAIN WithBackup(p, item)
         /\ WithBackup(p, item)[run.stamp][p] = item
         /\ \A t \in DOMAIN baks : t \in DOMAIN WithBackup(p, item)
         /\ \A t \in DOMAIN baks, q \in Places :
               \/ WithBackup(p, item)[t][q] = baks[t][q]
               \/ baks[t][q] = Empty
         /\ \A q \in Places : q # p /\ run.pc <= AsideAt[q] => WithBackup(p, item)[run.stamp][q] = Empty
<1>1. BackupDir \in [Places -> Folders]
  <2>1. [q \in Places |-> Empty] \in [Places -> Folders]
    BY DEF Empty, Folders, Items
  <2> QED BY <2>1 DEF BackupDir, SetupTypeOK
<1>2. \A q \in Places : run.pc <= AsideAt[q] => BackupDir[q] = Empty
  BY DEF BackupDir, Fresh
<1>3. run.stamp \in DOMAIN baks => BackupDir = baks[run.stamp]
  BY DEF BackupDir
<1>4. /\ DOMAIN WithBackup(p, item) = DOMAIN baks \cup {run.stamp}
      /\ WithBackup(p, item)[run.stamp] = [BackupDir EXCEPT ![p] = item]
      /\ \A t \in DOMAIN baks : t # run.stamp => WithBackup(p, item)[t] = baks[t]
  BY DEF WithBackup
<1>5. /\ WithBackup(p, item)[run.stamp][p] = item
      /\ \A q \in Places : q # p => WithBackup(p, item)[run.stamp][q] = BackupDir[q]
  BY <1>1, <1>4
<1>6. \A t \in DOMAIN baks, q \in Places : WithBackup(p, item)[t][q] = baks[t][q] \/ baks[t][q] = Empty
  <2> TAKE t \in DOMAIN baks, q \in Places
  <2>1. CASE t # run.stamp
    BY <1>4, <2>1
  <2>2. CASE t = run.stamp /\ q # p
    BY <1>3, <1>5, <2>2
  <2>3. CASE t = run.stamp /\ q = p
    BY <1>2, <1>3, <2>3
  <2> QED BY <2>1, <2>2, <2>3
<1> QED BY <1>2, <1>4, <1>5, <1>6

LEMMA RunMoves ==
  ASSUME SetupTypeOK, Installer
  PROVE  run'.pc = 0 \/ (run'.stamp = run.stamp /\ run.pc # 0 /\ run'.pc \in Nat /\ run'.pc >= run.pc)
<1>1. run.pc \in 1 .. 20 /\ Finished = 20
  BY RunShape, ScriptSteps
<1>2. CASE UNCHANGED run \/ Proceed
  BY <1>1, <1>2 DEF Proceed, SetupTypeOK
<1>3. CASE Over
  BY <1>3 DEF Over, Idle
<1>4. CASE run.pc \in 1 .. 19 /\ run' = [run EXCEPT !.pc = Finished]
  BY <1>1, <1>4 DEF SetupTypeOK
<1>5. CASE run.pc \in 1 .. 19 /\ \E n \in {run.pc + 1, Finished} : run' = [run EXCEPT !.pc = n, !.launched = TRUE]
  <2> PICK n \in {run.pc + 1, Finished} : run' = [run EXCEPT !.pc = n, !.launched = TRUE]
    BY <1>5
  <2>1. n \in Nat /\ n >= run.pc
    BY <1>1
  <2>2. run'.pc = n /\ run'.stamp = run.stamp
    BY DEF SetupTypeOK
  <2> QED BY <1>1, <2>1, <2>2
<1> QED BY <1>2, <1>3, <1>4, <1>5, RunShape

LEMMA FreshStep == ASSUME SetupTypeOK, Fresh, [Next]_vars PROVE Fresh'
<1>0. run.pc \in 0 .. 20 /\ \A p \in Places : AsideAt[p] \in Nat
  BY AsideSteps DEF SetupTypeOK
<1>1. CASE run'.pc = 0
  BY <1>1 DEF Fresh
<1>2. CASE UNCHANGED baks /\ run'.stamp = run.stamp /\ run.pc # 0 /\ run'.pc \in Nat /\ run'.pc >= run.pc
  <2> SUFFICES ASSUME run'.pc # 0, run'.stamp \in DOMAIN baks', NEW p \in Places, run'.pc <= AsideAt[p]
               PROVE  baks'[run'.stamp][p] = Empty
    BY DEF Fresh
  <2>1. run.pc <= AsideAt[p]
    BY <1>0, <1>2
  <2> QED BY <1>2, <2>1 DEF Fresh
<1>3. CASE \E mode \in scenario.modes : StartRun(mode)
  <2>1. UNCHANGED baks /\ run'.stamp = used.runs + 1 /\ used.runs \in Nat /\ DOMAIN baks \subseteq 1 .. used.runs
    BY <1>3 DEF StartRun, files, Idle, SetupTypeOK
  <2> QED BY <2>1 DEF Fresh
<1>4. CASE UNCHANGED <<baks, run>>
  BY <1>4 DEF Fresh
<1>5. ASSUME NEW q \in Places, run.pc = AsideAt[q], run.pc # 0, run'.pc = run.pc + 1, run'.stamp = run.stamp,
             baks' = WithBackup(q, home[q])
      PROVE  Fresh'
  <2>1. home[q] \in Folders
    BY DEF SetupTypeOK
  <2>2. \A p \in Places : p # q /\ run.pc <= AsideAt[p] => WithBackup(q, home[q])[run.stamp][p] = Empty
    BY <1>0, <1>5, <2>1, BackupHolds
  <2> SUFFICES ASSUME NEW p \in Places, run'.pc <= AsideAt[p]
               PROVE  baks'[run'.stamp][p] = Empty
    BY DEF Fresh
  <2>3. p # q /\ run.pc <= AsideAt[p]
    BY <1>0, <1>5
  <2> QED BY <1>5, <2>2, <2>3
<1>6. CASE Aside
  <2>1. Proceed /\ (baks' = baks \/ baks' = WithBackup(Here, home[Here]))
    BY <1>6 DEF Aside, BackupIfExists
  <2>2. Here \in Places /\ run.pc = AsideAt[Here] /\ run.pc # 0
    BY <1>6, WhereAt, AsideSteps DEF Aside
  <2>3. run'.pc = run.pc + 1 /\ run'.stamp = run.stamp
    BY <2>1 DEF Proceed, SetupTypeOK
  <2> QED BY <1>0, <1>2, <1>5, <2>1, <2>2, <2>3
<1>7. CASE ClearRoot
  <2>1. Proceed /\ (baks' = baks \/ baks' = WithBackup("root", home["root"]))
    BY <1>7 DEF ClearRoot, BackupIfExists
  <2>2. "root" \in Places /\ run.pc = AsideAt["root"] /\ run.pc # 0
    BY <1>7, WhereAt, AsideSteps DEF ClearRoot
  <2>3. run'.pc = run.pc + 1 /\ run'.stamp = run.stamp
    BY <2>1 DEF Proceed, SetupTypeOK
  <2> QED BY <1>0, <1>2, <1>5, <2>1, <2>2, <2>3
<1>8. CASE Prune
  <2>1. CASE UNCHANGED baks /\ Proceed
    <3>1. run'.pc = run.pc + 1 /\ run'.stamp = run.stamp /\ run.pc # 0
      BY <1>8, <2>1, WhereAt DEF Prune, Proceed, SetupTypeOK
    <3> QED BY <1>0, <1>2, <2>1, <3>1
  <2>2. CASE baks' = [t \in DOMAIN baks \ {Oldest} |-> baks[t]] /\ UNCHANGED run
    BY <2>2 DEF Fresh
  <2> QED BY <1>8, <2>1, <2>2 DEF Prune
<1>9. CASE UNCHANGED baks /\ Installer
  <2>1. run'.pc = 0 \/ (run'.stamp = run.stamp /\ run.pc # 0 /\ run'.pc \in Nat /\ run'.pc >= run.pc)
    BY <1>9, RunMoves
  <2> QED BY <1>1, <1>2, <1>9, <2>1
<1>10. CASE Installer
  <2>1. Stop => run'.pc = 0
    BY DEF Stop, Over, Idle
  <2>2. UNCHANGED baks \/ Aside \/ ClearRoot \/ Prune \/ Stop
    BY <1>10
    DEF Installer, files, Doctor, Stash, WriteCard, Copy, LinkRoot, RunAlembic, MergeConfig, TerminalPrompt, Launch,
        Poll, WireTerminal, DryStep, Finish
  <2> QED BY <1>1, <1>6, <1>7, <1>8, <1>9, <1>10, <2>1, <2>2
<1> QED
  BY <1>3, <1>4, <1>10
  DEF Next, vars, files, HookSave, HookLoad, UserWrites, UserConfigures, UserFixesTerminal, UserHooks, StartServer,
      Bind, ServerEnds, DatabaseStep

-------------------------------------------------------------------------------
(* What people wrote.                                                      *)

Less == {ss \in Nat \X Nat : ss[1] < ss[2]}

LEMMA LessWellFounded == IsWellFoundedOn(Less, Nat)
BY NatLessThanWellFounded DEF OpToRel, Less

\* A non-empty set of numbers has a least member.
LEMMA LeastNat == ASSUME NEW T, T \subseteq Nat, T # {} PROVE \E x \in T : \A y \in T : x <= y
<1>1. \E x \in T : \A y \in T : ~(<<y, x>> \in Less)
  BY LessWellFounded, WFMin
<1>2. ASSUME NEW x \in T, NEW y \in T, ~(<<y, x>> \in Less) PROVE x <= y
  BY <1>2 DEF Less
<1> QED BY <1>1, <1>2

\* The backup that is removed is older than the runs whose backups are promised.
LEMMA OldestIsOld ==
  ASSUME SetupTypeOK, Cardinality(DOMAIN baks) > Keep
  PROVE  Oldest \in DOMAIN baks /\ Oldest + Keep <= used.runs
<1>1. DOMAIN baks \subseteq 1 .. used.runs /\ used.runs \in Nat /\ DOMAIN baks \subseteq Nat /\ Keep \in Nat
  BY SetupAssumption DEF SetupTypeOK
<1>2. DOMAIN baks # {}
  BY <1>1, FS_EmptySet
<1>3. Oldest \in DOMAIN baks /\ \A u \in DOMAIN baks : Oldest <= u
  BY <1>1, <1>2, LeastNat DEF Oldest
<1>4. DOMAIN baks \subseteq Oldest .. used.runs /\ Oldest \in Nat /\ Oldest <= used.runs
  BY <1>1, <1>3
<1>5. IsFiniteSet(Oldest .. used.runs) /\ Cardinality(Oldest .. used.runs) = used.runs - Oldest + 1
  <2>1. \A a, b \in Nat : a <= b => IsFiniteSet(a .. b) /\ Cardinality(a .. b) = b - a + 1
    BY FS_Interval
  <2> QED BY <1>1, <1>4, <2>1
<1>6. Cardinality(DOMAIN baks) <= used.runs - Oldest + 1 /\ Cardinality(DOMAIN baks) \in Nat
  BY <1>4, <1>5, FS_Subset, FS_CardinalityType
<1> QED BY <1>1, <1>3, <1>4, <1>6

\* Work stays held when it stays where it is or is moved aside, and no backup of it goes.
LEMMA StaysHeld ==
  ASSUME NEW p \in Places, NEW s \in Slots, Held(p, s), mine' = mine, cards \subseteq cards',
         home[p][s] = mine[p][s].is => Held(p, s)',
         \A t \in DOMAIN baks : t > mine[p][s].since /\ baks[t][p][s] = mine[p][s].is
                                   => t \in DOMAIN baks' /\ baks'[t][p][s] = mine[p][s].is
  PROVE  Held(p, s)'
BY DEF Held

\* What is moved into the backup of the run is held there.
LEMMA MovedAside ==
  ASSUME SetupTypeOK, Fresh, WorkHeld, run.pc # 0, NEW q \in Places, run.pc <= AsideAt[q],
         UNCHANGED <<mine, cards>>, used'.runs = used.runs, run' \in {Idle} \/ Proceed,
         NEW item \in {home[q], Empty}, baks' = WithBackup(q, item),
         home' = home \/ (item = home[q] /\ home' = [home EXCEPT ![q] = Empty]),
         NEW p \in Places, NEW s \in Slots, Recent(p, s)
  PROVE  Held(p, s)'
<1>1. /\ mine[p][s].is \in Nat \ {0} /\ mine[p][s].since < run.stamp /\ home \in [Places -> Folders] /\ Slots = {"card", "body"}
      /\ Held(p, s)
  BY DEF SetupTypeOK, WorkHeld, Recent, Slots
<1>2. item \in Folders /\ NoSuch \notin Nat
  BY Folding, SetupAssumption DEF SetupTypeOK
<1>3. Empty[s] = NoSuch
  BY DEF Empty, Slots
<1>4. \A t \in DOMAIN baks : baks[t][p][s] = mine[p][s].is => t \in DOMAIN baks' /\ baks'[t][p][s] = mine[p][s].is
  BY <1>1, <1>2, <1>3, BackupHolds
<1>5. home[p][s] = mine[p][s].is => Held(p, s)'
  <2> SUFFICES ASSUME home[p][s] = mine[p][s].is PROVE Held(p, s)'
    OBVIOUS
  <2>1. CASE home'[p][s] = home[p][s]
    BY <2>1 DEF Held
  <2>2. CASE p = q /\ item = home[q]
    <3>1. run.stamp \in DOMAIN baks' /\ baks'[run.stamp][q] = home[q]
      BY <1>2, <2>2, BackupHolds
    <3> QED BY <1>1, <2>2, <3>1 DEF Held
  <2> QED BY <1>1, <2>1, <2>2
<1> QED BY <1>1, <1>4, <1>5, StaysHeld

LEMMA WorkHeldStep ==
  ASSUME SetupTypeOK, Cleared, Fresh, WorkHeld, [Next]_vars
  PROVE  WorkHeld'
<1>0. /\ home \in [Places -> Folders] /\ Slots = {"card", "body"} /\ NoSuch \notin Nat /\ Cast \notin Nat /\ Stale \notin Nat
      /\ used.runs \in Nat /\ used'.runs \in Nat /\ used'.runs >= used.runs
      /\ \A p \in Places, s \in Slots : mine[p][s].is \in Nat /\ mine[p][s].since \in Nat
      /\ Keep \in Nat
  BY SetupAssumption, UsedStep DEF SetupTypeOK, Slots
<1>a. \A p \in Places, s \in Slots : Recent(p, s) => Held(p, s)
  BY DEF WorkHeld
<1>b. Empty.card = NoSuch /\ Empty.body = NoSuch
  BY DEF Empty
<1>1. CASE \E p \in Places, s \in Slots : UserWrites(p, s)
  <2> PICK p0 \in Places, s0 \in Slots : UserWrites(p0, s0)
    BY <1>1
  <2>1. /\ run.pc = 0 /\ run' = run /\ used'.runs = used.runs /\ UNCHANGED <<baks, cards>>
        /\ home' = [home EXCEPT ![p0][s0] = used.edits + 1]
        /\ mine' = [mine EXCEPT ![p0][s0] = [is |-> used.edits + 1, since |-> used.runs]]
    BY DEF UserWrites, Count, SetupTypeOK
  <2>2. mine \in [Places -> [Slots -> [is : Nat, since : Nat]]]
    BY DEF SetupTypeOK
  <2>3. ~(p0 = "root" /\ s0 = "card")
    <3>1. scenario.places \subseteq Writable
      BY ScenarioAssumption DEF SetupTypeOK
    <3>2. <<p0, s0>> \in Writable
      BY <3>1 DEF UserWrites
    <3> QED BY <3>2 DEF Writable
  <2>4. home[p0] \in Folders
    BY <1>0
  <2>5. mine'[p0][s0] = [is |-> used.edits + 1, since |-> used.runs] /\ home'[p0][s0] = used.edits + 1
    BY <1>0, <2>1, <2>2, <2>4 DEF Folders
  <2>6. \A p \in Places, s \in Slots : p # p0 \/ s # s0 => mine'[p][s] = mine[p][s] /\ home'[p][s] = home[p][s]
    BY <1>0, <2>1, <2>2, <2>4 DEF Folders
  <2>7. mine'["root"]["card"].is = 0
    BY <1>0, <2>3, <2>6 DEF WorkHeld, Places
  <2>8. ASSUME NEW p \in Places, NEW s \in Slots
        PROVE  /\ mine'[p][s].since <= used'.runs
               /\ run'.pc # 0 => mine'[p][s].since < used'.runs
               /\ Recent(p, s)' => Held(p, s)'
    <3>1. CASE p = p0 /\ s = s0
      BY <1>0, <2>1, <2>5, <3>1 DEF Held
    <3>2. CASE p # p0 \/ s # s0
      <4>1. mine'[p][s] = mine[p][s] /\ home'[p][s] = home[p][s]
        BY <2>6, <3>2
      <4>2. Recent(p, s)' => Recent(p, s)
        BY <2>1, <4>1 DEF Recent
      <4>3. Held(p, s) => Held(p, s)'
        BY <2>1, <4>1 DEF Held
      <4> QED BY <1>a, <2>1, <4>1, <4>2, <4>3 DEF WorkHeld
    <3> QED BY <3>1, <3>2
  <2> QED BY <2>7, <2>8 DEF WorkHeld
<1>2. CASE \E mode \in scenario.modes : StartRun(mode)
  <2>1. UNCHANGED <<home, mine, baks, cards>> /\ used'.runs = used.runs + 1
    BY <1>2 DEF StartRun, files, Count, SetupTypeOK
  <2> QED BY <1>0, <2>1 DEF WorkHeld, Recent, Held
<1>3. CASE mine' = mine /\ used'.runs = used.runs /\ (run.pc = 0 => run'.pc = 0)
           /\ \A p \in Places, s \in Slots : Recent(p, s) => Held(p, s)'
  BY <1>3 DEF WorkHeld, Recent
<1>4. ASSUME Installer
      PROVE  mine' = mine /\ used'.runs = used.runs /\ (run.pc = 0 => run'.pc = 0)
  <2>1. mine' = mine
    BY <1>4
    DEF Installer, files, Doctor, Stash, WriteCard, Aside, Copy, ClearRoot, LinkRoot, RunAlembic, MergeConfig,
        TerminalPrompt, Prune, Launch, Poll, WireTerminal, DryStep, Finish, Stop
  <2> QED BY <1>4, <2>1, RunShape, UsedStep
<1>5. ASSUME NEW p \in Places, NEW s \in Slots, Recent(p, s), Installer PROVE Held(p, s)'
  <2>0. /\ mine[p][s].is \in Nat \ {0} /\ Held(p, s) /\ mine[p][s].since + Keep >= used.runs /\ mine' = mine
        /\ used'.runs = used.runs /\ ~(p = "root" /\ s = "card")
    BY <1>0, <1>a, <1>4, <1>5, RunShape DEF Recent, WorkHeld
  <2>a. ASSUME UNCHANGED baks, cards \subseteq cards', home'[p][s] = home[p][s] \/ home[p][s] # mine[p][s].is
        PROVE  Held(p, s)'
    BY <2>0, <2>a DEF Held
  <2>1. CASE UNCHANGED <<home, baks, cards>>
    BY <2>1, <2>a
  <2>2. CASE Stash
    <3>1. At("stash") /\ UNCHANGED baks /\ home' = [home EXCEPT ![Here].card = NoSuch]
          /\ cards' = IF home[Here].card = NoSuch THEN cards ELSE cards \cup {<<Here, home[Here].card>>}
      BY <2>2 DEF Stash
    <3>2. Here \in Places /\ home[Here] \in Folders
      BY <1>0, <3>1, WhereAt, AsideSteps
    <3>3. \A q \in Places, z \in Slots : ~(q = Here /\ z = "card") => home'[q][z] = home[q][z]
      BY <1>0, <3>1, <3>2 DEF Folders
    <3>4. CASE ~(p = Here /\ s = "card")
      <4>1. home'[p][s] = home[p][s] /\ cards \subseteq cards'
        BY <3>1, <3>3, <3>4
      <4> QED BY <2>a, <3>1, <4>1
    <3>5. CASE p = Here /\ s = "card"
      <4>1. home[p][s] = home[Here].card
        BY <3>5
      <4>2. CASE home[p][s] = mine[p][s].is
        <5>1. <<p, mine[p][s].is>> \in cards'
          BY <1>0, <2>0, <3>1, <3>5, <4>1, <4>2
        <5> QED BY <2>0, <5>1 DEF Held
      <4>3. CASE home[p][s] # mine[p][s].is
        BY <2>a, <3>1, <4>3
      <4> QED BY <4>2, <4>3
    <3> QED BY <3>4, <3>5
  <2>3. CASE WriteCard
    <3>1. At("write") /\ UNCHANGED <<baks, cards>> /\ home' = [home EXCEPT ![Here].card = Cast]
      BY <2>3 DEF WriteCard
    <3>2. Here \in Places /\ home[Here] \in Folders /\ home[Here].card = NoSuch
      BY <1>0, <3>1, WhereAt, AsideSteps DEF Cleared, AtStep
    <3>3. \A q \in Places, z \in Slots : ~(q = Here /\ z = "card") => home'[q][z] = home[q][z]
      BY <1>0, <3>1, <3>2 DEF Folders
    <3> QED BY <1>0, <2>0, <2>a, <3>1, <3>2, <3>3
  <2>4. CASE Aside
    <3>1. At("aside") /\ BackupIfExists(Here) /\ Proceed /\ UNCHANGED cards
      BY <2>4 DEF Aside
    <3>2. Here \in Places /\ run.pc # 0 /\ run.pc <= AsideAt[Here]
      BY <3>1, WhereAt, AsideSteps
    <3>3. CASE Exists(Here)
      <4>1. baks' = WithBackup(Here, home[Here]) /\ home' = [home EXCEPT ![Here] = Empty]
        BY <3>1, <3>3 DEF BackupIfExists
      <4> QED BY <1>5, <2>0, <3>1, <3>2, <4>1, MovedAside
    <3>4. CASE ~Exists(Here)
      <4>1. UNCHANGED <<home, baks>>
        BY <1>0, <3>1, <3>4 DEF BackupIfExists, Exists
      <4> QED BY <2>1, <3>1, <4>1
    <3> QED BY <3>3, <3>4
  <2>5. CASE Copy
    <3>1. PICK z \in Slots : home' = [home EXCEPT ![Here][z] = Cast]
      BY <2>5 DEF Copy
    <3>2. At("copy") /\ UNCHANGED <<baks, cards>>
      BY <2>5 DEF Copy
    <3>3. Here \in Places /\ home[Here] \in Folders /\ home[Here].card \in {NoSuch, Cast} /\ home[Here].body \in {NoSuch, Cast}
      BY <1>0, <3>2, WhereAt, AsideSteps DEF Cleared, AtStep
    <3>4. \A q \in Places : q # Here => home'[q] = home[q]
      BY <1>0, <3>1
    <3> QED BY <1>0, <2>0, <2>a, <3>2, <3>3, <3>4
  <2>6. CASE ClearRoot
    <3>1. At("clear") /\ Proceed /\ UNCHANGED cards
          /\ IF home["root"].body \in {Cast, Stale}
               THEN home' = [home EXCEPT !["root"] = Empty] /\ UNCHANGED baks
               ELSE BackupIfExists("root")
      BY <2>6 DEF ClearRoot
    <3>2. "root" \in Places /\ run.pc # 0 /\ run.pc <= AsideAt["root"]
      BY <3>1, WhereAt, AsideSteps
    <3>3. CASE home["root"].body \in {Cast, Stale}
      <4>1. \A q \in Places : q # "root" => home'[q] = home[q]
        BY <1>0, <3>1, <3>3
      <4> QED BY <1>0, <2>0, <2>a, <3>1, <3>3, <4>1
    <3>4. CASE home["root"].body \notin {Cast, Stale} /\ Exists("root")
      <4>1. baks' = WithBackup("root", home["root"]) /\ home' = [home EXCEPT !["root"] = Empty]
        BY <3>1, <3>4 DEF BackupIfExists
      <4> QED BY <1>5, <2>0, <3>1, <3>2, <4>1, MovedAside
    <3>5. CASE home["root"].body \notin {Cast, Stale} /\ ~Exists("root")
      <4>1. UNCHANGED <<home, baks>>
        BY <1>0, <3>1, <3>5 DEF BackupIfExists, Exists
      <4> QED BY <2>1, <3>1, <4>1
    <3> QED BY <3>3, <3>4, <3>5
  <2>7. CASE LinkRoot
    <3>1. At("link") /\ UNCHANGED <<baks, cards>> /\ home' = [home EXCEPT !["root"].body = Cast]
      BY <2>7 DEF LinkRoot
    <3>2. home["root"] = Empty
      BY <3>1, WhereAt DEF Cleared, AtStep
    <3>3. \A q \in Places : q # "root" => home'[q] = home[q]
      BY <1>0, <3>1
    <3> QED BY <1>0, <1>b, <2>0, <2>a, <3>1, <3>2, <3>3
  <2>8. CASE Prune
    <3>1. CASE Cardinality(DOMAIN baks) > Keep
      <4>1. baks' = [t \in DOMAIN baks \ {Oldest} |-> baks[t]] /\ UNCHANGED <<home, cards>>
        BY <2>8, <3>1 DEF Prune
      <4>2. ~(Oldest > mine[p][s].since)
        <5>1. Oldest \in DOMAIN baks /\ Oldest + Keep <= used.runs /\ Oldest \in Nat
          BY <3>1, OldestIsOld DEF SetupTypeOK
        <5> QED BY <1>0, <2>0, <5>1
      <4> QED BY <2>0, <4>1, <4>2 DEF Held
    <3>2. CASE ~(Cardinality(DOMAIN baks) > Keep)
      BY <2>1, <2>8, <3>2 DEF Prune
    <3> QED BY <3>1, <3>2
  <2>9. CASE Stop
    <3>1. UNCHANGED <<home, cards>> /\ run' = Idle
      BY <2>9 DEF Stop, Over
    <3>2. CASE UNCHANGED baks
      BY <2>1, <3>1, <3>2
    <3>3. CASE (At("aside") \/ At("clear")) /\ baks' = WithBackup(Here, Empty)
      <4>1. Here \in Places /\ run.pc # 0 /\ run.pc <= AsideAt[Here]
        BY <3>3, WhereAt, AsideSteps
      <4> QED BY <1>5, <2>0, <3>1, <3>3, <4>1, MovedAside
    <3> QED BY <2>9, <3>2, <3>3 DEF Stop
  <2> QED
    BY <1>5, <2>1, <2>2, <2>3, <2>4, <2>5, <2>6, <2>7, <2>8, <2>9
    DEF Installer, files, Doctor, RunAlembic, MergeConfig, TerminalPrompt, Launch, Poll, WireTerminal, DryStep, Finish
<1>6. CASE Installer
  BY <1>3, <1>4, <1>5, <1>6
<1>7. CASE UNCHANGED <<home, mine, baks, cards, run>> /\ used'.runs = used.runs
  BY <1>7 DEF WorkHeld, Recent, Held
<1> QED
  BY <1>1, <1>2, <1>6, <1>7
  DEF Next, vars, files, HookSave, HookLoad, UserConfigures, UserFixesTerminal, UserHooks, StartServer, Bind,
      ServerEnds, DatabaseStep, Count, SetupTypeOK

-------------------------------------------------------------------------------
(* The theorems.                                                           *)

LEMMA InitInv == ASSUME Init PROVE Inv
<1>1. scenario.files \subseteq {NoFile, OldFile}
  BY ScenarioAssumption DEF Init
<1>2. DbTypeOK /\ ~db.stamped
  <2>1. db \in {NoFile, OldFile}
    BY <1>1 DEF Init
  <2>2. db = [tables |-> {}, columns |-> FALSE, seeded |-> FALSE, stamped |-> FALSE]
        \/ db = [tables |-> {"first"}, columns |-> FALSE, seeded |-> FALSE, stamped |-> FALSE]
    BY <2>1 DEF NoFile, OldFile
  <2>3. db \in [tables : SUBSET Tables, columns : BOOLEAN, seeded : BOOLEAN, stamped : BOOLEAN] /\ ~db.stamped
    <3>1. {} \in SUBSET Tables /\ {"first"} \in SUBSET Tables
      BY DEF Tables
    <3>2. \A T \in SUBSET Tables :
             [tables |-> T, columns |-> FALSE, seeded |-> FALSE, stamped |-> FALSE]
               \in [tables : SUBSET Tables, columns : BOOLEAN, seeded : BOOLEAN, stamped : BOOLEAN]
      OBVIOUS
    <3>3. ~db.stamped
      BY <2>2
    <3> QED BY <2>2, <3>1, <3>2, <3>3
  <2>4. at = [p \in Processes |-> "off"]
    BY DEF Init
  <2> QED BY <2>3, <2>4 DEF DbTypeOK
<1>3. Staged
  BY <1>2, DatabaseAssumption DEF Init, Staged, Processes
<1>4. SetupTypeOK
  <2>1. home \in [Places -> Folders]
    BY DEF Init, Empty, Folders, Items
  <2>2. mine \in [Places -> [Slots -> [is : Nat, since : Nat]]]
    BY DEF Init
  <2>3. DOMAIN baks = {}
    BY DEF Init
  <2>4. cfg \in Configs /\ asked \in [port : BOOLEAN, terminal : BOOLEAN]
    BY DEF Init, NoConfig, Configs
  <2>5. settings \in [broken : BOOLEAN, entries : Entries, foreign : BOOLEAN]
        /\ hook \in [at : {"off", "install", "uninstall"}, read : Entries]
    BY DEF Init, Entries
  <2>6. RunType
    BY DEF Init, Idle, RunType
  <2>7. used \in [edits : Nat, runs : Nat, kills : Nat, starts : Nat, hooks : Nat] /\ scenario \in Scenarios
    BY DEF Init
  <2> QED BY <2>1, <2>2, <2>3, <2>4, <2>5, <2>6, <2>7 DEF SetupTypeOK, RunType
<1>5. run.pc = 0
  BY DEF Init, Idle
<1>6. Built /\ Cleared /\ Fresh
  BY <1>5 DEF Built, Past, Cleared, AtStep, Fresh
<1>7. WorkHeld
  BY <1>5 DEF Init, WorkHeld, Recent, Places, Directories, Slots
<1>8. Asked /\ Foreign
  BY DEF Init, Asked, Foreign, NoConfig
<1> QED BY <1>3, <1>4, <1>6, <1>7, <1>8 DEF Inv

LEMMA InvStep == ASSUME Inv, [Next]_vars PROVE Inv'
BY TypeStep, StagedStep, BuiltStep, FreshStep, WorkHeldStep, AskedStep, ForeignStep DEF Inv

\* The state keeps to its types in every run of the installer, on every file it is given.
THEOREM TypesHold == Spec => []SetupTypeOK
<1>1. Inv => SetupTypeOK
  BY DEF Inv
<1> QED BY <1>1, InitInv, InvStep, PTL DEF Spec

\* Whatever people wrote where the installer and cast-hook write is still there or in a backup,
\* for every number of runs, kills and edits and every number of backups kept.
THEOREM WorkIsKept == Spec => []UserWorkKept
<1>1. ASSUME Inv PROVE FilesKept
  <2> SUFFICES ASSUME NEW p \in Places, NEW s \in Slots, Recent(p, s)
               PROVE  \/ home[p][s] = mine[p][s].is
                      \/ <<p, mine[p][s].is>> \in cards
                      \/ \E t \in DOMAIN baks : baks[t][p][s] = mine[p][s].is
    BY DEF FilesKept, Recent
  <2>1. Held(p, s)
    BY <1>1 DEF Inv, WorkHeld
  <2> QED BY <2>1 DEF Held
<1>2. ASSUME Inv PROVE ConfigKept /\ HooksKept
  BY <1>2 DEF Inv, Asked, Foreign, ConfigKept, HooksKept
<1>3. Inv => UserWorkKept
  BY <1>1, <1>2 DEF UserWorkKept
<1> QED BY <1>3, InitInv, InvStep, PTL DEF Spec

\* A run that ends normally leaves everything installed, and a server that is up has the whole
\* schema, for every number of servers that start together.
THEOREM InstalledIsComplete == Spec => []ReadyWhenDone
<1>1. ASSUME Inv PROVE Complete
  <2> SUFFICES ASSUME run.pc = Finished, run.mode # "dry"
               PROVE  /\ home["agent"] = Ours /\ home["skill"] = Ours /\ home["generated"].card = Cast
                      /\ home["shim"] = Empty /\ home["root"].body = Cast
                      /\ db.tables = Tables /\ db.stamped
                      /\ ~cfg.broken /\ cfg.port # "none" /\ cfg.legacy = "none"
                      /\ Cardinality(DOMAIN baks) <= Keep
    BY DEF Complete
  <2>1. run.pc = 20
    BY ScriptSteps
  <2> QED BY <1>1, <2>1 DEF Inv, Built, Past
<1>2. ASSUME Inv PROVE Served
  BY <1>2 DEF Inv, Staged, Processes, Served, AtHead
<1>3. Inv => ReadyWhenDone
  BY <1>1, <1>2 DEF ReadyWhenDone
<1> QED BY <1>3, InitInv, InvStep, PTL DEF Spec

===============================================================================
