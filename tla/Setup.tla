--------------------------------- MODULE Setup ---------------------------------
(***************************************************************************)
(* The installer, ./setup (bootstrap/setup_flow.py with its helpers, the   *)
(* doctor and bin/generate-skills), and the hook entries of cast-hook      *)
(* install (cli/install_hooks.py).  A run is a fixed script of steps on    *)
(* files people also edit; it stops at the first step that fails, may be   *)
(* killed at any point, and is simply started again.  Files in the way are *)
(* moved to a backup directory that carries the run's time stamp, of which *)
(* the newest few are kept.  Each step that moves, removes or replaces one *)
(* file is atomic here; copying a directory, writing the configuration and *)
(* removing old backups are not.  People edit between the runs, and each   *)
(* run has a time stamp of its own: it takes longer than the second stamps *)
(* are made of.                                                            *)
(***************************************************************************)
EXTENDS Database, Sequences

CONSTANTS
    Keep,           \* backup directories prune_old_backups retains
    Scenarios,      \* bounds that go together
    NoSuch,         \* a file that is not there
    Cast,           \* what the installer puts there
    Stale           \* a link to a repository that has moved

ASSUME SetupAssumption ==
    /\ Keep \in Nat \ {0}
    /\ {NoSuch, Cast, Stale} \cap Nat = {}

VARIABLES
    scenario,   \* the bounds of this behaviour
    home,       \* place -> its card (the one file generate-skills writes) and its body
    mine,       \* what people last put there, and how many runs had started by then
    baks,       \* time stamp -> the places moved to ~/.claude/.cast-bak-<stamp>
    cards,      \* cards generate-skills moved aside, never pruned
    cfg,        \* ~/.cast/config.yaml
    asked,      \* what people last asked for in it
    settings,   \* the hooks of a settings.json
    hook,       \* the cast-hook process
    port,       \* who listens on CAST_PORT
    run,        \* the installer
    used        \* edits, runs, kills, starts and hook commands so far

files == <<home, mine, baks, cards>>
config == <<cfg, asked>>
hooks == <<settings, hook>>
vars == <<scenario, home, mine, baks, cards, cfg, asked, settings, hook, port, run, used, db, at>>

\* ~/.claude/agents/cast-a, the skill generated from it, a hand-written skill,
\* ~/.local/bin/cast-server, and the link ~/.claude/skills/diecast
Directories == {"agent", "generated", "skill"}
Places == Directories \cup {"shim", "root"}
Slots == {"card", "body"}
Empty == [card |-> NoSuch, body |-> NoSuch]
Ours == [card |-> Cast, body |-> Cast]

Exists(p) == home[p] # Empty

NoConfig == [broken |-> FALSE, port |-> "none", terminal |-> "none", legacy |-> "none", extra |-> FALSE]

\* in the root skill only its one file is written by hand, since the rest is behind the link
Writable == {ps \in Places \X Slots : ps[1] = "root" => ps[2] = "body"}

ASSUME ScenarioAssumption ==
    Scenarios \subseteq [places : SUBSET Writable, config : BOOLEAN, ports : SUBSET {"free", "other", "http"},
                       files : SUBSET {NoFile, OldFile}, modes : SUBSET {"full", "silent", "upgrade", "dry"},
                       edits : Nat, runs : Nat, kills : Nat, starts : Nat, hooks : Nat]

\* the sequence of run_setup; a step of several places is a step for each
Script ==
    << [do |-> "doctor", on |-> "root"],
       [do |-> "stash", on |-> "generated"], [do |-> "write", on |-> "generated"],
       [do |-> "stash", on |-> "skill"], [do |-> "write", on |-> "skill"],
       [do |-> "aside", on |-> "agent"], [do |-> "copy", on |-> "agent"],
       [do |-> "aside", on |-> "skill"], [do |-> "copy", on |-> "skill"],
       [do |-> "aside", on |-> "shim"],
       [do |-> "clear", on |-> "root"], [do |-> "link", on |-> "root"],
       [do |-> "alembic", on |-> "root"], [do |-> "merge", on |-> "root"],
       [do |-> "prompt", on |-> "root"], [do |-> "prune", on |-> "root"],
       [do |-> "launch", on |-> "root"], [do |-> "poll", on |-> "root"],
       [do |-> "terminal", on |-> "root"] >>

Finished == Len(Script) + 1

Idle == [pc |-> 0, stamp |-> 0, mode |-> "full", launched |-> FALSE]

At(do) == run.pc \in 1 .. Len(Script) /\ Script[run.pc].do = do /\ run.mode # "dry"
Here == Script[run.pc].on
Proceed == run' = [run EXCEPT !.pc = @ + 1]
Over == run' = Idle

Init ==
    /\ scenario \in Scenarios
    /\ \E link \in {NoSuch, Stale} : home = [p \in Places |-> IF p = "root" THEN [Empty EXCEPT !.body = link] ELSE Empty]
    /\ mine = [p \in Places |-> [s \in Slots |-> [is |-> 0, since |-> 0]]]
    /\ baks = << >> /\ cards = {}
    /\ cfg = NoConfig /\ asked = [port |-> FALSE, terminal |-> FALSE]
    /\ settings = [broken |-> FALSE, entries |-> {}, foreign |-> FALSE]
    /\ hook = [at |-> "off", read |-> {}]
    /\ port \in scenario.ports
    /\ run = Idle
    /\ used = [edits |-> 0, runs |-> 0, kills |-> 0, starts |-> 0, hooks |-> 0]
    /\ db \in scenario.files /\ at = [p \in Processes |-> "off"]

Count(what) == used[what] < scenario[what] /\ used' = [used EXCEPT ![what] = @ + 1]

-----------------------------------------------------------------------------
(* Starting a run, and its steps. *)

\* SetupState freezes the time stamp
StartRun(mode) ==
    /\ run.pc = 0 /\ at[Cli] = "off"
    /\ Count("runs")
    /\ run' = [Idle EXCEPT !.pc = 1, !.stamp = used.runs + 1, !.mode = mode]
    /\ UNCHANGED <<scenario, files, config, hooks, port, dbVars>>

\* --dry-run: every step only says what it would do, after the doctor
DryStep ==
    /\ run.mode = "dry" /\ run.pc \in 1 .. Len(Script)
    /\ Proceed
    /\ UNCHANGED <<scenario, files, config, hooks, port, used, dbVars>>

\* run_checks: red when a required tool is missing or too old, or one of the two directories
\* cannot be written, all of which may change between runs; yellow findings never count
Verdicts == {"green", "red"}

Doctor ==
    /\ At("doctor")
    /\ \E verdict \in Verdicts : IF verdict = "red" THEN Over ELSE Proceed
    /\ UNCHANGED <<scenario, files, config, hooks, port, used, dbVars>>

\* _backup_existing of generate-skills
Stash ==
    /\ At("stash")
    /\ cards' = IF home[Here].card = NoSuch THEN cards ELSE cards \cup {<<Here, home[Here].card>>}
    /\ home' = [home EXCEPT ![Here].card = NoSuch]
    /\ Proceed
    /\ UNCHANGED <<scenario, mine, baks, config, hooks, port, used, dbVars>>

\* write_outputs
WriteCard ==
    /\ At("write")
    /\ home' = [home EXCEPT ![Here].card = Cast]
    /\ Proceed
    /\ UNCHANGED <<scenario, mine, baks, cards, config, hooks, port, used, dbVars>>

\* the backup directory of a run: made when the run first needs it
BackupDir == IF run.stamp \in DOMAIN baks THEN baks[run.stamp] ELSE [p \in Places |-> Empty]
WithBackup(p, item) ==
    [t \in DOMAIN baks \cup {run.stamp} |-> IF t = run.stamp THEN [BackupDir EXCEPT ![p] = item] ELSE baks[t]]

\* backup_if_exists: a link counts as existing whether or not it leads anywhere
BackupIfExists(p) ==
    /\ baks' = IF Exists(p) THEN WithBackup(p, home[p]) ELSE baks
    /\ home' = [home EXCEPT ![p] = Empty]

Aside ==
    /\ At("aside")
    /\ BackupIfExists(Here)
    /\ Proceed
    /\ UNCHANGED <<scenario, mine, cards, config, hooks, port, used, dbVars>>

\* shutil.copytree, one entry after the other in whatever order the directory lists them
Copy ==
    /\ At("copy")
    /\ \E s \in Slots :
          /\ home[Here][s] # Cast
          /\ home' = [home EXCEPT ![Here][s] = Cast]
    /\ IF home'[Here] = Ours THEN Proceed ELSE UNCHANGED run
    /\ UNCHANGED <<scenario, mine, baks, cards, config, hooks, port, used, dbVars>>

\* install_diecast_skill_root: a link is removed, anything else is moved aside
ClearRoot ==
    /\ At("clear")
    /\ IF home["root"].body \in {Cast, Stale}
         THEN home' = [home EXCEPT !["root"] = Empty] /\ UNCHANGED baks
         ELSE BackupIfExists("root")
    /\ Proceed
    /\ UNCHANGED <<scenario, mine, cards, config, hooks, port, used, dbVars>>

LinkRoot ==
    /\ At("link")
    /\ home' = [home EXCEPT !["root"].body = Cast]
    /\ Proceed
    /\ UNCHANGED <<scenario, mine, baks, cards, config, hooks, port, used, dbVars>>

\* alembic upgrade head as a process of its own: the run waits for it and fails with it
RunAlembic ==
    /\ At("alembic")
    /\ \/ at[Cli] = "off" /\ Go(Cli, "upgrade") /\ UNCHANGED run
       \/ at[Cli] = "ready" /\ Go(Cli, "off") /\ Proceed
       \/ at[Cli] = "dead" /\ Go(Cli, "off") /\ Over
    /\ UNCHANGED <<scenario, files, config, hooks, port, used, db>>

\* _merge_config: the schema's keys, people's values before the defaults; other keys are dropped
Merged(seed) ==
    LET said == IF cfg.terminal = "none" /\ cfg.legacy # "none" THEN cfg.legacy
                ELSE IF cfg.terminal = "none" THEN "" ELSE cfg.terminal IN
    [NoConfig EXCEPT !.port = IF cfg.port = "none" THEN "default" ELSE cfg.port,
                     !.terminal = IF said = "" THEN seed ELSE said]

\* step6_write_config: a file that does not parse ends the run
MergeConfig ==
    /\ At("merge")
    /\ IF cfg.broken
         THEN Over /\ UNCHANGED cfg
         ELSE Proceed /\ \E seed \in {"", "seed"} : cfg' = Merged(seed)
    /\ UNCHANGED <<scenario, files, asked, hooks, port, used, dbVars>>

\* a terminal people chose: every other key stays
Chosen == [cfg EXCEPT !.terminal = "user", !.legacy = "none"]

\* step7_terminal_prompt and _persist_terminal_choice
TerminalPrompt ==
    /\ At("prompt")
    /\ \/ UNCHANGED config
       \/ run.mode # "silent" /\ cfg' = Chosen /\ asked' = [asked EXCEPT !.terminal = TRUE]
    /\ Proceed
    /\ UNCHANGED <<scenario, files, hooks, port, used, dbVars>>

\* Seeded fault: the sort is the wrong way round
Newest == CHOOSE t \in DOMAIN baks : \A u \in DOMAIN baks : t >= u

\* the names sort by time stamp
Oldest == CHOOSE t \in DOMAIN baks : \A u \in DOMAIN baks : t <= u

\* prune_old_backups, one directory at a time
Prune ==
    /\ At("prune")
    /\ IF Cardinality(DOMAIN baks) > Keep
         THEN baks' = [t \in DOMAIN baks \ {Oldest} |-> baks[t]] /\ UNCHANGED run
         ELSE Proceed /\ UNCHANGED baks
    /\ UNCHANGED <<scenario, home, mine, cards, config, hooks, port, used, dbVars>>

\* step8 skips --upgrade and --no-prompt, takes any HTTP server on the port for
\* cast-server, gives way to anything else there, and otherwise starts the server
\* through the link
Launch ==
    /\ At("launch")
    /\ \/ /\ run.mode # "full" \/ port \notin {"free", "serving", "http"}
          /\ run' = [run EXCEPT !.pc = Finished]
          /\ UNCHANGED <<used, at>>
       \/ /\ run.mode = "full" /\ port \in {"serving", "http"}
          /\ run' = [run EXCEPT !.pc = Finished, !.launched = TRUE]
          /\ UNCHANGED <<used, at>>
       \/ /\ run.mode = "full" /\ port = "free"
          /\ Count("starts")
          /\ \E s \in Servers : at[s] = "off" /\ Go(s, "init")
          /\ Proceed
    /\ UNCHANGED <<scenario, files, config, hooks, port, db>>

\* thirty probes: whatever listens in that time is the server, or none was ready
Poll ==
    /\ At("poll")
    /\ \/ port # "free" /\ run' = [run EXCEPT !.pc = @ + 1, !.launched = TRUE]
       \/ port = "free" /\ run' = [run EXCEPT !.pc = Finished]
    /\ UNCHANGED <<scenario, files, config, hooks, port, used, dbVars>>

\* run_fix_terminal of the doctor: a file it cannot parse counts as empty
FixTerminal ==
    \/ UNCHANGED config
    \/ /\ cfg' = IF cfg.broken THEN [NoConfig EXCEPT !.terminal = "user"] ELSE [cfg EXCEPT !.terminal = "user"]
       /\ asked' = [port |-> asked.port /\ ~cfg.broken, terminal |-> TRUE]

WireTerminal ==
    /\ At("terminal")
    /\ FixTerminal
    /\ Proceed
    /\ UNCHANGED <<scenario, files, hooks, port, used, dbVars>>

Finish ==
    /\ run.pc = Finished
    /\ Over
    /\ UNCHANGED <<scenario, files, config, hooks, port, used, dbVars>>

\* The run fails, say on a full disk, or is killed.  In the middle of a
\* write the configuration is left empty; in the middle of a backup its directory is there.
Stop ==
    /\ run.pc \in 1 .. Len(Script)
    /\ Count("kills")
    /\ \/ UNCHANGED <<baks, config>>
       \/ /\ At("merge") \/ At("prompt") \/ At("terminal")
          /\ cfg' = NoConfig /\ asked' = [port |-> FALSE, terminal |-> FALSE]
          /\ UNCHANGED baks
       \/ /\ At("aside") \/ (At("clear") /\ home["root"].body \notin {Cast, Stale})
          /\ Exists(Here)
          /\ baks' = WithBackup(Here, Empty)
          /\ UNCHANGED config
    /\ Over
    /\ Go(Cli, "off")
    /\ UNCHANGED <<scenario, home, mine, cards, hooks, port, db>>

-----------------------------------------------------------------------------
(* cast-hook install and uninstall: read, change, replace the file.        *)

IsOurs == {"ours", "mixed"}   \* an entry with one of our commands, and one with others besides

\* install refuses without the link its commands go through; neither touches a broken file
HookLoad(kind) ==
    /\ hook.at = "off" /\ ~settings.broken
    /\ kind = "install" => home["root"].body = Cast
    /\ Count("hooks")
    /\ hook' = [at |-> kind, read |-> settings.entries]
    /\ UNCHANGED <<scenario, files, config, settings, port, run, dbVars>>

Installed(entries) == IF entries \cap IsOurs # {} THEN entries ELSE entries \cup {"ours"}
Uninstalled(entries) == entries \ IsOurs

\* _atomic_write; a process killed before it changes nothing
HookSave ==
    /\ hook.at # "off"
    /\ \/ settings' = [settings EXCEPT !.broken = FALSE,
             !.entries = IF hook.at = "install" THEN Installed(hook.read) ELSE Uninstalled(hook.read)]
       \/ UNCHANGED settings
    /\ hook' = [at |-> "off", read |-> {}]
    /\ UNCHANGED <<scenario, files, config, port, run, used, dbVars>>

-----------------------------------------------------------------------------
(* People, and the server. *)

UserWrites(p, s) ==
    /\ run.pc = 0 /\ <<p, s>> \in scenario.places
    /\ Count("edits")
    /\ home' = [home EXCEPT ![p][s] = used.edits + 1]
    /\ mine' = [mine EXCEPT ![p][s] = [is |-> used.edits + 1, since |-> used.runs]]
    /\ UNCHANGED <<scenario, baks, cards, config, hooks, port, run, dbVars>>

UserConfigures ==
    /\ run.pc = 0 /\ scenario.config
    /\ Count("edits")
    /\ \/ /\ cfg' = [cfg EXCEPT !.port = "user"] /\ asked' = [asked EXCEPT !.port = TRUE]
       \/ /\ cfg' = [cfg EXCEPT !.terminal = "user"] /\ asked' = [asked EXCEPT !.terminal = TRUE]
       \/ /\ cfg.terminal = "none"
          /\ cfg' = [cfg EXCEPT !.legacy = "user"] /\ asked' = [asked EXCEPT !.terminal = TRUE]
       \/ cfg' = [cfg EXCEPT !.extra = TRUE] /\ UNCHANGED asked
       \/ cfg' = [cfg EXCEPT !.broken = ~@] /\ UNCHANGED asked
    /\ UNCHANGED <<scenario, files, hooks, port, run, dbVars>>

\* the doctor's --fix-terminal by hand
UserFixesTerminal ==
    /\ run.pc = 0 /\ scenario.config
    /\ FixTerminal
    /\ UNCHANGED <<scenario, files, hooks, port, run, used, dbVars>>

\* a hook of somebody else's, one in an entry with ours, or a file that does not parse
UserHooks ==
    /\ Count("edits")
    /\ scenario.hooks > 0
    /\ \/ settings' = [settings EXCEPT !.entries = @ \cup {"foreign"}, !.foreign = hook.at = "off"]
       \/ settings' = [settings EXCEPT !.entries = @ \cup {"mixed"}]
       \/ settings' = [settings EXCEPT !.broken = ~@]
    /\ UNCHANGED <<scenario, files, config, hook, port, run, dbVars>>

StartServer(s) ==
    /\ at[s] = "off"
    /\ Count("starts")
    /\ Go(s, "init")
    /\ UNCHANGED <<scenario, files, config, hooks, port, run, db>>

\* the port is bound when the application has started
Bind(s) ==
    /\ at[s] = "ready"
    /\ IF port = "free" THEN port' = "serving" /\ Go(s, "serving") ELSE Go(s, "dead") /\ UNCHANGED port
    /\ UNCHANGED <<scenario, files, config, hooks, run, used, db>>

ServerEnds(s) ==
    /\ at[s] # "off"
    /\ at[s] # "dead" => used.kills < scenario.kills
    /\ used' = [used EXCEPT !.kills = IF at[s] = "dead" THEN @ ELSE @ + 1]
    /\ port' = IF at[s] = "serving" THEN "free" ELSE port
    /\ Go(s, "off")
    /\ UNCHANGED <<scenario, files, config, hooks, run, db>>

DatabaseStep == DbSteps /\ UNCHANGED <<scenario, files, config, hooks, port, run, used>>

-----------------------------------------------------------------------------

Installer ==
    \/ Doctor \/ Stash \/ WriteCard \/ Aside \/ Copy \/ ClearRoot \/ LinkRoot \/ RunAlembic
    \/ MergeConfig \/ TerminalPrompt \/ Prune \/ Launch \/ Poll \/ WireTerminal
    \/ DryStep \/ Finish \/ Stop

Next ==
    \/ Installer \/ DatabaseStep \/ HookSave
    \/ \E mode \in scenario.modes : StartRun(mode)
    \/ \E kind \in {"install", "uninstall"} : HookLoad(kind)
    \/ \E p \in Places, s \in Slots : UserWrites(p, s)
    \/ UserConfigures \/ UserFixesTerminal \/ UserHooks
    \/ \E s \in Servers : StartServer(s) \/ Bind(s) \/ ServerEnds(s)

Spec == Init /\ [][Next]_vars

-----------------------------------------------------------------------------
(* Properties. *)

\* what people last wrote where the installer writes is there, or moved aside: for as many
\* further runs as backups are retained, whatever becomes of those runs
FilesKept ==
    \A p \in Places, s \in Slots :
        LET m == mine[p][s] IN
        m.is # 0 /\ used.runs <= m.since + Keep =>
            \/ home[p][s] = m.is
            \/ <<p, m.is>> \in cards
            \/ \E t \in DOMAIN baks : baks[t][p][s] = m.is

\* a port or a terminal people asked for stays
ConfigKept ==
    ~cfg.broken =>
        /\ asked.port => cfg.port = "user"
        /\ asked.terminal => "user" \in {cfg.terminal, cfg.legacy}

\* a hook of somebody else's, in an entry without ours, stays
HooksKept == settings.foreign => "foreign" \in settings.entries

\* Nothing people wrote where the installer and cast-hook write is lost: their files, their
\* configuration, their hooks, across runs that complete, fail or are killed between two steps.
\* Not promised: a configuration that was being written, or that did not parse when the doctor
\* rewrote it; hooks added while cast-hook is between its read and its write.
UserWorkKept == FilesKept /\ ConfigKept /\ HooksKept

\* a run that reached its end has installed everything
Complete ==
    run.pc = Finished /\ run.mode # "dry" =>
        /\ home["agent"] = Ours /\ home["skill"] = Ours /\ home["generated"].card = Cast
        /\ home["shim"] = Empty /\ home["root"].body = Cast
        /\ db.tables = Tables /\ db.stamped
        /\ ~cfg.broken /\ cfg.port # "none" /\ cfg.legacy = "none"
        /\ Cardinality(DOMAIN baks) <= Keep

\* a server that has started up has the whole schema
Served == \A s \in Servers : at[s] \in {"ready", "serving"} => AtHead

\* A run that reaches its end leaves everything installed, however the runs before it ended, and
\* a server that is up has the whole schema, whichever of the installer and the other servers
\* had a hand in it.
ReadyWhenDone == Complete /\ Served

===============================================================================
