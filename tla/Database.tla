-------------------------------- MODULE Database --------------------------------
(***************************************************************************)
(* How the database file comes to be what the server expects.  A starting  *)
(* server first creates and extends the schema itself (db/connection.py)   *)
(* and then lets alembic claim it (app.py, _ensure_db_at_head); ./setup    *)
(* runs alembic alone.  Two starts and the installer may do so at the same *)
(* time.  Every CREATE and ALTER commits by itself, so a process that is   *)
(* killed leaves what it had done so far; what alembic and SQLite do is    *)
(* taken from how the code uses them.                                      *)
(***************************************************************************)
EXTENDS Naturals, FiniteSets

CONSTANTS
    Servers,    \* processes that run the application's lifespan
    Cli         \* the installer's `alembic upgrade head`

ASSUME DatabaseAssumption == Cli \notin Servers

VARIABLES
    db,         \* what the file holds
    at          \* the stage each of the processes is at

dbVars == <<db, at>>

\* the tables of schema.sql are created one by one: the first of them, and the rest
Tables == {"first", "rest"}

\* a file that is missing, empty, or holds part of the schema
NoFile == [tables |-> {}, columns |-> FALSE, seeded |-> FALSE, stamped |-> FALSE]

\* a database from before alembic, and before the columns added since
OldFile == [NoFile EXCEPT !.tables = {"first"}]

Processes == Servers \cup {Cli}

DbTypeOK ==
    /\ db \in [tables : SUBSET Tables, columns : BOOLEAN, seeded : BOOLEAN, stamped : BOOLEAN]
    /\ at \in [Processes -> {"off", "init", "schema", "columns", "seed", "look", "upgrade",
                             "first", "rest", "stamp", "insert", "ready", "serving", "dead"}]

Go(p, stage) == at' = [at EXCEPT ![p] = stage]

-----------------------------------------------------------------------------
(* init_db: on a new file get_connection creates the schema and runs the    *)
(* column migrations, and init_db then does both once more; on any other    *)
(* file it does them once.  All of it is idempotent: once is enough here.   *)

\* Seeded fault: a file alembic has stamped is taken to be complete
CreateUnlessStamped(s) ==
    /\ at[s] = "init"
    /\ db' = IF db.stamped THEN db ELSE [db EXCEPT !.tables = @ \cup {"first"}]
    /\ Go(s, IF db.stamped THEN "look" ELSE "schema")

CreateFirst(s) ==
    /\ at[s] = "init"
    /\ db' = [db EXCEPT !.tables = @ \cup {"first"}]
    /\ Go(s, "schema")

CreateRest(s) ==
    /\ at[s] = "schema"
    /\ db' = [db EXCEPT !.tables = Tables]
    /\ Go(s, "columns")

\* ALTERs whose failure means the column is there, tables and indexes IF NOT EXISTS
RunMigrations(s) ==
    /\ at[s] = "columns"
    /\ db' = [db EXCEPT !.columns = TRUE, !.tables = Tables]
    /\ Go(s, "seed")

SeedSystemGoals(s) ==
    /\ at[s] = "seed"
    /\ db' = [db EXCEPT !.seeded = TRUE]
    /\ Go(s, "look")

InitDb(s) == CreateFirst(s) \/ CreateRest(s) \/ RunMigrations(s) \/ SeedSystemGoals(s)

-----------------------------------------------------------------------------
(* Alembic.  It has one revision, the baseline, which is schema.sql again.  *)

\* the branch _ensure_db_at_head takes; init_db has run, so there are tables
Branch ==
    IF db.stamped THEN "ready"
    ELSE IF db.tables # {} THEN "stamp" ELSE "upgrade"

EnsureDbAtHead(s) ==
    /\ at[s] = "look"
    /\ Go(s, Branch)
    /\ UNCHANGED db

\* command.stamp reads the revision again before it writes it
Stamp(s) ==
    /\ at[s] = "stamp"
    /\ Go(s, IF db.stamped THEN "ready" ELSE "insert")
    /\ UNCHANGED db

Upgrade(p) ==
    /\ at[p] = "upgrade"
    /\ Go(p, IF db.stamped THEN "ready" ELSE "first")
    /\ UNCHANGED db

\* CREATE TABLE IF NOT EXISTS, statement by statement
Baseline(p) ==
    \/ /\ at[p] = "first"
       /\ db' = [db EXCEPT !.tables = @ \cup {"first"}]
       /\ Go(p, "rest")
    \/ /\ at[p] = "rest"
       /\ db' = [db EXCEPT !.tables = Tables]
       /\ Go(p, "insert")

\* the row of alembic_version has the revision as its key: whoever comes second fails
InsertVersion(p) ==
    /\ at[p] = "insert"
    /\ IF db.stamped
         THEN Go(p, "dead") /\ UNCHANGED db
         ELSE Go(p, "ready") /\ db' = [db EXCEPT !.stamped = TRUE]

Alembic(p) == Stamp(p) \/ Upgrade(p) \/ Baseline(p) \/ InsertVersion(p)

DbSteps ==
    \/ \E s \in Servers : InitDb(s) \/ EnsureDbAtHead(s)
    \/ \E p \in Processes : Alembic(p)

-----------------------------------------------------------------------------

\* what the services rely on: every table, every column, the goal other rows point to, the stamp
AtHead == db.tables = Tables /\ db.columns /\ db.seeded /\ db.stamped

===============================================================================
