----------------------------- MODULE Migrations -----------------------------
(***************************************************************************)
(* The start of a process: apply_migrations of src/app/db/pool.py, called  *)
(* by the lifespan of src/app/main.py, with processes that start at one    *)
(* time, die half-way and are started again by the platform.               *)
(*                                                                         *)
(* Abstractions: a file is a number, in the order of the names; a script   *)
(* cannot be applied to a schema that has it (CREATE TABLE, ADD COLUMN),   *)
(* and waits while another transaction is applying it.                     *)
(***************************************************************************)
EXTENDS Naturals

CONSTANTS
    Directory, \* the .sql files of the directory
    Strays,    \* those whose name is not NNN_name.sql: copies of the file
               \* that follows them ("001_init 2.sql")
    Starters,  \* processes of the service
    MaxDeaths  \* bound: how often a process dies

ASSUME DirectoryAssumption ==
    /\ Directory \subseteq Nat /\ Strays \subseteq Directory
    /\ \A f \in Strays : f + 1 \in Directory \ Strays
ASSUME DeathsAssumption == MaxDeaths \in Nat

VARIABLES
    schema,   \* how often each script has been applied, committed
    recorded, \* table schema_migrations; {} also when it is missing
    starter,  \* the coroutine apply_migrations of each process
    deaths    \* how often a process has died

migrationVars == <<schema, recorded, starter, deaths>>

\* Seeded bug: every .sql file is a migration.
MigrationsAll == Directory

\* MIGRATION_NAME
Migrations == Directory \ Strays

Script(f) == IF f \in Strays THEN f + 1 ELSE f

\* at: the statement that follows; done: the files it need not apply.
Starter == [at : {"down", "table", "read", "script", "mark", "ready", "dead"},
            done : SUBSET Directory]

MigrationTypeOK ==
    /\ schema \in [Directory -> Nat]
    /\ recorded \subseteq Directory
    /\ starter \in [Starters -> Starter]
    /\ deaths \in 0..MaxDeaths

MigrationInit ==
    /\ schema = [f \in Directory |-> 0]
    /\ recorded = {}
    /\ starter = [p \in Starters |-> [at |-> "down", done |-> {}]]
    /\ deaths = 0

At(p, where) == starter' = [starter EXCEPT ![p].at = where]

\* Also the platform starting a process that has died.
StartUp(p) ==
    /\ starter[p].at \in {"down", "dead"}
    /\ At(p, "table")
    /\ UNCHANGED <<schema, recorded, deaths>>

\* CREATE TABLE IF NOT EXISTS: of two at one time one can fail.
CreateTable(p) ==
    /\ starter[p].at = "table"
    /\ \/ At(p, "read")
       \/ recorded = {} /\ (\E q \in Starters \ {p} : starter[q].at = "read")
          /\ At(p, "dead")
    /\ UNCHANGED <<schema, recorded, deaths>>

ReadDone(p) ==
    /\ starter[p].at = "read"
    /\ starter' = [starter EXCEPT ![p] = [at |-> "script", done |-> recorded]]
    /\ UNCHANGED <<schema, recorded, deaths>>

\* sorted(glob): the first file that is not done.
IsNext(p, f) ==
    /\ f \in Migrations \ starter[p].done
    /\ \A g \in Migrations \ starter[p].done : f <= g

\* The script, in a transaction.
RunScript(p, f) ==
    /\ starter[p].at = "script" /\ IsNext(p, f)
    /\ \A q \in Starters \ {p} : starter[q].at = "mark" => ~IsNext(q, f)
    /\ At(p, IF schema[Script(f)] = 0 THEN "mark" ELSE "dead")
    /\ UNCHANGED <<schema, recorded, deaths>>

\* The row of schema_migrations and the commit.
RecordMigration(p, f) ==
    /\ starter[p].at = "mark" /\ IsNext(p, f)
    /\ schema' = [schema EXCEPT ![Script(f)] = @ + 1]
    /\ recorded' = recorded \cup {f}
    /\ starter' = [starter EXCEPT ![p].at = "script", ![p].done = @ \cup {f}]
    /\ UNCHANGED deaths

\* apply_migrations returns, and the lifespan goes on.
StartedUp(p) ==
    /\ starter[p].at = "script" /\ Migrations \subseteq starter[p].done
    /\ At(p, "ready")
    /\ UNCHANGED <<schema, recorded, deaths>>

\* Seeded bug: the script has a transaction of its own.
SchemaAfterDeathKept(p) ==
    [f \in Directory |-> schema[f] +
       (IF starter[p].at = "mark" /\ \E g \in Migrations : IsNext(p, g) /\ Script(g) = f
        THEN 1 ELSE 0)]

\* What a process leaves behind when it dies: its transaction is rolled back.
SchemaAfterDeath(p) == schema

Die(p) ==
    /\ starter[p].at \notin {"down", "dead"} /\ deaths < MaxDeaths
    /\ deaths' = deaths + 1
    /\ schema' = SchemaAfterDeath(p)
    /\ At(p, "dead")
    /\ UNCHANGED recorded

\* A redeploy ends the process.
ShutDown(p) ==
    /\ starter[p].at = "ready"
    /\ At(p, "down")
    /\ UNCHANGED <<schema, recorded, deaths>>

StarterStep(p) ==
    \/ CreateTable(p) \/ ReadDone(p) \/ StartedUp(p)
    \/ \E f \in Directory : RunScript(p, f) \/ RecordMigration(p, f)

MigrationNext ==
    \E p \in Starters : StartUp(p) \/ StarterStep(p) \/ Die(p) \/ ShutDown(p)

\* A statement ends, and the platform starts a process again that has died.
MigrationFairness ==
    \A p \in Starters : WF_migrationVars(StarterStep(p) \/
                                         (starter[p].at = "dead" /\ StartUp(p)))

MigrationSpec == MigrationInit /\ [][MigrationNext]_migrationVars

-----------------------------------------------------------------------------
\* A script and the record of it are committed together and once, in the order
\* of the names, whichever processes apply them and wherever they die; a
\* process that serves has them all (pool.py:53).
MigratedOnce ==
    /\ \A f \in Migrations : schema[f] = IF f \in recorded THEN 1 ELSE 0
    /\ \A f \in recorded, g \in Migrations : g < f => g \in recorded
    /\ \A p \in Starters : starter[p].at = "ready" => Migrations \subseteq recorded

\* Why: a process knows less than the table, and never a later file without
\* an earlier one; a transaction that applies a script is the only one that
\* does, and the script was not applied before.
MigratingInv ==
    /\ recorded \subseteq Migrations
    /\ \A p \in Starters : starter[p].done \subseteq recorded
    /\ \A p \in Starters, f \in Migrations : starter[p].at = "mark" /\ IsNext(p, f) =>
         /\ f \notin recorded
         /\ \A q \in Starters \ {p} : starter[q].at = "mark" => ~IsNext(q, f)
    /\ MigratedOnce

\* A process that is started serves in the end, even when it loses the race for
\* a script or dies on the way: the next start finds nothing half done.
EventuallyMigrated ==
    \A p \in Starters : starter[p].at = "table" ~> starter[p].at = "ready"
=============================================================================
