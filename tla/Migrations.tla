----------------------------- MODULE Migrations -----------------------------
(***************************************************************************)
(* The programs that prepare the database: config/migrate.ts with the      *)
(* files it lists and its table `migrations`, and the scripts beside it    *)
(* with a table of their own, `schema_migrations`: create-database,        *)
(* run-migration-node, fix-role-column, mark-migration-003 and             *)
(* check-migrations.  Each is a process of its own, several may run at     *)
(* once, and each may stop between two statements.  PostgreSQL runs a      *)
(* statement as a whole, lets one transaction at a time alter a table, and *)
(* forgets what a transaction has not committed.                           *)
(***************************************************************************)
EXTENDS Integers, Sequences, FiniteSets

CONSTANTS
    Programs,      \* processes
    Listed,        \* the files of migrate.ts, in order
    Present,       \* the files that are there
    NodeFile,      \* the file of run-migration-node: 004_add_user_roles_and_dids.sql
    SaasFile       \* 003_create_saas_tables.sql

ASSUME MigrationsAssumption ==
    /\ Listed \in Seq(STRING)
    /\ NodeFile \in Present \ {Listed[i] : i \in DOMAIN Listed} /\ SaasFile # NodeFile
    /\ \A i, j \in DOMAIN Listed : Listed[i] = Listed[j] => i = j

VARIABLES
    db,       \* the database
    program   \* [kind, pc, todo]: todo are the files, by their places, that migrate.ts has found not executed

migrationVars == <<db, program>>

\* applied: what the files have created; migrations, schema: the two tables of records, with
\* the table `schema_migrations` itself in schemaTable; role: the column users.role, added by
\* hand or by NodeFile, and its successor org_role; lock: who has altered a table and not committed.
EmptyDb == [created |-> FALSE, applied |-> {}, migrations |-> {}, schema |-> {}, schemaTable |-> FALSE,
            role |-> "none", orgRole |-> FALSE, lock |-> "nobody"]

ProgramKinds == {"create", "migrate", "node", "fix", "mark", "check"}

MigrationInit ==
    /\ db \in {EmptyDb, [EmptyDb EXCEPT !.created = TRUE],
               [EmptyDb EXCEPT !.created = TRUE, !.role = "owner, admin or member"]}
    /\ program = [p \in Programs |-> [kind |-> "none", pc |-> "idle", todo |-> {}]]

Run(p, kind) ==
    /\ program[p].pc = "idle"
    /\ program' = [program EXCEPT ![p] = [kind |-> kind, pc |-> "connect", todo |-> {}]]
    /\ db' = db

At(p, kind, pc) == program[p].kind = kind /\ program[p].pc = pc

Goto(p, pc) == program' = [program EXCEPT ![p].pc = pc]

\* Statements on tables that another transaction has altered wait for its end.
Unlocked(p) == db.lock \in {"nobody", p}

\* A program that fails or is killed: its open transaction is rolled back.
Abandon(p) ==
    /\ program[p].pc \notin {"idle", "done", "failed"}
    /\ Goto(p, "failed")
    /\ db' = [db EXCEPT !.lock = IF @ = p THEN "nobody" ELSE @]

\* All but createDatabase connect to the database by its name.
Connect(p) ==
    /\ program[p].pc = "connect"
    /\ program[p].kind # "create" => db.created
    /\ Goto(p, "look") /\ db' = db

-----------------------------------------------------------------------------
createDatabase(p) ==
    /\ At(p, "create", "look")
    /\ db' = [db EXCEPT !.created = TRUE]
    /\ Goto(p, "done")

\* migrate.ts reads the executed migrations once.
ReadExecuted(p) ==
    /\ At(p, "migrate", "look")
    /\ program' = [program EXCEPT ![p].pc = "files",
           ![p].todo = {i \in DOMAIN Listed : Listed[i] \notin db.migrations}]
    /\ db' = db

\* The files are taken in their order.
IsNext(i, todo) == i \in todo /\ \A j \in todo : i <= j

\* The file is read and executed; what it creates must not exist.
ApplyFile(p) ==
    /\ At(p, "migrate", "files") /\ Unlocked(p)
    /\ \E i \in DOMAIN Listed :
        /\ IsNext(i, program[p].todo)
        /\ Listed[i] \in Present \ db.applied
        /\ db' = [db EXCEPT !.applied = @ \union {Listed[i]}]
    /\ Goto(p, "insert")

\* The name is recorded by a statement of its own; it is UNIQUE.
RecordFile(p) ==
    /\ At(p, "migrate", "insert")
    /\ \E i \in DOMAIN Listed :
        /\ IsNext(i, program[p].todo)
        /\ Listed[i] \notin db.migrations
        /\ db' = [db EXCEPT !.migrations = @ \union {Listed[i]}]
        /\ program' = [program EXCEPT ![p].pc = "files", ![p].todo = @ \ {i}]

FilesDone(p) ==
    /\ At(p, "migrate", "files") /\ program[p].todo = {}
    /\ Goto(p, "done") /\ db' = db

-----------------------------------------------------------------------------
(* run-migration-node                                                       *)

CountRecords(p) ==
    /\ At(p, "node", "look")
    /\ db' = [db EXCEPT !.schemaTable = TRUE]
    /\ Goto(p, IF NodeFile \in db.schema THEN "done" ELSE "begin")

\* BEGIN and the file, which adds users.role and creates user_dids.
ApplyInTransaction(p) ==
    /\ At(p, "node", "begin") /\ Unlocked(p)
    /\ NodeFile \notin db.applied /\ db.role = "none"
    /\ db' = [db EXCEPT !.lock = p]
    /\ Goto(p, "commit")

\* Mutant: the record is committed before the file.
CommitRecordOnly(p) ==
    /\ At(p, "node", "commit")
    /\ db' = [db EXCEPT !.lock = "nobody", !.schema = @ \union {NodeFile}]
    /\ Goto(p, "done")

\* The INSERT and COMMIT.
CommitBoth(p) ==
    /\ At(p, "node", "commit") /\ NodeFile \notin db.schema
    /\ db' = [db EXCEPT !.lock = "nobody", !.applied = @ \union {NodeFile},
                        !.schema = @ \union {NodeFile}, !.role = "user or admin"]
    /\ Goto(p, "done")

-----------------------------------------------------------------------------
(* fix-role-column: statements without a transaction                        *)

FindRole(p) ==
    /\ At(p, "fix", "look")
    /\ Goto(p, IF db.role = "none" THEN "done" ELSE "rename") /\ db' = db

\* The constraints are dropped and the column renamed.
RenameRole(p) ==
    /\ At(p, "fix", "rename") /\ Unlocked(p)
    /\ db.role # "none" /\ ~db.orgRole
    /\ db' = [db EXCEPT !.role = "none", !.orgRole = TRUE]
    /\ Goto(p, "forget")

\* The new constraint is added; rows with other roles refuse it (Abandon).  003 is to run again.
ForgetSaas(p) ==
    /\ At(p, "fix", "forget") /\ db.schemaTable
    /\ db' = [db EXCEPT !.schema = @ \ {SaasFile}]
    /\ Goto(p, "done")

markMigration(p) ==
    /\ At(p, "mark", "look") /\ db.schemaTable
    /\ db' = [db EXCEPT !.schema = @ \union {SaasFile}]
    /\ Goto(p, "done")

checkMigrations(p) ==
    /\ At(p, "check", "look")
    /\ Goto(p, "done") /\ db' = db

-----------------------------------------------------------------------------
MigrationStep(p) ==
    \/ Connect(p) \/ Abandon(p)
    \/ createDatabase(p)
    \/ ReadExecuted(p) \/ ApplyFile(p) \/ RecordFile(p) \/ FilesDone(p)
    \/ CountRecords(p) \/ ApplyInTransaction(p) \/ CommitBoth(p)
    \/ FindRole(p) \/ RenameRole(p) \/ ForgetSaas(p)
    \/ markMigration(p) \/ checkMigrations(p)

MigrationNext == \E p \in Programs : MigrationStep(p) \/ \E kind \in ProgramKinds : Run(p, kind)

MigrationSpec == MigrationInit /\ [][MigrationNext]_migrationVars

(***************************************************************************)
(* Whatever runs beside it and wherever it stops, run-migration-node has   *)
(* recorded its file exactly when the tables of the file are there; and    *)
(* migrate.ts, which has no transaction, records no file that was not      *)
(* executed, and in their order.                                           *)
(***************************************************************************)
RecordsAreTrue ==
    /\ NodeFile \in db.schema <=> NodeFile \in db.applied
    /\ db.migrations \subseteq db.applied
    /\ \A i, j \in DOMAIN Listed : i < j /\ Listed[j] \in db.applied => Listed[i] \in db.migrations
=============================================================================
