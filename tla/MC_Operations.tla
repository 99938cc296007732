--------------------------- MODULE MC_Operations ---------------------------
(***************************************************************************)
(* Constants for model checking, in one run, JobQueue and the modules      *)
(* about what is around the API process: Setup and Migrations, which share *)
(* the database, Vault and Telemetry.  Otherwise they share no state: a    *)
(* behaviour is one of one of them and leaves the others where they start, *)
(* so that the states of the run are the sum of theirs and not their       *)
(* product.                                                                *)
(***************************************************************************)
EXTENDS JobQueue, Setup, Vault, Telemetry, TLC

CONSTANTS m1, m2

TwoFiles == <<"001", "002">>

VARIABLE part

mcVars == <<vars, setupVars, vaultVars, telemetryVars, part>>

MCInit ==
    /\ Init /\ SetupInit /\ VaultInit /\ TelemetryInit
    /\ part \in {"queue", "setup", "migrations", "vault", "telemetry"}
    /\ part \notin {"setup", "migrations"} => db = EmptyDb
    /\ part # "setup" => cli.at = "prompt"
    /\ part # "vault" => address = "v1"
    /\ part # "telemetry" => sdk = "none"

MCNext ==
    \/ part = "queue" /\ Next /\ UNCHANGED <<setupVars, vaultVars, telemetryVars, part>>
    \/ part = "setup" /\ SetupNext /\ UNCHANGED <<vars, vaultVars, telemetryVars, part>>
    \/ part = "migrations" /\ MigrationNext
       /\ UNCHANGED <<machine, wizard, cli, vars, vaultVars, telemetryVars, part>>
    \/ part = "vault" /\ VaultNext /\ UNCHANGED <<vars, setupVars, telemetryVars, part>>
    \/ part = "telemetry" /\ TelemetryNext /\ UNCHANGED <<vars, setupVars, vaultVars, part>>

MCSpec == MCInit /\ [][MCNext]_mcVars
=============================================================================
