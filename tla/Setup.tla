------------------------------- MODULE Setup -------------------------------
(***************************************************************************)
(* The two programs that prepare a machine for the platform: the wizard    *)
(* setup.js and the command line cli/proofpass.ts.  They share the files   *)
(* of the working copy, the container proofpass-postgres and, through      *)
(* db:migrate, the database of Migrations.  Every external command is a    *)
(* child process that succeeds, fails or is killed; runCommand resolves    *)
(* code || 0, so that a killed child, whose code is null, counts as a      *)
(* success, and no action but setupDatabase looks at the code at all.      *)
(***************************************************************************)
EXTENDS Migrations

CONSTANT MaxCommands   \* bound: commands typed in one session

VARIABLES
    machine,   \* [env, deps, built, container]: what is there
    wizard,    \* [at, tools, code]
    cli        \* [at, cmd, todo, count]: todo is what the action of cmd has still to do

setupVars == <<machine, wizard, cli, db, program>>

Tools == {"docker", "psql"}

SetupInit ==
    /\ MigrationInit
    /\ machine = [env |-> FALSE, deps |-> FALSE, built |-> FALSE, container |-> "none"]
    /\ wizard = [at |-> "detect", tools |-> {}, code |-> 0]
    /\ cli \in [at : {"prompt", "argument"}, cmd : {"none"}, todo : {<<>>}, count : {0}]

-----------------------------------------------------------------------------
(* setup.js                                                                 *)

WizardGoes(at) == wizard' = [wizard EXCEPT !.at = at]

WizardExits(code) == wizard' = [wizard EXCEPT !.at = "exited", !.code = code]

Others == UNCHANGED <<cli, db, program>>

\* Node.js 18 is required; the tools are optional.
Detect ==
    /\ wizard.at = "detect"
    /\ \/ \E tools \in SUBSET Tools : wizard' = [wizard EXCEPT !.at = "choice", !.tools = tools]
       \/ WizardExits(1)
    /\ UNCHANGED machine /\ Others

\* An invalid choice runs the demo; main() goes on to rl.close() while the demo runs.
Choose ==
    /\ wizard.at = "choice"
    /\ \E choice \in {"demo", "guide", "develop", "production", "invalid"} :
        CASE choice \in {"demo", "invalid"} -> WizardGoes("demo")
          [] choice \in {"guide", "production"} -> WizardExits(0)
          [] choice = "develop" ->
                 IF wizard.tools = {} THEN WizardExits(1) ELSE WizardGoes("install")
    /\ UNCHANGED machine /\ Others

\* demo.on('close'): the wizard leaves with the code of the demo.
runQuickDemo ==
    /\ wizard.at = "demo"
    /\ \E code \in {0, 1} : WizardExits(code)
    /\ UNCHANGED machine /\ Others

\* npm install must succeed.
InstallDependencies ==
    /\ wizard.at = "install"
    /\ \/ WizardGoes("build") /\ machine' = [machine EXCEPT !.deps = TRUE]
       \/ WizardExits(1) /\ UNCHANGED machine
    /\ Others

\* Everything after it only warns.
BuildPackages ==
    /\ wizard.at = "build"
    /\ WizardGoes("env")
    /\ \E ok \in BOOLEAN : machine' = [machine EXCEPT !.built = @ \/ ok]
    /\ Others

\* An existing .env stays; else the example, or a basic one, takes its place.
WriteEnv ==
    /\ wizard.at = "env"
    /\ WizardGoes(IF wizard.tools = {"docker"} THEN "container" ELSE "prisma")
    /\ machine' = [machine EXCEPT !.env = TRUE]
    /\ Others

\* docker run fails when the name is taken, whoever took it; the container is not started then.
RunContainer ==
    /\ wizard.at = "container"
    /\ WizardGoes("prisma")
    /\ \/ machine.container = "none" /\ machine' = [machine EXCEPT !.container = "running"]
       \/ UNCHANGED machine
    /\ Others

\* prisma generate and migrate dev; "Setup completado!" follows in any case.
PrismaMigrate ==
    /\ wizard.at = "prisma"
    /\ WizardExits(0)
    /\ UNCHANGED machine /\ Others

WizardNext ==
    \/ Detect \/ Choose \/ runQuickDemo \/ InstallDependencies \/ BuildPackages
    \/ WriteEnv \/ RunContainer \/ PrismaMigrate

-----------------------------------------------------------------------------
(* cli/proofpass.ts                                                         *)

\* What the action of a command does, in order: ask a question, run a child.  setupStellar would
\* ask if .env had the word STELLAR_SECRET_KEY without an equals sign after it.
Plan(cmd) ==
    CASE cmd \in {"install", "validate", "health", "build", "test"} -> <<cmd>>
      [] cmd = "dev" -> <<"ask", "dev server">>
      [] cmd = "stellar:setup" -> <<"setup:stellar">>
      [] cmd = "stellar:demo" -> IF machine.env THEN <<"demo">> ELSE <<>>
      [] cmd = "db:setup" -> <<"docker ps -a">>
      [] cmd = "db:migrate" -> <<"migrate">>
      [] cmd = "db:reset" -> <<"ask", "migrate:reset">>
      [] cmd = "status" -> <<"docker ps", "docker ps">>
      [] cmd \in {"stellar:balance", "docs", "help", "exit"} -> <<>>

Commands == {"install", "validate", "health", "build", "test", "dev", "stellar:setup", "stellar:demo",
             "stellar:balance", "db:setup", "db:migrate", "db:reset", "docs", "status", "help", "exit"}

\* A command is typed at the prompt, or is the argument of the program.
Type ==
    /\ cli.at \in {"prompt", "argument"} /\ cli.cmd = "none" /\ cli.count < MaxCommands
    /\ \E cmd \in Commands :
        cli' = [cli EXCEPT !.cmd = cmd, !.todo = Plan(cmd), !.count = @ + 1]
    /\ UNCHANGED <<machine, wizard, db, program>>

\* A dev server that is not chosen, or a no, ends the action.
Answer ==
    /\ cli.todo # <<>> /\ Head(cli.todo) = "ask"
    /\ \/ cli' = [cli EXCEPT !.todo = Tail(@)]
       \/ cli' = [cli EXCEPT !.todo = <<>>, !.cmd = "declined"]
    /\ UNCHANGED <<machine, wizard, db, program>>

\* What a child that succeeds has changed.
Effect(child) ==
    CASE child = "install" -> [machine EXCEPT !.deps = TRUE, !.env = TRUE]
      [] child = "build" -> [machine EXCEPT !.built = TRUE]
      [] child \in {"docker run", "docker start"} -> [machine EXCEPT !.container = "running"]
      [] OTHER -> machine

\* Whether it can succeed; apps/api has no script migrate:reset.
Possible(child) ==
    CASE child = "docker run" -> machine.container = "none"
      [] child = "docker start" -> machine.container # "none"
      [] child = "docker ps -a" -> machine.container # "none"
      [] child = "docker ps" -> machine.container = "running"
      [] child = "migrate:reset" -> FALSE
      [] OTHER -> TRUE

\* setupDatabase asks to start the container that it has found, or makes one.
AfterPs(code) == IF code = 0 THEN <<"ask", "docker start">> ELSE <<"docker run">>

\* runCommand
runCommand ==
    /\ cli.todo # <<>> /\ Head(cli.todo) \notin Programs \union {"ask", "migrate"}
    /\ LET child == Head(cli.todo)
       IN  \E outcome \in {"ok", "failed", "killed"} :
            /\ outcome = "ok" => Possible(child)
            /\ machine' = IF outcome = "ok" THEN Effect(child) ELSE machine
            /\ cli' = [cli EXCEPT !.todo =
                  IF child = "docker ps -a" THEN AfterPs(IF outcome = "failed" THEN 1 ELSE 0)
                  ELSE Tail(@)]
    /\ UNCHANGED <<wizard, db, program>>

\* npm run migrate is migrate.ts, a process of its own ...
StartMigrate(p) ==
    /\ cli.todo # <<>> /\ Head(cli.todo) = "migrate"
    /\ Run(p, "migrate")
    /\ cli' = [cli EXCEPT !.todo = <<p>>]
    /\ UNCHANGED <<machine, wizard>>

\* ... whose end the command awaits.
EndMigrate(p) ==
    /\ cli.todo = <<p>> /\ program[p].pc \in {"done", "failed"}
    /\ cli' = [cli EXCEPT !.todo = <<>>]
    /\ UNCHANGED <<machine, wizard, db, program>>

\* A message of success is printed whatever the codes were, and the next prompt shown; with an
\* argument, or at exit, the process ends with code 0.
Done ==
    /\ cli.cmd # "none" /\ cli.todo = <<>>
    /\ cli' = [cli EXCEPT !.cmd = "none", !.at = IF @ = "argument" \/ cli.cmd = "exit" THEN "left" ELSE @]
    /\ UNCHANGED <<machine, wizard, db, program>>

CliNext == Type \/ Answer \/ runCommand \/ Done \/ \E p \in Programs : StartMigrate(p) \/ EndMigrate(p)

\* External: the container stops with its host.
ContainerStops ==
    /\ machine.container = "running"
    /\ machine' = [machine EXCEPT !.container = "stopped"]
    /\ UNCHANGED <<wizard, cli, db, program>>

-----------------------------------------------------------------------------
SetupNext ==
    \/ WizardNext
    \/ CliNext
    \/ ContainerStops
    \/ (\E p \in Programs : MigrationStep(p)) /\ UNCHANGED <<machine, wizard, cli>>

SetupSpec == SetupInit /\ [][SetupNext]_setupVars
=============================================================================
