-------------------------------- MODULE Boot --------------------------------
(***************************************************************************)
(* The start of the API on several nodes (server), the process manager     *)
(* that starts it again (ecosystem.config), the worker that pulls the      *)
(* repository (gitSync), and the migrations all of them run.               *)
(***************************************************************************)
EXTENDS Migrations

CONSTANTS
    MaxStops,      \* bound: crashes, stops and new images together
    MaxFailures,   \* bound: statements that fail
    MaxCommands    \* bound: commands of migrate.js

VARIABLES
    proc,     \* the API of each node
    repo,     \* the last version in a node's GIT_SYNC_DIR; 0 before the clone
    remote,   \* the last version in the remote branch
    used      \* how much of each bound is used up

bootVars == <<proc, repo, remote, used>>
vars == <<migrationVars, bootVars>>

BootOf(n) == <<n, "boot">>
CliOf(n) == <<n, "cli">>
Ticks == {r \in Runners : r[2] \notin {"boot", "cli"}}

\* Every node starts the server.
ASSUME BootAssumption == \A n \in Nodes : BootOf(n) \in Runners

\* A process that is off runs nothing, and one that serves has booted.
TypeOK ==
    /\ MigrationsTypeOK
    /\ proc \in [Nodes -> {"off", "boot", "serve"}]
    /\ repo \in [Nodes -> 0..MaxVersion] /\ remote \in Versions
    /\ used \in [{"stops", "failures", "commands"} -> Nat]
    /\ \A n \in Nodes : proc[n] = "boot" <=> run[BootOf(n)] # Idle
    /\ \A r \in Ticks : run[r] # Idle => proc[r[1]] = "serve"

Init ==
    /\ MigrationsInit
    /\ proc = [n \in Nodes |-> "off"]
    /\ repo = [n \in Nodes |-> 0]
    /\ remote = 1
    /\ used = [stops |-> 0, failures |-> 0, commands |-> 0]

Uses(bound, max) == used[bound] < max /\ used' = [used EXCEPT ![bound] = @ + 1]

OfRun == UNCHANGED <<image, table, schema, rolled, crossed>>

-----------------------------------------------------------------------------
\* The server.

\* Mutant of Launch: runPendingMigrations is not awaited.
LaunchUnawaited(n) ==
    /\ proc[n] = "off"
    /\ proc' = [proc EXCEPT ![n] = "serve"]
    /\ Goes(BootOf(n), [at |-> "read"])
    /\ OfRun /\ UNCHANGED <<repo, remote, used>>

\* start, by hand or by autorestart: the database answers, and migrations run.
Launch(n) ==
    /\ proc[n] = "off"
    /\ proc' = [proc EXCEPT ![n] = "boot"]
    /\ Goes(BootOf(n), [at |-> "read"])
    /\ OfRun /\ UNCHANGED <<repo, remote, used>>

\* The app listens, with its timers and git-sync.
BootDone(n) ==
    /\ run[BootOf(n)].at = "done"
    /\ proc' = [proc EXCEPT ![n] = "serve"]
    /\ Goes(BootOf(n), Idle)
    /\ OfRun /\ UNCHANGED <<repo, remote, used>>

\* Mutant of BootFailed: the error is logged, and the server starts.
BootAnyway(n) ==
    /\ run[BootOf(n)].at = "failed"
    /\ proc' = [proc EXCEPT ![n] = "serve"]
    /\ Goes(BootOf(n), Idle)
    /\ OfRun /\ UNCHANGED <<repo, remote, used>>

\* process.exit(1)
BootFailed(n) ==
    /\ run[BootOf(n)].at = "failed"
    /\ proc' = [proc EXCEPT ![n] = "off"]
    /\ Goes(BootOf(n), Idle)
    /\ OfRun /\ UNCHANGED <<repo, remote, used>>

\* A crash or a shutdown ends what the process was running; the database rolls its
\* transactions back.
Stop(n) ==
    /\ proc[n] # "off" /\ Uses("stops", MaxStops)
    /\ proc' = [proc EXCEPT ![n] = "off"]
    /\ run' = [r \in Runners |-> IF r[1] = n /\ r # CliOf(n) THEN Idle ELSE run[r]]
    /\ OfRun /\ UNCHANGED <<repo, remote>>

\* The node gets the image of the latest release, and its server starts from it.
Deploy(n) ==
    /\ image[n] < remote /\ proc[n] = "off"
    /\ image' = [image EXCEPT ![n] = remote]
    /\ UNCHANGED <<run, table, schema, rolled, crossed, bootVars>>

-----------------------------------------------------------------------------
\* git-sync.  setInterval starts a tick whether or not the last one has ended.

TickStart(r) ==
    /\ proc[r[1]] = "serve" /\ run[r] = Idle
    /\ Goes(r, [at |-> "fetch", before |-> repo[r[1]]])
    /\ OfRun /\ UNCHANGED bootVars

\* clone, or fetch and reset: migrations run again when HEAD is another commit.
TickPull(r) ==
    /\ run[r].at = "fetch"
    /\ repo' = [repo EXCEPT ![r[1]] = remote]
    /\ Goes(r, IF remote # run[r].before THEN [at |-> "read"] ELSE Idle)
    /\ OfRun /\ UNCHANGED <<proc, remote, used>>

TickDone(r) ==
    /\ run[r].at = "done"
    /\ Goes(r, Idle)
    /\ OfRun /\ UNCHANGED bootVars

\* Errors are logged.
TickFailed(r) ==
    /\ run[r].at = "failed"
    /\ Goes(r, Idle)
    /\ OfRun /\ UNCHANGED bootVars

\* A new version is pushed.
Push ==
    /\ remote < MaxVersion
    /\ remote' = remote + 1
    /\ UNCHANGED <<migrationVars, proc, repo, used>>

-----------------------------------------------------------------------------
\* migrate.js: up or down; status only reads.
Command(n) ==
    /\ run[CliOf(n)] = Idle /\ Uses("commands", MaxCommands)
    /\ \E at \in {"read", "down.read"} : Goes(CliOf(n), [at |-> at])
    /\ OfRun /\ UNCHANGED <<proc, repo, remote>>

CommandEnds(n) ==
    /\ run[CliOf(n)].at \in {"done", "failed"}
    /\ Goes(CliOf(n), Idle)
    /\ OfRun /\ UNCHANGED bootVars

-----------------------------------------------------------------------------
RunStep(r) == (Read(r) \/ RunSql(r) \/ Commit(r) \/ DownRead(r) \/ DownCommit(r)) /\ UNCHANGED bootVars

Fails(r) == RunFails(r) /\ Uses("failures", MaxFailures) /\ UNCHANGED <<proc, repo, remote>>

Server(n) == Launch(n) \/ BootDone(n) \/ BootFailed(n)

Tick(r) == TickPull(r) \/ TickDone(r) \/ TickFailed(r)

Next ==
    \/ \E n \in Nodes : Server(n) \/ Stop(n) \/ Deploy(n)
    \/ \E n \in Nodes : CliOf(n) \in Runners /\ (Command(n) \/ CommandEnds(n))
    \/ \E r \in Ticks : TickStart(r) \/ Tick(r)
    \/ \E r \in Runners : RunStep(r) \/ Fails(r)
    \/ Push

Spec == Init /\ [][Next]_vars

\* A process goes on with what it does, and autorestart starts one that is off.
FairSpec ==
    /\ Spec
    /\ \A n \in Nodes : WF_vars(Server(n))
    /\ \A r \in Runners : WF_vars(RunStep(r))

-----------------------------------------------------------------------------
\* What schema_migrations says is what the database has, whoever runs migrations at the
\* same time and wherever one fails: the SQL and the row are one transaction.
SchemaIsTable == schema = table

\* A server that listens has had every migration of its code applied, also when another
\* node was applying them: only a rollback takes one away.
ServesComplete == \A n \in Nodes : proc[n] = "serve" => 1..image[n] \subseteq table \cup rolled

\* A version is missing below a later one only when a rollback met a run of migrations.
InOrder == crossed \/ table = {} \/ table = 1..Max(table)

\* A server that starts will serve: the one that loses the race for a version fails and
\* is started again, and then finds the version applied.
BootCompletes == \A n \in Nodes : (proc[n] = "boot") ~> (proc[n] = "serve")

=============================================================================
