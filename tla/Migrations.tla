----------------------------- MODULE Migrations -----------------------------
(***************************************************************************)
(* Runs of the SQL migrations over one database: runPendingMigrations of   *)
(* autoMigrate, which the server calls when it boots and git-sync after a  *)
(* pull, and the up and down of the command line (migrations/migrate.js).  *)
(* Versions are numbered in the order of their file names.                 *)
(***************************************************************************)
EXTENDS Integers, FiniteSets, FiniteSetsExt

CONSTANTS
    Nodes,        \* machines, each with its copy of the repository
    Runners,      \* who runs migrations: a node, and "boot", "tick..." or "cli" of it
    MaxVersion    \* bound: migrations ever written

ASSUME MigrationsAssumption ==
    /\ MaxVersion \in Nat \ {0}
    /\ Runners \subseteq Nodes \X STRING

VARIABLES
    run,      \* the run each runner is in the middle of
    image,    \* the last version in the migrations/sql a node's code reads
    table,    \* versions in schema_migrations
    schema,   \* versions whose SQL is in effect
    rolled,   \* history: versions ever rolled back
    crossed   \* history: a rollback has met a run that was applying versions

migrationVars == <<run, image, table, schema, rolled, crossed>>

Versions == 1..MaxVersion
Idle == [at |-> "idle"]

Run ==
         [at : {"idle", "read", "done", "failed", "down.read"}]
    \cup [at : {"fetch"}, before : 0..MaxVersion]
    \cup [at : {"apply", "commit"}, left : (SUBSET Versions) \ {{}}]
    \cup [at : {"down"}, last : Versions]

MigrationsTypeOK ==
    /\ run \in [Runners -> Run]
    /\ image \in [Nodes -> Versions]
    /\ table \subseteq Versions
    /\ schema \subseteq Versions
    /\ rolled \subseteq Versions
    /\ crossed \in BOOLEAN

MigrationsInit ==
    /\ run = [r \in Runners |-> Idle]
    /\ image = [n \in Nodes |-> 1]
    /\ table = {} /\ schema = {} /\ rolled = {}
    /\ crossed = FALSE

-----------------------------------------------------------------------------
Goes(r, to) == run' = [run EXCEPT ![r] = to]

Applying(left) == IF left = {} THEN [at |-> "done"] ELSE [at |-> "apply", left |-> left]

\* Mutant of NextOf: the files are not sorted.
AnyOf(left) == Max(left)

\* The next file of the list of pending ones.
NextOf(left) == Min(left)

Files(r) == 1..image[r[1]]

\* Mutant of Read: what is applied already is not left out.
ReadAll(r) ==
    /\ run[r].at = "read"
    /\ Goes(r, Applying(Files(r)))
    /\ UNCHANGED <<image, table, schema, rolled, crossed>>

\* ensureTable, the versions that are there, and the files that are not among them.
Read(r) ==
    /\ run[r].at = "read"
    /\ Goes(r, Applying(Files(r) \ table))
    /\ UNCHANGED <<image, table, schema, rolled, crossed>>

\* Another run has the same version in an open transaction.
Locked(r) ==
    \E q \in Runners \ {r} :
        run[q].at = "commit" /\ NextOf(run[q].left) = NextOf(run[r].left)

\* Mutant of RunSql: the SQL is not in the transaction.
RunSqlApart(r) ==
    /\ run[r].at = "apply" /\ ~Locked(r)
    /\ IF NextOf(run[r].left) \in schema \cup table
         THEN Goes(r, [at |-> "failed"]) /\ UNCHANGED schema
         ELSE /\ Goes(r, [run[r] EXCEPT !.at = "commit"])
              /\ schema' = schema \cup {NextOf(run[r].left)}
    /\ UNCHANGED <<image, table, rolled, crossed>>

\* A transaction runs the SQL of the next version and inserts its row.  When another
\* run has done so meanwhile, a table exists already or the primary key is violated.
RunSql(r) ==
    /\ run[r].at = "apply" /\ ~Locked(r)
    /\ Goes(r, IF NextOf(run[r].left) \in schema \cup table
                 THEN [at |-> "failed"]
                 ELSE [run[r] EXCEPT !.at = "commit"])
    /\ UNCHANGED <<image, table, schema, rolled, crossed>>

Commit(r) ==
    /\ run[r].at = "commit"
    /\ LET m == NextOf(run[r].left)
       IN /\ table' = table \cup {m}
          /\ schema' = schema \cup {m}
          /\ Goes(r, Applying(run[r].left \ {m}))
    /\ crossed' = (crossed \/ \E q \in Runners : run[q].at = "down")
    /\ UNCHANGED <<image, rolled>>

\* down: the newest version, for which this copy must have the file.
DownRead(r) ==
    /\ run[r].at = "down.read"
    /\ Goes(r, IF table = {} THEN [at |-> "done"]
                 ELSE IF Max(table) \notin Files(r) THEN [at |-> "failed"]
                 ELSE [at |-> "down", last |-> Max(table)])
    /\ UNCHANGED <<image, table, schema, rolled, crossed>>

\* One transaction runs the SQL that takes it back and deletes the row.
DownCommit(r) ==
    /\ run[r].at = "down"
    /\ table' = table \ {run[r].last}
    /\ schema' = schema \ {run[r].last}
    /\ rolled' = rolled \cup {run[r].last}
    /\ crossed' = (crossed \/ \E q \in Runners : run[q].at \in {"apply", "commit"})
    /\ Goes(r, [at |-> "done"])
    /\ UNCHANGED image

\* A statement fails, and the transaction with it.
RunFails(r) ==
    /\ run[r].at \in {"fetch", "read", "apply", "commit", "down.read", "down"}
    /\ Goes(r, [at |-> "failed"])
    /\ UNCHANGED <<image, table, schema, rolled, crossed>>

=============================================================================
