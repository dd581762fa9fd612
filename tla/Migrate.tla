------------------------------ MODULE Migrate ------------------------------
(***************************************************************************)
(* The start of the API server: backend/cmd/server/main.go and the runner  *)
(* of backend/internal/db/migrate.go.  A migration is its version; the     *)
(* files of a build are the versions 1..build.  PostgreSQL is external:    *)
(* each migration runs in one transaction, its statements fail when its    *)
(* relations exist already (no file says IF NOT EXISTS), and a transaction *)
(* whose client is gone before the answer to its COMMIT may still commit.  *)
(***************************************************************************)
EXTENDS Integers

CONSTANTS
    Latest,      \* the newest version in the repository (3)
    MaxDeaths,   \* bound: deaths of the server process
    MaxDeploys   \* bound: deployments of another build

ASSUME MigrateAssumption ==
    Latest \in Nat \ {0} /\ MaxDeaths \in Nat /\ MaxDeploys \in Nat

VARIABLES
    build,      \* the newest version embedded in the deployed build
    pc,         \* "down", "current", "loop", "sql", "record", "commit", "serving"
    version,    \* the highest version recorded or applied, as this process knows it
    applied,    \* versions whose relations exist
    recorded,   \* schema_migrations
    orphan,     \* the version of a transaction that lost its client, or 0
    deaths, deploys

schema == <<applied, recorded>>
server == <<build, pc, version, orphan, deaths, deploys>>
migrateVars == <<schema, server>>

Versions == 1..Latest

MigrateTypeOK ==
    /\ build \in Versions
    /\ pc \in {"down", "current", "loop", "sql", "record", "commit", "serving"}
    /\ version \in 0..Latest
    /\ applied \subseteq Versions /\ recorded \subseteq Versions
    /\ orphan \in 0..Latest
    /\ deaths \in 0..MaxDeaths /\ deploys \in 0..MaxDeploys

MigrateInit ==
    /\ build = 1
    /\ pc = "down" /\ version = 0
    /\ applied = {} /\ recorded = {}
    /\ orphan = 0
    /\ deaths = 0 /\ deploys = 0

-----------------------------------------------------------------------------
\* run, as far as db.Connect; compose restarts the container for good.
StartServer ==
    /\ pc = "down" /\ pc' = "current"
    /\ UNCHANGED <<schema, build, version, orphan, deaths, deploys>>

\* Mutant: the newest recorded migration counts as one to apply.
ReadCurrentShort ==
    /\ pc = "current" /\ pc' = "loop"
    /\ version' \in {v \in 0..Latest : (v = 0 \/ v + 1 \in recorded) /\ \A r \in recorded : r <= v + 1}
    /\ UNCHANGED <<schema, build, orphan, deaths, deploys>>

\* CREATE TABLE IF NOT EXISTS, then COALESCE(MAX(version), 0).
ReadCurrent ==
    /\ pc = "current" /\ pc' = "loop"
    /\ version' \in {v \in 0..Latest : (v = 0 \/ v \in recorded) /\ \A r \in recorded : r <= v}
    /\ UNCHANGED <<schema, build, orphan, deaths, deploys>>

\* The next file, or none: "migrations up to date", the server listens.
NextMigration ==
    /\ pc = "loop"
    /\ pc' = IF version < build THEN "sql" ELSE "serving"
    /\ UNCHANGED <<schema, build, version, orphan, deaths, deploys>>

\* Mutant: a failing migration is logged and the server starts all the same.
ExecSqlLogs ==
    /\ pc = "sql" /\ orphan # version + 1
    /\ pc' = IF version + 1 \in applied THEN "serving" ELSE "record"
    /\ UNCHANGED <<schema, build, version, orphan, deaths, deploys>>

\* tx.Exec(m.sql) waits for an uncommitted transaction that creates the same
\* relations.  An error ends the process; compose starts another.
ExecSql ==
    /\ pc = "sql" /\ orphan # version + 1
    /\ pc' = IF version + 1 \in applied THEN "down" ELSE "record"
    /\ UNCHANGED <<schema, build, version, orphan, deaths, deploys>>

\* Mutant: the version is recorded in a transaction of its own.
RecordVersionFirst ==
    /\ pc = "record" /\ pc' = "commit"
    /\ recorded' = recorded \cup {version + 1}
    /\ UNCHANGED <<applied, build, version, orphan, deaths, deploys>>

\* The INSERT, in the same transaction; a duplicate ends the process.
RecordVersion ==
    /\ pc = "record"
    /\ pc' = IF version + 1 \in recorded THEN "down" ELSE "commit"
    /\ UNCHANGED <<schema, build, version, orphan, deaths, deploys>>

\* The end of pgx.BeginFunc: both statements or none.
Commit ==
    /\ pc = "commit" /\ pc' = "loop"
    /\ applied' = applied \cup {version + 1}
    /\ recorded' = recorded \cup {version + 1}
    /\ version' = version + 1
    /\ UNCHANGED <<build, orphan, deaths, deploys>>

\* SIGTERM, an error of the connection, a crash of the process or of the machine:
\* an open transaction is rolled back, unless its COMMIT was under way.
ServerDies ==
    /\ pc # "down" /\ pc' = "down"
    /\ deaths < MaxDeaths /\ deaths' = deaths + 1
    /\ orphan' \in IF pc = "commit" THEN {0, version + 1} ELSE {orphan}
    /\ UNCHANGED <<schema, build, version, deploys>>

OrphanCommits ==
    /\ orphan # 0 /\ orphan' = 0
    /\ applied' = applied \cup {orphan}
    /\ recorded' = recorded \cup {orphan}
    /\ UNCHANGED <<build, pc, version, deaths, deploys>>

OrphanRollsBack ==
    /\ orphan # 0 /\ orphan' = 0
    /\ UNCHANGED <<schema, build, pc, version, deaths, deploys>>

\* Another build, newer or older, takes the place of the server.
Deploy ==
    /\ deploys < MaxDeploys /\ deploys' = deploys + 1
    /\ pc = "down"
    /\ build' \in Versions \ {build}
    /\ UNCHANGED <<schema, pc, version, orphan, deaths>>

Serve == StartServer \/ ReadCurrent \/ NextMigration \/ ExecSql \/ RecordVersion \/ Commit
Orphan == OrphanCommits \/ OrphanRollsBack

-----------------------------------------------------------------------------
\* "A failure leaves earlier migrations applied and the failing one fully rolled
\* back" (migrate.go:19), also when the server dies while PostgreSQL commits:
\* what schema_migrations says is what was applied, with no gap, and a server
\* that answers has the relations of its build.  (And every variable has its
\* type.)
RecordMatches ==
    /\ MigrateTypeOK
    /\ recorded = applied
    /\ \A v \in applied : 1..v \subseteq applied
    /\ pc = "serving" => 1..build \subseteq applied
=============================================================================
