---------------------------- MODULE ServiceStart ----------------------------
(***************************************************************************)
(* How containers start: the migrations of the database, the order in which *)
(* services wait for them, and what a service loads when it starts.        *)
(*                                                                         *)
(* apply_migrations reads the versions that are in force once, and then    *)
(* runs each file that is missing in a transaction of its own, together    *)
(* with the row of its version.  Several containers may do so at the same  *)
(* time: the one-shot migrate service, and every other one whose           *)
(* environment asks for migrations at start-up.  They may be of different  *)
(* releases, each with the files of its own image.                         *)
(***************************************************************************)
EXTENDS Integers, FiniteSetsExt

CONSTANTS
    Containers,   \* containers of one deployment
    Kind,         \* what the entrypoint of each one is asked for
    Migrates,     \* those with TOTALRECALL_RUN_MIGRATIONS_ON_STARTUP
    Waits,        \* those that depend on migrate: service_completed_successfully
    Release       \* how many migrations each one's image has

Kinds == {"migrate", "api", "memory"}

\* Files are applied in the order of their names.
Newest == Max({Release[c] : c \in Containers})
Versions == 1 .. Newest

\* The files with memory_tombstones and with skill_governance.
Tombstones == 1
Governance == 2

Migrators == Migrates \cup {c \in Containers : Kind[c] = "migrate"}

ASSUME KindsAreKnown == Kind \in [Containers -> Kinds]
ASSUME SetsOfContainers == Migrates \subseteq Containers /\ Waits \subseteq Containers
ASSUME ReleasesHaveFiles == Release \in [Containers -> Nat \ {0}]
ASSUME SomeReleaseIsNewest ==
    \E c \in Containers : \A d \in Containers : Release[d] <= Release[c]
\* compose builds migrate and the services that wait for it from one tree.
ASSUME BuiltTogether ==
    \A c \in Waits, m \in Containers : Kind[m] = "migrate" => Release[c] <= Release[m]

VARIABLES
    up,         \* the database answers
    versioned,  \* the table schema_migrations exists
    applied,    \* its rows
    ran,        \* history: how often the SQL of each file was committed
    pc,         \* where each container is
    existing,   \* the versions it has read
    at,         \* the file it is at
    pool,       \* it has a connection pool, and so its repositories
    begun,      \* history: containers that began to migrate
    trouble     \* history: the database failed, or a container was killed

dbVars == <<up, versioned, applied, ran>>
ownVars == <<pc, existing, at, pool>>
historyVars == <<begun, trouble>>
vars == <<dbVars, ownVars, historyVars>>

Migrating == {"connect", "prepare", "create", "read", "next", "sql", "insert", "commit"}
\* A container holds a connection that it cannot do without.
Connected == (Migrating \ {"connect"}) \cup {"preload", "overrides"}
Starting == Migrating \cup {"boot", "pool", "preload", "overrides"}
Ended == {"off", "done", "failed", "serving"}

TypeOK ==
    /\ up \in BOOLEAN /\ versioned \in BOOLEAN /\ trouble \in BOOLEAN
    /\ applied \in SUBSET Versions
    /\ ran \in [Versions -> Nat]
    /\ pc \in [Containers -> Starting \cup Ended]
    /\ existing \in [Containers -> SUBSET Versions]
    /\ at \in [Containers -> 1 .. Newest + 1]
    /\ pool \in [Containers -> BOOLEAN]
    /\ begun \in SUBSET Containers

Init ==
    /\ up = TRUE /\ versioned = FALSE /\ applied = {}
    /\ ran = [v \in Versions |-> 0]
    /\ pc = [c \in Containers |-> "off"]
    /\ existing = [c \in Containers |-> {}]
    /\ at = [c \in Containers |-> 1]
    /\ pool = [c \in Containers |-> FALSE]
    /\ begun = {} /\ trouble = FALSE

-----------------------------------------------------------------------------
(* Start and migrations.                                                   *)

GoOn(c, step) == pc' = [pc EXCEPT ![c] = step]
AtDatabase(c, step) == pc[c] = step /\ up

\* The entrypoint runs the command after the migrations, set -e or not.
BugAfterMigration(c, ok) == IF Kind[c] = "migrate" THEN "done" ELSE "boot"

\* The entrypoint goes on only if the migrations ended without an error.
AfterMigration(c, ok) ==
    CASE ~ok -> "failed"
      [] ok /\ Kind[c] = "migrate" -> "done"
      [] ok /\ Kind[c] # "migrate" -> "boot"

\* compose, or somebody by hand, starts a container.
Start(c) ==
    /\ pc[c] = "off"
    /\ c \in Waits => \E m \in Containers : Kind[m] = "migrate" /\ pc[m] = "done"
    /\ GoOn(c, IF c \in Migrators THEN "connect" ELSE "boot")
    /\ begun' = IF c \in Migrators THEN begun \cup {c} ELSE begun
    /\ UNCHANGED <<dbVars, existing, at, pool, trouble>>

Connect(c) ==
    /\ pc[c] = "connect"
    /\ GoOn(c, IF up THEN "prepare" ELSE AfterMigration(c, FALSE))
    /\ UNCHANGED <<dbVars, existing, at, pool, historyVars>>

\* create table if not exists looks first ...
Prepare(c) ==
    /\ AtDatabase(c, "prepare")
    /\ GoOn(c, IF versioned THEN "read" ELSE "create")
    /\ UNCHANGED <<dbVars, existing, at, pool, historyVars>>

\* ... and fails if another session has made the table since.
Create(c) ==
    /\ AtDatabase(c, "create")
    /\ versioned' = TRUE
    /\ GoOn(c, IF versioned THEN AfterMigration(c, FALSE) ELSE "read")
    /\ UNCHANGED <<up, applied, ran, existing, at, pool, historyVars>>

\* The versions are not read again.
Read(c) ==
    /\ AtDatabase(c, "read")
    /\ existing' = [existing EXCEPT ![c] = applied]
    /\ at' = [at EXCEPT ![c] = 1]
    /\ GoOn(c, "next")
    /\ UNCHANGED <<dbVars, pool, historyVars>>

\* The last file is overlooked.
BugMissing(c) == {v \in at[c] .. Release[c] - 1 : v \notin existing[c]}

\* There is one file more than the release has.
BugPastTheEnd(c) == {v \in at[c] .. Release[c] + 1 : v \notin existing[c]}

Missing(c) == {v \in at[c] .. Release[c] : v \notin existing[c]}

NextFile(c) ==
    /\ AtDatabase(c, "next")
    /\ IF Missing(c) = {}
       THEN /\ GoOn(c, AfterMigration(c, TRUE))
            /\ at' = [at EXCEPT ![c] = 1]
            /\ existing' = [existing EXCEPT ![c] = {}]
       ELSE /\ GoOn(c, "sql")
            /\ at' = [at EXCEPT ![c] = Min(Missing(c))]
            /\ UNCHANGED existing
    /\ UNCHANGED <<dbVars, pool, historyVars>>

\* Some other transaction has the locks of file v.
Locked(c, v) == \E d \in Containers \ {c} : pc[d] \in {"insert", "commit"} /\ at[d] = v

\* The SQL of a file changes nothing that is there, and waits for a transaction
\* that is making it.
Sql(c) ==
    /\ AtDatabase(c, "sql")
    /\ ~Locked(c, at[c])
    /\ GoOn(c, "insert")
    /\ UNCHANGED <<dbVars, existing, at, pool, historyVars>>

\* A version that is there already is tried again.
BugInsertRetried(c) ==
    /\ AtDatabase(c, "insert")
    /\ GoOn(c, IF at[c] \in applied THEN "sql" ELSE "commit")
    /\ UNCHANGED <<dbVars, existing, at, pool, historyVars>>

\* The primary key of schema_migrations refuses a version that is there, and the
\* transaction is rolled back.
Insert(c) ==
    /\ AtDatabase(c, "insert")
    /\ GoOn(c, IF at[c] \in applied THEN AfterMigration(c, FALSE) ELSE "commit")
    /\ UNCHANGED <<dbVars, existing, at, pool, historyVars>>

\* The SQL and the version are not one transaction: the version is lost.
BugCommit(c) ==
    /\ AtDatabase(c, "commit")
    /\ ran' = [ran EXCEPT ![at[c]] = @ + 1]
    /\ \/ GoOn(c, "next") /\ applied' = applied \cup {at[c]}
       \/ GoOn(c, "failed") /\ UNCHANGED applied
    /\ at' = [at EXCEPT ![c] = @ + 1]
    /\ UNCHANGED <<up, versioned, existing, pool, historyVars>>

Commit(c) ==
    /\ AtDatabase(c, "commit")
    /\ applied' = applied \cup {at[c]}
    /\ ran' = [ran EXCEPT ![at[c]] = @ + 1]
    /\ at' = [at EXCEPT ![c] = @ + 1]
    /\ GoOn(c, "next")
    /\ UNCHANGED <<up, versioned, existing, pool, historyVars>>

-----------------------------------------------------------------------------
(* Start of a service.                                                     *)

\* create_app puts the application together; a skill file that cannot be read
\* ends the process.
Boot(c) ==
    /\ pc[c] = "boot"
    /\ \E step \in {"pool", "failed"} : GoOn(c, step)
    /\ UNCHANGED <<dbVars, existing, at, pool, historyVars>>

\* create_pool returns None if the database cannot be reached, and the service
\* starts without it.
CreatePool(c) ==
    /\ pc[c] = "pool"
    /\ pool' = [pool EXCEPT ![c] = up]
    /\ GoOn(c, IF up THEN "preload" ELSE "serving")
    /\ UNCHANGED <<dbVars, existing, at, historyVars>>

\* A statement about a table that no migration has made yet raises.
Table(v) == v \in applied

Preload(c) ==
    /\ AtDatabase(c, "preload")
    /\ GoOn(c, CASE ~Table(Tombstones) -> "failed"
                 [] Table(Tombstones) /\ Kind[c] = "api" -> "overrides"
                 [] Table(Tombstones) /\ Kind[c] # "api" -> "serving")
    /\ UNCHANGED <<dbVars, existing, at, pool, historyVars>>

LoadOverrides(c) ==
    /\ AtDatabase(c, "overrides")
    /\ GoOn(c, IF Table(Governance) THEN "serving" ELSE "failed")
    /\ UNCHANGED <<dbVars, existing, at, pool, historyVars>>

-----------------------------------------------------------------------------
(* What goes wrong, and what people do.                                    *)

\* Every connection breaks, and whoever held one cannot go on.
DatabaseFails ==
    /\ up
    /\ up' = FALSE
    /\ pc' = [c \in Containers |-> IF pc[c] \in Connected THEN "failed" ELSE pc[c]]
    /\ trouble' = TRUE
    /\ UNCHANGED <<versioned, applied, ran, existing, at, pool, begun>>

DatabaseReturns ==
    /\ ~up
    /\ up' = TRUE
    /\ UNCHANGED <<versioned, applied, ran, ownVars, historyVars>>

\* Postgres rolls back what a killed container has not committed.
Crash(c) ==
    /\ pc[c] \in Starting \cup {"serving"}
    /\ GoOn(c, "failed")
    /\ trouble' = TRUE
    /\ UNCHANGED <<dbVars, existing, at, pool, begun>>

\* Somebody removes a container that has ended, or stops a service.
Stop(c) ==
    /\ pc[c] \in {"done", "failed", "serving"}
    /\ GoOn(c, "off")
    /\ existing' = [existing EXCEPT ![c] = {}]
    /\ at' = [at EXCEPT ![c] = 1]
    /\ pool' = [pool EXCEPT ![c] = FALSE]
    /\ UNCHANGED <<dbVars, historyVars>>

MigrationStep(c) ==
    Connect(c) \/ Prepare(c) \/ Create(c) \/ Read(c) \/ NextFile(c) \/ Insert(c) \/ Commit(c)
ServiceStep(c) == Boot(c) \/ CreatePool(c) \/ Preload(c) \/ LoadOverrides(c)

Next ==
    \/ \E c \in Containers :
        \/ Start(c) \/ MigrationStep(c) \/ Sql(c) \/ ServiceStep(c)
        \/ Crash(c) \/ Stop(c)
    \/ DatabaseFails \/ DatabaseReturns

\* A process that was started runs, and the locks of Postgres are granted in the
\* order in which they are asked for: nobody waits for ever.
Fairness ==
    \A c \in Containers :
        /\ WF_vars(MigrationStep(c)) /\ WF_vars(ServiceStep(c))
        /\ SF_vars(Sql(c))

Spec == Init /\ [][Next]_vars /\ Fairness

-----------------------------------------------------------------------------
(* Properties.                                                             *)

\* Whoever races, dies or returns: the SQL of a migration was committed exactly
\* once if its version is in the table and never otherwise, and no migration is
\* in force without those before it.
EachOnceInOrder ==
    \A v \in Versions :
        /\ ran[v] = IF v \in applied THEN 1 ELSE 0
        /\ v \in applied => \A u \in 1 .. v : u \in applied

\* Containers that migrate at the same time fail because of one another, but never
\* all of them: unless the database failed or one was killed, somebody's
\* migrations are all there in the end.
SomebodyFinishes ==
    ~trouble /\ begun # {} /\ (\A c \in Containers : pc[c] \notin Migrating) =>
        \E c \in begun : 1 .. Release[c] \subseteq applied

\* A service that waited for migrate never runs on an older schema than it was
\* built for, and one with a database has the tables of what it loads.
ServesOnItsSchema ==
    \A c \in Containers :
        /\ c \in Waits /\ pc[c] \in Starting \cup {"serving"} =>
            1 .. Release[c] \subseteq applied
        /\ pc[c] = "serving" /\ pool[c] =>
            Tombstones \in applied /\ (Kind[c] = "api" => Governance \in applied)

\* A container that was started serves, has done its work, or ends with an error.
StartsEnd == \A c \in Containers : pc[c] \in Starting ~> pc[c] \in Ended
=============================================================================
