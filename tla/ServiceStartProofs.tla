-------------------------- MODULE ServiceStartProofs --------------------------
(***************************************************************************)
(* Proofs about ServiceStart, for any number of containers of any releases *)
(* and any set of them that migrate or wait.                               *)
(*                                                                         *)
(* Migrations are in order because a container that is at a file has found *)
(* or applied all those before it (FilesInv), and are applied once because *)
(* two transactions never have the same file (LocksInv).  Somebody always  *)
(* finishes: whoever created the table or committed last is Ahead, and no  *)
(* version is in force that would make it fail.                            *)
(***************************************************************************)
EXTENDS ServiceStart, WellFoundedInduction, TLAPS

InTransaction == {"insert", "commit"}
AtFile == {"sql", "insert", "commit"}

FilesInv ==
    \A c \in Containers :
        /\ existing[c] \subseteq applied
        /\ pc[c] \in {"next", "sql", "insert", "commit"} =>
              \A v \in Versions : v < at[c] => v \in applied
        /\ pc[c] \in AtFile => at[c] \in 1 .. Release[c] /\ at[c] \notin existing[c]
        /\ pc[c] = "next" => at[c] \in 1 .. Release[c] + 1
        /\ pc[c] = "commit" => at[c] \notin applied

LocksInv ==
    \A c, d \in Containers :
        pc[c] \in InTransaction /\ pc[d] \in InTransaction /\ at[c] = at[d] => c = d

Finished(c) == 1 .. Release[c] \subseteq applied

\* Nothing that is there makes c fail.
Ahead(c) ==
    \/ pc[c] \in {"connect", "prepare", "read"}
    \/ pc[c] = "create" /\ ~ versioned
    \/ pc[c] \in {"next", "sql", "insert", "commit"} /\
         \A v \in applied : v >= at[c] => v \in existing[c]

AheadInv ==
    /\ \A c \in Containers : pc[c] \in Migrating => c \in begun
    /\ ~ up => trouble
    /\ ~ trouble /\ begun # {} => \E c \in begun : Ahead(c) \/ Finished(c)

DoneInv ==
    \A c \in Containers :
        /\ pc[c] = "done" => Kind[c] = "migrate" /\ Finished(c)
        /\ pc[c] = "overrides" => Tombstones \in applied

IInv ==
    /\ TypeOK /\ FilesInv /\ LocksInv /\ EachOnceInOrder
    /\ AheadInv /\ DoneInv /\ ServesOnItsSchema

-----------------------------------------------------------------------------
(* Releases.                                                               *)

LEMMA NewestIsLast ==
    /\ Newest \in Nat \ {0}
    /\ \A c \in Containers : Release[c] \in Nat \ {0} /\ Release[c] <= Newest
<1> DEFINE R == {Release[c] : c \in Containers}
<1>1. \A c \in Containers : Release[c] \in Nat \ {0}
  BY ReleasesHaveFiles
<1>2. PICK c \in Containers : \A d \in Containers : Release[d] <= Release[c]
  BY SomeReleaseIsNewest
<1>3. \E x \in R : \A y \in R : x >= y
  <2>1. Release[c] \in R /\ \A y \in R : Release[c] >= y
    BY <1>1, <1>2
  <2> QED BY <2>1
<1>4. Newest = CHOOSE x \in R : \A y \in R : x >= y
  BY DEF Newest, Max
<1>5. Newest \in R /\ \A y \in R : Newest >= y
  BY <1>3, <1>4, Zenon
<1> QED BY <1>1, <1>5

\* The first file that is missing.
LEMMA MinIsFirst ==
    ASSUME NEW S \in SUBSET Nat, S # {}
    PROVE  Min(S) \in S /\ \A y \in S : Min(S) <= y
<1>1. PICK x \in S : \A y \in S : <<y, x>> \notin OpToRel(<, Nat)
  BY WFMin, NatLessThanWellFounded, Zenon
<1>2. \A y \in S : ~ (y < x)
  BY <1>1, Zenon DEF OpToRel
<1>3. \E z \in S : \A y \in S : z <= y
  BY <1>2
<1> QED BY <1>3 DEF Min

LEMMA MissingIsFirst ==
    ASSUME TypeOK, NEW c \in Containers, Missing(c) # {}
    PROVE  /\ Min(Missing(c)) \in Missing(c)
           /\ \A v \in at[c] .. Min(Missing(c)) - 1 : v \in existing[c]
           /\ Min(Missing(c)) \in Versions
<1> USE NewestIsLast
<1>1. Missing(c) \in SUBSET Nat
  BY DEF Missing, TypeOK
<1>2. Min(Missing(c)) \in Missing(c) /\ \A y \in Missing(c) : Min(Missing(c)) <= y
  BY <1>1, MinIsFirst
<1>3. Min(Missing(c)) \in at[c] .. Release[c] /\ at[c] \in 1 .. Newest + 1
  BY <1>2 DEF Missing, TypeOK
<1> DEFINE m == Min(Missing(c))
<1> HIDE DEF m
<1>4. ASSUME NEW v \in at[c] .. m - 1
      PROVE  v \in existing[c]
  <2>1. m \in at[c] .. Release[c] /\ at[c] \in 1 .. Newest + 1 /\ \A y \in Missing(c) : m <= y
    BY <1>2, <1>3 DEF m
  <2>2. v \in at[c] .. Release[c] /\ ~ (m <= v)
    BY <2>1
  <2> QED BY <2>1, <2>2 DEF Missing
<1>5. m \in Versions
  BY <1>3 DEF m, Versions
<1> QED BY <1>2, <1>4, <1>5 DEF m

-----------------------------------------------------------------------------
LEMMA TypeInit == Init => TypeOK
<1> SUFFICES ASSUME Init PROVE TypeOK
  OBVIOUS
<1>1. 1 \in 1 .. Newest + 1
  BY NewestIsLast
<1>2. at \in [Containers -> 1 .. Newest + 1]
  BY <1>1 DEF Init
<1>3. pc \in [Containers -> Starting \cup Ended]
  BY DEF Init, Ended
<1> QED BY <1>2, <1>3 DEF Init, TypeOK

LEMMA TypeNext == TypeOK /\ FilesInv /\ [Next]_vars => TypeOK'
<1> SUFFICES ASSUME TypeOK, FilesInv, [Next]_vars PROVE TypeOK'
  OBVIOUS
<1> USE NewestIsLast DEF dbVars, ownVars, historyVars
<1>1. \A c \in Containers, ok \in BOOLEAN : AfterMigration(c, ok) \in Starting \cup Ended
  BY DEF AfterMigration, Starting, Ended
<1>2. ASSUME NEW c \in Containers, NEW step \in Starting \cup Ended, GoOn(c, step)
      PROVE  pc' \in [Containers -> Starting \cup Ended]
  BY <1>2 DEF TypeOK, GoOn
<1>3. Migrating \cup {"boot", "pool", "preload", "overrides"} \cup Ended = Starting \cup Ended
  BY DEF Starting
<1>4. ASSUME NEW c \in Containers, MigrationStep(c) \/ Sql(c) \/ ServiceStep(c) \/ Start(c) \/ Crash(c)
      PROVE  pc' \in [Containers -> Starting \cup Ended]
  <2>1. \E step \in Starting \cup Ended : GoOn(c, step)
    <3>1. CASE Start(c) \/ Connect(c) \/ Prepare(c) \/ Create(c) \/ Read(c)
      BY <1>1, <3>1 DEF Start, Connect, Prepare, Create, Read, Starting, Migrating
    <3>2. CASE NextFile(c) \/ Sql(c) \/ Insert(c) \/ Commit(c)
      BY <1>1, <3>2 DEF NextFile, Sql, Insert, Commit, Starting, Migrating
    <3>3. CASE Boot(c) \/ CreatePool(c) \/ Preload(c) \/ LoadOverrides(c) \/ Crash(c)
      BY <3>3 DEF Boot, CreatePool, Preload, LoadOverrides, Crash, Starting, Ended
    <3> QED BY <1>4, <3>1, <3>2, <3>3 DEF MigrationStep, ServiceStep
  <2> QED BY <1>2, <2>1
<1>5. ASSUME NEW c \in Containers,
             Start(c) \/ Connect(c) \/ Prepare(c) \/ Create(c) \/ Sql(c) \/ Insert(c) \/ Crash(c)
      PROVE  TypeOK'
  <2>1. pc' \in [Containers -> Starting \cup Ended]
    BY <1>4, <1>5 DEF MigrationStep
  <2> QED BY <1>5, <2>1 DEF TypeOK, Start, Connect, Prepare, Create, Sql, Insert, Crash
<1>6. ASSUME NEW c \in Containers, Boot(c) \/ CreatePool(c) \/ Preload(c) \/ LoadOverrides(c)
      PROVE  TypeOK'
  <2>1. pc' \in [Containers -> Starting \cup Ended]
    BY <1>4, <1>6 DEF ServiceStep
  <2> QED BY <1>6, <2>1 DEF TypeOK, Boot, CreatePool, Preload, LoadOverrides
<1>7. ASSUME NEW c \in Containers, Read(c) PROVE TypeOK'
  <2>1. pc' \in [Containers -> Starting \cup Ended]
    BY <1>4, <1>7 DEF MigrationStep
  <2>2. 1 \in 1 .. Newest + 1
    OBVIOUS
  <2>3. at' \in [Containers -> 1 .. Newest + 1] /\ existing' \in [Containers -> SUBSET Versions]
    BY <1>7, <2>2 DEF TypeOK, Read
  <2> QED BY <1>7, <2>1, <2>3 DEF TypeOK, Read
<1>8. ASSUME NEW c \in Containers, NextFile(c) PROVE TypeOK'
  <2>1. pc' \in [Containers -> Starting \cup Ended]
    BY <1>4, <1>8 DEF MigrationStep
  <2>2. Missing(c) # {} => Min(Missing(c)) \in 1 .. Newest + 1
    BY MissingIsFirst DEF Versions
  <2>5. \E v \in 1 .. Newest + 1 : at' = [at EXCEPT ![c] = v]
    <3>1. 1 \in 1 .. Newest + 1
      OBVIOUS
    <3> QED BY <1>8, <2>2, <3>1 DEF NextFile
  <2>3. at' \in [Containers -> 1 .. Newest + 1]
    BY <2>5 DEF TypeOK
  <2>4. existing' \in [Containers -> SUBSET Versions]
    BY <1>8 DEF TypeOK, NextFile
  <2> QED BY <1>8, <2>1, <2>3, <2>4 DEF TypeOK, NextFile
<1>9. ASSUME NEW c \in Containers, Commit(c) PROVE TypeOK'
  <2>1. pc' \in [Containers -> Starting \cup Ended]
    BY <1>4, <1>9 DEF MigrationStep
  <2>5. at[c] \in Versions
    BY <1>9 DEF Commit, AtDatabase, FilesInv, AtFile, Versions
  <2>2. at[c] + 1 \in 1 .. Newest + 1
    BY <2>5 DEF Versions
  <2>3. at' \in [Containers -> 1 .. Newest + 1]
    BY <1>9, <2>2 DEF TypeOK, Commit
  <2>4. ran' \in [Versions -> Nat] /\ applied' \in SUBSET Versions
    BY <1>9, <2>5 DEF TypeOK, Commit
  <2> QED BY <1>9, <2>1, <2>3, <2>4 DEF TypeOK, Commit
<1>10. CASE DatabaseFails
  <2>1. pc' \in [Containers -> Starting \cup Ended]
    BY <1>10 DEF TypeOK, DatabaseFails, Ended
  <2> QED BY <1>10, <2>1 DEF TypeOK, DatabaseFails
<1>11. CASE DatabaseReturns
  BY <1>11 DEF TypeOK, DatabaseReturns
<1>12. ASSUME NEW c \in Containers, Stop(c) PROVE TypeOK'
  BY <1>12 DEF TypeOK, Stop, GoOn, Ended
<1>13. CASE UNCHANGED vars
  BY <1>13 DEF TypeOK, vars
<1> QED BY <1>5, <1>6, <1>7, <1>8, <1>9, <1>10, <1>11, <1>12, <1>13 DEF Next, MigrationStep, ServiceStep

-----------------------------------------------------------------------------
(* What a step does to the container that takes it, and to the others.     *)

Keeps(c) == at'[c] = at[c] /\ existing'[c] = existing[c] /\ pool'[c] = pool[c]
OwnStep(c) == Start(c) \/ MigrationStep(c) \/ Sql(c) \/ ServiceStep(c) \/ Crash(c) \/ Stop(c)

LEMMA OthersStay ==
    ASSUME TypeOK, NEW c \in Containers, NEW d \in Containers \ {c}, OwnStep(c)
    PROVE  pc'[d] = pc[d] /\ Keeps(d)
<1> USE DEF TypeOK, Keeps, GoOn
<1>1. CASE Start(c) \/ Crash(c) \/ Stop(c) \/ Sql(c)
  BY <1>1 DEF Start, Crash, Stop, Sql
<1>2. CASE MigrationStep(c)
  BY <1>2 DEF MigrationStep, Connect, Prepare, Create, Read, NextFile, Insert, Commit
<1>3. CASE ServiceStep(c)
  BY <1>3 DEF ServiceStep, Boot, CreatePool, Preload, LoadOverrides
<1> QED BY <1>1, <1>2, <1>3 DEF OwnStep

LEMMA NextIsSomebodys ==
    ASSUME [Next]_vars
    PROVE  \/ \E c \in Containers : OwnStep(c)
           \/ DatabaseFails \/ DatabaseReturns \/ UNCHANGED vars
BY DEF Next, OwnStep

\* The steps that leave the tables of migrations alone.
LEMMA TablesStay ==
    ASSUME NEW c \in Containers, OwnStep(c), ~ Commit(c)
    PROVE  applied' = applied /\ ran' = ran /\ (Create(c) \/ versioned' = versioned)
<1> USE DEF dbVars
<1>1. CASE Start(c) \/ Crash(c) \/ Stop(c) \/ Sql(c)
  BY <1>1 DEF Start, Crash, Stop, Sql
<1>2. CASE MigrationStep(c)
  BY <1>2 DEF MigrationStep, Connect, Prepare, Create, Read, NextFile, Insert
<1>3. CASE ServiceStep(c)
  BY <1>3 DEF ServiceStep, Boot, CreatePool, Preload, LoadOverrides
<1> QED BY <1>1, <1>2, <1>3 DEF OwnStep

LEMMA AppliedGrows == [Next]_vars => applied \subseteq applied'
<1> SUFFICES ASSUME [Next]_vars PROVE applied \subseteq applied'
  OBVIOUS
<1>1. ASSUME NEW c \in Containers, OwnStep(c) PROVE applied \subseteq applied'
  BY <1>1, TablesStay DEF Commit
<1>2. CASE DatabaseFails \/ DatabaseReturns \/ UNCHANGED vars
  BY <1>2 DEF DatabaseFails, DatabaseReturns, vars, dbVars
<1> QED BY <1>1, <1>2, NextIsSomebodys

\* The steps before the first file ...
LEMMA EarlyEffect ==
    ASSUME TypeOK, NEW c \in Containers
    PROVE  /\ Start(c) => /\ pc[c] = "off" /\ Keeps(c)
                          /\ pc'[c] = IF c \in Migrators THEN "connect" ELSE "boot"
           /\ Connect(c) => /\ pc[c] = "connect" /\ Keeps(c)
                            /\ pc'[c] = IF up THEN "prepare" ELSE "failed"
           /\ Prepare(c) => /\ pc[c] = "prepare" /\ Keeps(c)
                            /\ pc'[c] = IF versioned THEN "read" ELSE "create"
           /\ Create(c) => /\ pc[c] = "create" /\ Keeps(c)
                           /\ pc'[c] = IF versioned THEN "failed" ELSE "read"
           /\ Read(c) => /\ pc[c] = "read" /\ pc'[c] = "next"
                         /\ at'[c] = 1 /\ existing'[c] = applied /\ pool'[c] = pool[c]
<1> USE DEF TypeOK, Keeps, GoOn, AtDatabase
<1>1. Start(c) => /\ pc[c] = "off" /\ Keeps(c)
                  /\ pc'[c] = IF c \in Migrators THEN "connect" ELSE "boot"
  BY DEF Start
<1>2. Connect(c) => /\ pc[c] = "connect" /\ Keeps(c)
                    /\ pc'[c] = IF up THEN "prepare" ELSE "failed"
  BY DEF Connect, AfterMigration
<1>3. Prepare(c) => /\ pc[c] = "prepare" /\ Keeps(c)
                    /\ pc'[c] = IF versioned THEN "read" ELSE "create"
  BY DEF Prepare
<1>4. Create(c) => /\ pc[c] = "create" /\ Keeps(c)
                   /\ pc'[c] = IF versioned THEN "failed" ELSE "read"
  BY DEF Create, AfterMigration
<1>5. Read(c) => /\ pc[c] = "read" /\ pc'[c] = "next"
                 /\ at'[c] = 1 /\ existing'[c] = applied /\ pool'[c] = pool[c]
  BY DEF Read
<1> QED BY <1>1, <1>2, <1>3, <1>4, <1>5

\* ... the steps of a file ...
LEMMA FileEffect ==
    ASSUME TypeOK, NEW c \in Containers
    PROVE  /\ NextFile(c) /\ Missing(c) = {} =>
                /\ pc[c] = "next"
                /\ pc'[c] = IF Kind[c] = "migrate" THEN "done" ELSE "boot"
           /\ NextFile(c) /\ Missing(c) # {} =>
                /\ pc[c] = "next" /\ pc'[c] = "sql"
                /\ at'[c] = Min(Missing(c)) /\ existing'[c] = existing[c]
           /\ Sql(c) => pc[c] = "sql" /\ pc'[c] = "insert" /\ Keeps(c)
           /\ Insert(c) => /\ pc[c] = "insert" /\ Keeps(c)
                           /\ pc'[c] = IF at[c] \in applied THEN "failed" ELSE "commit"
           /\ Commit(c) => /\ pc[c] = "commit" /\ pc'[c] = "next" /\ at'[c] = at[c] + 1
                           /\ existing'[c] = existing[c] /\ pool'[c] = pool[c]
                           /\ applied' = applied \cup {at[c]}
           /\ NextFile(c) => pool'[c] = pool[c]
<1> USE DEF TypeOK, Keeps, GoOn, AtDatabase
<1>1. NextFile(c) /\ Missing(c) = {} =>
                /\ pc[c] = "next"
                /\ pc'[c] = IF Kind[c] = "migrate" THEN "done" ELSE "boot"
  BY DEF NextFile, AfterMigration
<1>2. NextFile(c) /\ Missing(c) # {} =>
                /\ pc[c] = "next" /\ pc'[c] = "sql"
                /\ at'[c] = Min(Missing(c)) /\ existing'[c] = existing[c]
  BY DEF NextFile
<1>3. Sql(c) => pc[c] = "sql" /\ pc'[c] = "insert" /\ Keeps(c)
  BY DEF Sql
<1>4. Insert(c) => /\ pc[c] = "insert" /\ Keeps(c)
                   /\ pc'[c] = IF at[c] \in applied THEN "failed" ELSE "commit"
  BY DEF Insert, AfterMigration
<1>5. Commit(c) => /\ pc[c] = "commit" /\ pc'[c] = "next" /\ at'[c] = at[c] + 1
                   /\ existing'[c] = existing[c] /\ pool'[c] = pool[c]
                   /\ applied' = applied \cup {at[c]}
  BY DEF Commit
<1>6. NextFile(c) => pool'[c] = pool[c]
  BY DEF NextFile
<1> QED BY <1>1, <1>2, <1>3, <1>4, <1>5, <1>6

\* ... and those of a service.
LEMMA ServiceEffect ==
    ASSUME TypeOK, NEW c \in Containers
    PROVE  /\ Boot(c) => pc[c] = "boot" /\ pc'[c] \in {"pool", "failed"} /\ pool'[c] = pool[c]
           /\ CreatePool(c) => /\ pc[c] = "pool" /\ pool'[c] = up
                               /\ pc'[c] = IF up THEN "preload" ELSE "serving"
           /\ Preload(c) => /\ pc[c] = "preload" /\ pool'[c] = pool[c]
                            /\ \/ pc'[c] = "failed"
                               \/ /\ Tombstones \in applied
                                  /\ pc'[c] = IF Kind[c] = "api" THEN "overrides" ELSE "serving"
           /\ LoadOverrides(c) => /\ pc[c] = "overrides" /\ pool'[c] = pool[c]
                                  /\ \/ pc'[c] = "failed"
                                     \/ Governance \in applied /\ pc'[c] = "serving"
           /\ Crash(c) => pc'[c] = "failed" /\ trouble'
           /\ Stop(c) => pc[c] \in {"done", "failed", "serving"} /\ pc'[c] = "off"
<1> USE DEF TypeOK, GoOn, AtDatabase
<1>1. Boot(c) => pc[c] = "boot" /\ pc'[c] \in {"pool", "failed"} /\ pool'[c] = pool[c]
  BY DEF Boot
<1>2. CreatePool(c) => /\ pc[c] = "pool" /\ pool'[c] = up
                       /\ pc'[c] = IF up THEN "preload" ELSE "serving"
  BY DEF CreatePool
<1>3. Preload(c) => /\ pc[c] = "preload" /\ pool'[c] = pool[c]
                    /\ \/ pc'[c] = "failed"
                       \/ /\ Tombstones \in applied
                          /\ pc'[c] = IF Kind[c] = "api" THEN "overrides" ELSE "serving"
  BY DEF Preload, Table
<1>4. LoadOverrides(c) => /\ pc[c] = "overrides" /\ pool'[c] = pool[c]
                          /\ \/ pc'[c] = "failed"
                             \/ Governance \in applied /\ pc'[c] = "serving"
  BY DEF LoadOverrides, Table
<1>5. Crash(c) => pc'[c] = "failed" /\ trouble'
  BY DEF Crash
<1>6. Stop(c) => pc[c] \in {"done", "failed", "serving"} /\ pc'[c] = "off"
  BY DEF Stop
<1> QED BY <1>1, <1>2, <1>3, <1>4, <1>5, <1>6

-----------------------------------------------------------------------------
(* Steps of nobody, or of a container that has no part in migrations.      *)

LEMMA NoOnesStep ==
    ASSUME TypeOK, NEW d \in Containers,
           \/ DatabaseFails \/ DatabaseReturns \/ UNCHANGED vars
    PROVE  /\ (pc'[d] = pc[d] \/ pc'[d] = "failed") /\ Keeps(d)
           /\ applied' = applied /\ ran' = ran /\ versioned' = versioned /\ begun' = begun
           /\ up /\ ~ trouble' => pc'[d] = pc[d]
<1> USE DEF ownVars, Keeps
<1>1. CASE DatabaseFails
  <2>1. pc'[d] = IF pc[d] \in Connected THEN "failed" ELSE pc[d]
    BY <1>1 DEF DatabaseFails
  <2> QED BY <1>1, <2>1 DEF DatabaseFails
<1>2. CASE DatabaseReturns \/ UNCHANGED vars
  BY <1>2 DEF DatabaseReturns, vars, dbVars, historyVars
<1> QED BY <1>1, <1>2

LEMMA FilesInit == Init => FilesInv /\ LocksInv
BY DEF Init, FilesInv, LocksInv, AtFile, InTransaction

FilesOf(d) ==
    /\ existing[d] \subseteq applied
    /\ pc[d] \in {"next", "sql", "insert", "commit"} =>
          \A v \in Versions : v < at[d] => v \in applied
    /\ pc[d] \in AtFile => at[d] \in 1 .. Release[d] /\ at[d] \notin existing[d]
    /\ pc[d] = "next" => at[d] \in 1 .. Release[d] + 1
    /\ pc[d] = "commit" => at[d] \notin applied

\* The container that moves still knows of no file that is not there.
LEMMA FilesOfMover ==
    ASSUME TypeOK, FilesInv, NEW c \in Containers, OwnStep(c), applied \subseteq applied'
    PROVE  FilesOf(c)'
<1> USE NewestIsLast DEF FilesOf, AtFile
<1>0. FilesOf(c) /\ at[c] \in 1 .. Newest + 1 /\ Release[c] \in Nat \ {0}
  BY DEF FilesInv, TypeOK
<1>1. CASE Start(c) \/ Connect(c) \/ Prepare(c) \/ Create(c)
  <2>1. Keeps(c) /\ pc'[c] \in {"connect", "boot", "prepare", "failed", "read", "create"}
    BY <1>1, EarlyEffect
  <2> QED BY <1>0, <2>1 DEF Keeps
<1>2. CASE Read(c)
  <2>1. pc'[c] = "next" /\ at'[c] = 1 /\ existing'[c] = applied
    BY <1>2, EarlyEffect
  <2>2. \A v \in Versions : ~ (v < 1)
    BY DEF Versions
  <2> QED BY <1>0, <2>1, <2>2
<1>3. CASE NextFile(c) /\ Missing(c) # {}
  <2>1. pc[c] = "next" /\ pc'[c] = "sql" /\ at'[c] = Min(Missing(c)) /\ existing'[c] = existing[c]
    BY <1>3, FileEffect
  <2>2. /\ Min(Missing(c)) \in Missing(c)
        /\ \A v \in at[c] .. Min(Missing(c)) - 1 : v \in existing[c]
    BY <1>3, MissingIsFirst
  <2>3. at'[c] \in 1 .. Release[c] /\ at'[c] \notin existing[c]
    <3>1. at'[c] \in Missing(c)
      BY <2>1, <2>2, Zenon
    <3>2. \A v \in Missing(c) : v \in 1 .. Release[c] /\ v \notin existing[c]
      BY <1>0 DEF Missing
    <3> QED BY <3>1, <3>2
  <2>4. ASSUME NEW v \in Versions, v < at'[c] PROVE v \in applied'
    <3>1. v < at[c] \/ v \in at[c] .. Min(Missing(c)) - 1
      BY <1>0, <2>1, <2>3, <2>4 DEF Versions
    <3> QED BY <1>0, <2>1, <2>2, <3>1
  <2> QED BY <1>0, <2>1, <2>3, <2>4
<1>4. CASE NextFile(c) /\ Missing(c) = {}
  <2>1. pc'[c] \in {"done", "boot"}
    BY <1>4, FileEffect
  <2>2. existing'[c] = {}
    BY <1>4 DEF NextFile, TypeOK
  <2> QED BY <2>1, <2>2
<1>5. CASE Sql(c) \/ Insert(c)
  <2>1. /\ Keeps(c) /\ pc[c] \in {"sql", "insert"}
        /\ pc'[c] \in {"insert", "failed", "commit"}
        /\ pc'[c] = "commit" => at[c] \notin applied
    BY <1>5, FileEffect
  <2>2. applied' = applied
    BY <1>5 DEF Sql, Insert, dbVars
  <2> QED BY <1>0, <2>1, <2>2 DEF Keeps
<1>6. CASE Commit(c)
  <2>1. /\ pc[c] = "commit" /\ pc'[c] = "next" /\ at'[c] = at[c] + 1
        /\ existing'[c] = existing[c] /\ applied' = applied \cup {at[c]}
    BY <1>6, FileEffect
  <2>2. at'[c] \in 1 .. Release[c] + 1
    BY <1>0, <2>1
  <2>3. ASSUME NEW v \in Versions, v < at'[c] PROVE v \in applied'
    <3>1. v < at[c] \/ v = at[c]
      BY <1>0, <2>1, <2>3 DEF Versions
    <3> QED BY <1>0, <2>1, <3>1
  <2> QED BY <1>0, <2>1, <2>2, <2>3
<1>7. CASE ServiceStep(c) \/ Crash(c) \/ Stop(c)
  <2>1. pc'[c] \in {"pool", "failed", "preload", "serving", "overrides", "off"}
    BY <1>7, ServiceEffect DEF ServiceStep
  <2>2. existing'[c] \subseteq existing[c]
    <3>1. CASE Stop(c)
      BY <3>1 DEF Stop, TypeOK
    <3>2. CASE Boot(c) \/ CreatePool(c) \/ Preload(c) \/ LoadOverrides(c) \/ Crash(c)
      <4>1. existing' = existing
        BY <3>2 DEF Boot, CreatePool, Preload, LoadOverrides, Crash
      <4> QED BY <4>1
    <3> QED BY <1>7, <3>1, <3>2 DEF ServiceStep
  <2> QED BY <1>0, <2>1, <2>2
<1> QED BY <1>1, <1>2, <1>3, <1>4, <1>5, <1>6, <1>7 DEF OwnStep, MigrationStep

LEMMA FilesNext == TypeOK /\ FilesInv /\ LocksInv /\ [Next]_vars => FilesInv'
<1> SUFFICES ASSUME TypeOK, FilesInv, LocksInv, [Next]_vars, NEW d \in Containers
             PROVE  FilesOf(d)'
  BY DEF FilesInv, FilesOf
<1>0. applied \subseteq applied' /\ FilesOf(d)
  BY AppliedGrows DEF FilesInv, FilesOf
<1>1. ASSUME NEW c \in Containers, OwnStep(c), c # d PROVE FilesOf(d)'
  <2>1. pc'[d] = pc[d] /\ Keeps(d)
    BY <1>1, OthersStay
  <2>2. pc[d] = "commit" => at[d] \notin applied'
    <3>1. CASE Commit(c)
      <4>1. pc[c] = "commit" /\ applied' = applied \cup {at[c]}
        BY <3>1, FileEffect
      <4>2. pc[d] = "commit" => at[c] # at[d]
        BY <1>1, <4>1 DEF LocksInv, InTransaction
      <4> QED BY <1>0, <4>1, <4>2 DEF FilesOf
    <3>2. CASE ~ Commit(c)
      BY <1>0, <1>1, <3>2, TablesStay DEF FilesOf
    <3> QED BY <3>1, <3>2
  <2> QED BY <1>0, <2>1, <2>2 DEF FilesOf, Keeps, AtFile
<1>2. ASSUME NEW c \in Containers, OwnStep(c), c = d PROVE FilesOf(d)'
  BY <1>0, <1>2, FilesOfMover
<1>3. CASE \/ DatabaseFails \/ DatabaseReturns \/ UNCHANGED vars
  <2>1. (pc'[d] = pc[d] \/ pc'[d] = "failed") /\ Keeps(d) /\ applied' = applied
    BY <1>3, NoOnesStep
  <2> QED BY <1>0, <2>1 DEF FilesOf, Keeps, AtFile
<1> QED BY <1>1, <1>2, <1>3, NextIsSomebodys

\* Whoever enters a transaction was not locked out of its file.
LEMMA LocksNext == TypeOK /\ LocksInv /\ [Next]_vars => LocksInv'
<1> SUFFICES ASSUME TypeOK, LocksInv, [Next]_vars PROVE LocksInv'
  OBVIOUS
<1>1. ASSUME NEW c \in Containers, OwnStep(c) PROVE LocksInv'
  <2>1. pc'[c] \in InTransaction =>
            /\ at'[c] = at[c]
            /\ pc[c] \in InTransaction \/ ~ Locked(c, at[c])
    <3>1. CASE Start(c) \/ Connect(c) \/ Prepare(c) \/ Create(c) \/ Read(c)
      BY <3>1, EarlyEffect DEF InTransaction
    <3>2. CASE NextFile(c) \/ Commit(c)
      BY <3>2, FileEffect DEF InTransaction
    <3>3. CASE Sql(c)
      BY <3>3, FileEffect DEF Sql, Keeps
    <3>4. CASE Insert(c)
      BY <3>4, FileEffect DEF InTransaction, Keeps
    <3>5. CASE ServiceStep(c) \/ Crash(c) \/ Stop(c)
      BY <3>5, ServiceEffect DEF ServiceStep, InTransaction
    <3> QED BY <1>1, <3>1, <3>2, <3>3, <3>4, <3>5 DEF OwnStep, MigrationStep
  <2>2. ASSUME NEW d \in Containers \ {c}, pc'[c] \in InTransaction, pc'[d] \in InTransaction
        PROVE  at'[c] # at'[d]
    <3>1. pc[d] \in InTransaction /\ at'[d] = at[d]
      BY <1>1, <2>2, OthersStay DEF Keeps
    <3> QED BY <2>1, <2>2, <3>1 DEF LocksInv, Locked, InTransaction
  <2>3. ASSUME NEW d \in Containers \ {c}, NEW e \in Containers \ {c},
               pc'[d] \in InTransaction, pc'[e] \in InTransaction, at'[d] = at'[e]
        PROVE  d = e
    BY <1>1, <2>3, OthersStay DEF LocksInv, Keeps
  <2> QED BY <2>2, <2>3 DEF LocksInv
<1>2. CASE \/ DatabaseFails \/ DatabaseReturns \/ UNCHANGED vars
  <2>1. \A d \in Containers : (pc'[d] = pc[d] \/ pc'[d] = "failed") /\ at'[d] = at[d]
    BY <1>2, NoOnesStep DEF Keeps
  <2> QED BY <2>1 DEF LocksInv, InTransaction
<1> QED BY <1>1, <1>2, NextIsSomebodys

LEMMA OrderInit == Init => EachOnceInOrder
BY DEF Init, EachOnceInOrder

LEMMA OrderNext == TypeOK /\ FilesInv /\ EachOnceInOrder /\ [Next]_vars => EachOnceInOrder'
<1> SUFFICES ASSUME TypeOK, FilesInv, EachOnceInOrder, [Next]_vars PROVE EachOnceInOrder'
  OBVIOUS
<1>1. ASSUME NEW c \in Containers, Commit(c) PROVE EachOnceInOrder'
  <2>1. /\ pc[c] = "commit" /\ applied' = applied \cup {at[c]}
        /\ ran' = [ran EXCEPT ![at[c]] = @ + 1]
    BY <1>1, FileEffect DEF Commit
  <2>2. /\ at[c] \in 1 .. Release[c] /\ at[c] \notin applied
        /\ \A v \in Versions : v < at[c] => v \in applied
    BY <2>1 DEF FilesInv, AtFile
  <2>3. at[c] \in Versions
    BY <2>2, NewestIsLast DEF Versions
  <2>4. ASSUME NEW v \in Versions PROVE ran'[v] = IF v \in applied' THEN 1 ELSE 0
    BY <2>1, <2>2, <2>3 DEF EachOnceInOrder, TypeOK
  <2>5. ASSUME NEW v \in Versions, v \in applied', NEW u \in 1 .. v PROVE u \in applied'
    <3>1. CASE v \in applied
      BY <2>1, <2>5, <3>1 DEF EachOnceInOrder
    <3>2. CASE v = at[c]
      <4>1. u \in Versions /\ (u < at[c] \/ u = at[c])
        BY <2>5, <3>2, NewestIsLast DEF Versions
      <4> QED BY <2>1, <2>2, <4>1
    <3> QED BY <2>1, <2>5, <3>1, <3>2
  <2> QED BY <2>4, <2>5 DEF EachOnceInOrder
<1>2. ASSUME NEW c \in Containers, OwnStep(c), ~ Commit(c) PROVE EachOnceInOrder'
  BY <1>2, TablesStay DEF EachOnceInOrder
<1>3. CASE \/ DatabaseFails \/ DatabaseReturns \/ UNCHANGED vars
  BY <1>3 DEF DatabaseFails, DatabaseReturns, vars, dbVars, EachOnceInOrder
<1> QED BY <1>1, <1>2, <1>3, NextIsSomebodys

-----------------------------------------------------------------------------
(* Somebody finishes.                                                      *)

LEMMA AheadInit == Init => AheadInv /\ DoneInv /\ ServesOnItsSchema
BY DEF Init, AheadInv, DoneInv, ServesOnItsSchema, Migrating, Starting

LEMMA FinishedStays ==
    ASSUME NEW c \in Containers, Finished(c), [Next]_vars
    PROVE  Finished(c)'
BY AppliedGrows DEF Finished

\* A container that is Ahead stays so, until it has Finished.
LEMMA AheadMoves ==
    ASSUME TypeOK, FilesInv, [Next]_vars, up, ~ trouble',
           NEW c \in Containers, Ahead(c), OwnStep(c)
    PROVE  Ahead(c)' \/ Finished(c)'
<1> USE NewestIsLast DEF Ahead
<1>1. CASE Start(c) \/ Connect(c) \/ Prepare(c)
  <2>1. Prepare(c) => versioned' = versioned
    BY DEF Prepare, dbVars
  <2> QED BY <1>1, <2>1, EarlyEffect
<1>2. CASE Create(c)
  BY <1>2, EarlyEffect
<1>3. CASE Read(c)
  <2>1. applied' = applied
    BY <1>3 DEF Read, dbVars
  <2> QED BY <1>3, <2>1, EarlyEffect
<1>4. CASE NextFile(c)
  <2>0. /\ applied' = applied /\ pc[c] = "next" /\ at[c] \in 1 .. Release[c] + 1
        /\ existing[c] \subseteq applied
        /\ \A v \in Versions : v < at[c] => v \in applied
        /\ \A v \in applied : v >= at[c] => v \in existing[c]
    BY <1>4 DEF NextFile, AtDatabase, dbVars, FilesInv
  <2>1. CASE Missing(c) = {}
    <3>1. ASSUME NEW v \in 1 .. Release[c] PROVE v \in applied
      <4>1. v \in Versions /\ (v < at[c] \/ v \in at[c] .. Release[c])
        BY <2>0 DEF Versions
      <4> QED BY <2>0, <2>1, <4>1 DEF Missing
    <3> QED BY <2>0, <3>1 DEF Finished
  <2>2. CASE Missing(c) # {}
    <3>1. pc'[c] = "sql" /\ at'[c] = Min(Missing(c)) /\ existing'[c] = existing[c]
      BY <1>4, <2>2, FileEffect
    <3>2. at'[c] \in at[c] .. Release[c]
      BY <2>2, <3>1, MissingIsFirst DEF Missing
    <3>3. ASSUME NEW v \in applied, v >= at'[c] PROVE v \in existing[c]
      <4>1. v \in Nat
        BY DEF TypeOK, Versions
      <4>2. v >= at[c]
        BY <2>0, <3>2, <3>3, <4>1
      <4> QED BY <2>0, <4>2
    <3> QED BY <2>0, <3>1, <3>3
  <2> QED BY <2>1, <2>2
<1>5. CASE Sql(c) \/ Insert(c)
  <2>1. /\ pc[c] \in {"sql", "insert"} /\ Keeps(c) /\ pc'[c] \in {"insert", "failed", "commit"}
        /\ pc'[c] = "failed" => at[c] \in applied
    BY <1>5, FileEffect
  <2>2. applied' = applied
    BY <1>5 DEF Sql, Insert, dbVars
  <2>3. at[c] \notin existing[c] /\ at[c] \in Nat
    BY <2>1 DEF FilesInv, AtFile, TypeOK
  <2>4. \A v \in applied : v >= at[c] => v \in existing[c]
    BY <2>1
  <2>5. at[c] \notin applied
    BY <2>3, <2>4
  <2> QED BY <2>1, <2>2, <2>4, <2>5 DEF Keeps
<1>6. CASE Commit(c)
  <2>1. /\ pc[c] = "commit" /\ pc'[c] = "next" /\ at'[c] = at[c] + 1
        /\ existing'[c] = existing[c] /\ applied' = applied \cup {at[c]}
    BY <1>6, FileEffect
  <2>2. at[c] \in Nat /\ applied \subseteq Nat
    BY DEF TypeOK, Versions
  <2>3. ASSUME NEW v \in applied', v >= at[c] + 1 PROVE v \in existing[c]
    <3>1. v \in applied /\ v >= at[c]
      BY <2>1, <2>2, <2>3
    <3> QED BY <2>1, <3>1
  <2> QED BY <2>1, <2>3
<1>7. CASE ServiceStep(c) \/ Crash(c) \/ Stop(c)
  <2>1. ~ Crash(c)
    BY DEF Crash
  <2> QED BY <1>7, <2>1, ServiceEffect DEF ServiceStep
<1> QED BY <1>1, <1>2, <1>3, <1>4, <1>5, <1>6, <1>7 DEF OwnStep, MigrationStep

\* Whoever takes the lead from another has it: the table, or the version, is its own.
LEMMA AheadIsTaken ==
    ASSUME TypeOK, FilesInv, EachOnceInOrder,
           NEW c \in Containers, NEW w \in Containers \ {c}, Ahead(w), OwnStep(c)
    PROVE  Ahead(w)' \/ (Ahead(c)' /\ pc[c] \in Migrating)
<1>0. pc'[w] = pc[w] /\ Keeps(w)
  BY OthersStay
<1>1. CASE Commit(c)
  <2>1. /\ pc[c] = "commit" /\ pc'[c] = "next" /\ at'[c] = at[c] + 1
        /\ existing'[c] = existing[c] /\ applied' = applied \cup {at[c]}
    BY <1>1, FileEffect
  <2>2. at[c] \in Nat \ {0} /\ applied \subseteq Nat /\ at[c] \notin applied
    BY <2>1, NewestIsLast DEF TypeOK, Versions, FilesInv
  <2>3. ASSUME NEW v \in applied', v >= at[c] + 1 PROVE FALSE
    <3>1. v \in applied /\ v \in Versions /\ at[c] \in 1 .. v
      BY <2>1, <2>2, <2>3 DEF TypeOK
    <3> QED BY <2>2, <3>1 DEF EachOnceInOrder
  <2> QED BY <2>1, <2>3 DEF Ahead, Migrating
<1>2. CASE Create(c)
  <2>1. pc[c] = "create" /\ pc'[c] = IF versioned THEN "failed" ELSE "read"
    BY <1>2, EarlyEffect
  <2>2. versioned' = TRUE /\ applied' = applied
    BY <1>2 DEF Create
  <2>3. CASE versioned
    BY <1>0, <2>2, <2>3 DEF Ahead, Keeps
  <2>4. CASE ~ versioned
    BY <2>1, <2>4 DEF Ahead, Migrating
  <2> QED BY <2>3, <2>4
<1>3. CASE ~ Commit(c) /\ ~ Create(c)
  <2>1. applied' = applied /\ versioned' = versioned
    BY <1>3, TablesStay
  <2> QED BY <1>0, <2>1 DEF Ahead, Keeps
<1> QED BY <1>1, <1>2, <1>3

LEMMA BegunNext ==
    ASSUME TypeOK, [Next]_vars
    PROVE  /\ begun \subseteq begun'
           /\ begun' = begun \/ \E c \in Containers : Start(c) /\ Ahead(c)' /\ c \in begun'
           /\ trouble => trouble'
<1>1. ASSUME NEW c \in Containers, Start(c)
      PROVE  begun' = begun \/ (begun' = begun \cup {c} /\ Ahead(c)')
  BY <1>1, EarlyEffect DEF Start, Ahead
<1>2. ASSUME NEW c \in Containers, OwnStep(c), ~ Start(c) PROVE begun' = begun
  <2> USE DEF historyVars
  <2>1. CASE Crash(c) \/ Stop(c) \/ Sql(c)
    BY <2>1 DEF Crash, Stop, Sql
  <2>2. CASE MigrationStep(c)
    BY <2>2 DEF MigrationStep, Connect, Prepare, Create, Read, NextFile, Insert, Commit
  <2>3. CASE ServiceStep(c)
    BY <2>3 DEF ServiceStep, Boot, CreatePool, Preload, LoadOverrides
  <2> QED BY <1>2, <2>1, <2>2, <2>3 DEF OwnStep
<1>3. ASSUME NEW c \in Containers, OwnStep(c) PROVE trouble => trouble'
  <2> USE DEF historyVars
  <2>1. CASE Start(c) \/ Crash(c) \/ Stop(c) \/ Sql(c)
    BY <2>1 DEF Start, Crash, Stop, Sql
  <2>2. CASE MigrationStep(c)
    BY <2>2 DEF MigrationStep, Connect, Prepare, Create, Read, NextFile, Insert, Commit
  <2>3. CASE ServiceStep(c)
    BY <2>3 DEF ServiceStep, Boot, CreatePool, Preload, LoadOverrides
  <2> QED BY <1>3, <2>1, <2>2, <2>3 DEF OwnStep
<1>4. CASE \/ DatabaseFails \/ DatabaseReturns \/ UNCHANGED vars
  BY <1>4 DEF DatabaseFails, DatabaseReturns, vars, historyVars
<1> QED BY <1>1, <1>2, <1>3, <1>4, NextIsSomebodys

LEMMA AheadNext ==
    TypeOK /\ FilesInv /\ EachOnceInOrder /\ AheadInv /\ [Next]_vars => AheadInv'
<1> SUFFICES ASSUME TypeOK, FilesInv, EachOnceInOrder, AheadInv, [Next]_vars PROVE AheadInv'
  OBVIOUS
<1>1. ASSUME NEW d \in Containers, pc'[d] \in Migrating PROVE d \in begun'
  <2>1. CASE pc[d] \in Migrating
    BY <2>1, BegunNext DEF AheadInv
  <2>2. CASE pc[d] \notin Migrating
    <3>1. ASSUME NEW c \in Containers, OwnStep(c) PROVE d \in begun'
      <4>1. c = d
        BY <1>1, <2>2, <3>1, OthersStay
      <4>2. CASE Start(d)
        BY <1>1, <4>2, EarlyEffect DEF Start, Migrating
      <4>3. CASE Connect(d) \/ Prepare(d) \/ Create(d) \/ Read(d)
        BY <2>2, <4>3, EarlyEffect DEF Migrating
      <4>4. CASE NextFile(d) \/ Sql(d) \/ Insert(d) \/ Commit(d)
        BY <2>2, <4>4, FileEffect DEF Migrating
      <4>5. CASE ServiceStep(d) \/ Crash(d) \/ Stop(d)
        BY <1>1, <4>5, ServiceEffect DEF ServiceStep, Migrating
      <4> QED BY <3>1, <4>1, <4>2, <4>3, <4>4, <4>5 DEF OwnStep, MigrationStep
    <3>2. CASE \/ DatabaseFails \/ DatabaseReturns \/ UNCHANGED vars
      <4>1. pc'[d] = pc[d] \/ pc'[d] = "failed"
        BY <3>2, NoOnesStep
      <4> QED BY <1>1, <2>2, <4>1 DEF Migrating
    <3> QED BY <3>1, <3>2, NextIsSomebodys
  <2> QED BY <2>1, <2>2
<1>2. ~ up' => trouble'
  <2>1. CASE DatabaseFails
    BY <2>1 DEF DatabaseFails
  <2>2. CASE ~ DatabaseFails
    <3>1. up' = up \/ up'
      <4> USE DEF dbVars
      <4>1. ASSUME NEW c \in Containers, OwnStep(c) PROVE up' = up
        <5>1. CASE Start(c) \/ Crash(c) \/ Stop(c) \/ Sql(c)
          BY <5>1 DEF Start, Crash, Stop, Sql
        <5>2. CASE MigrationStep(c)
          BY <5>2 DEF MigrationStep, Connect, Prepare, Create, Read, NextFile, Insert, Commit
        <5>3. CASE ServiceStep(c)
          BY <5>3 DEF ServiceStep, Boot, CreatePool, Preload, LoadOverrides
        <5> QED BY <4>1, <5>1, <5>2, <5>3 DEF OwnStep
      <4>2. CASE \/ DatabaseReturns \/ UNCHANGED vars
        BY <4>2 DEF DatabaseReturns, vars
      <4> QED BY <2>2, <4>1, <4>2, NextIsSomebodys
    <3> QED BY <3>1, BegunNext DEF AheadInv
  <2> QED BY <2>1, <2>2
<1>3. ASSUME ~ trouble', begun' # {}
      PROVE  \E c \in begun' : Ahead(c)' \/ Finished(c)'
  <2>1. ~ trouble /\ up /\ begun \subseteq begun' /\ begun' \subseteq Containers
    <3>1. FilesInv /\ TypeOK'
      BY TypeNext
    <3> QED BY <1>3, <3>1, BegunNext DEF AheadInv, TypeOK
  <2>2. CASE begun' # begun
    BY <2>2, BegunNext
  <2>3. CASE begun' = begun
    <3>1. PICK w \in begun : Ahead(w) \/ Finished(w)
      BY <1>3, <2>1, <2>3 DEF AheadInv
    <3>2. w \in Containers /\ w \in begun'
      BY <2>1, <3>1
    <3>3. CASE Finished(w)
      BY <3>2, <3>3, FinishedStays
    <3>4. ASSUME Ahead(w), NEW c \in Containers, OwnStep(c)
          PROVE  \E d \in begun' : Ahead(d)' \/ Finished(d)'
      <4>1. CASE c = w
        BY <1>3, <2>1, <3>2, <3>4, <4>1, AheadMoves
      <4>2. CASE c # w
        <5>1. Ahead(w)' \/ (Ahead(c)' /\ pc[c] \in Migrating)
          BY <3>2, <3>4, <4>2, AheadIsTaken
        <5>2. pc[c] \in Migrating => c \in begun'
          BY <2>1 DEF AheadInv
        <5> QED BY <3>2, <5>1, <5>2
      <4> QED BY <4>1, <4>2
    <3>5. ASSUME Ahead(w),
                 \/ DatabaseFails \/ DatabaseReturns \/ UNCHANGED vars
          PROVE  Ahead(w)'
      <4>1. pc'[w] = pc[w] /\ Keeps(w) /\ applied' = applied /\ versioned' = versioned
        BY <1>3, <2>1, <3>2, <3>5, NoOnesStep
      <4> QED BY <3>5, <4>1 DEF Ahead, Keeps
    <3> QED BY <3>1, <3>2, <3>3, <3>4, <3>5, NextIsSomebodys
  <2> QED BY <2>2, <2>3
<1> QED BY <1>1, <1>2, <1>3 DEF AheadInv

-----------------------------------------------------------------------------
(* The schema a service runs on.                                           *)

LEMMA DoneNext == TypeOK /\ FilesInv /\ DoneInv /\ [Next]_vars => DoneInv'
<1> SUFFICES ASSUME TypeOK, FilesInv, DoneInv, [Next]_vars, NEW d \in Containers
             PROVE  /\ pc'[d] = "done" => Kind[d] = "migrate" /\ Finished(d)'
                    /\ pc'[d] = "overrides" => Tombstones \in applied'
  BY DEF DoneInv
<1>0. /\ applied \subseteq applied'
      /\ pc[d] = "done" => Kind[d] = "migrate" /\ Finished(d)
      /\ pc[d] = "overrides" => Tombstones \in applied
  BY AppliedGrows DEF DoneInv
<1>1. ASSUME NEW c \in Containers, OwnStep(c), c # d
      PROVE  /\ pc'[d] = "done" => Kind[d] = "migrate" /\ Finished(d)'
             /\ pc'[d] = "overrides" => Tombstones \in applied'
  BY <1>0, <1>1, OthersStay, FinishedStays
<1>2. ASSUME OwnStep(d)
      PROVE  /\ pc'[d] = "done" => Kind[d] = "migrate" /\ Finished(d)'
             /\ pc'[d] = "overrides" => Tombstones \in applied'
  <2>1. CASE Start(d) \/ Connect(d) \/ Prepare(d) \/ Create(d) \/ Read(d)
    BY <2>1, EarlyEffect
  <2>2. CASE NextFile(d) /\ Missing(d) = {}
    <3>1. Finished(d)
      <4>1. /\ pc[d] = "next" /\ at[d] \in 1 .. Release[d] + 1 /\ existing[d] \subseteq applied
            /\ \A v \in Versions : v < at[d] => v \in applied
        BY <2>2, FileEffect DEF FilesInv
      <4>2. ASSUME NEW v \in 1 .. Release[d] PROVE v \in applied
        <5>1. v \in Versions /\ (v < at[d] \/ v \in at[d] .. Release[d])
          BY <4>1, NewestIsLast DEF Versions
        <5> QED BY <2>2, <4>1, <5>1 DEF Missing
      <4> QED BY <4>2 DEF Finished
    <3> QED BY <2>2, <3>1, FileEffect, FinishedStays
  <2>3. CASE (NextFile(d) /\ Missing(d) # {}) \/ Sql(d) \/ Insert(d) \/ Commit(d)
    BY <2>3, FileEffect
  <2>4. CASE ServiceStep(d) \/ Crash(d) \/ Stop(d)
    BY <1>0, <2>4, ServiceEffect DEF ServiceStep
  <2> QED BY <1>2, <2>1, <2>2, <2>3, <2>4 DEF OwnStep, MigrationStep
<1>3. CASE \/ DatabaseFails \/ DatabaseReturns \/ UNCHANGED vars
  <2>1. pc'[d] = pc[d] \/ pc'[d] = "failed"
    BY <1>3, NoOnesStep
  <2> QED BY <1>0, <2>1, FinishedStays
<1> QED BY <1>1, <1>2, <1>3, NextIsSomebodys

Served(d) ==
    /\ d \in Waits /\ pc[d] \in Starting \cup {"serving"} => Finished(d)
    /\ pc[d] = "serving" /\ pool[d] =>
        Tombstones \in applied /\ (Kind[d] = "api" => Governance \in applied)

LEMMA ServedNext == TypeOK /\ DoneInv /\ ServesOnItsSchema /\ [Next]_vars => ServesOnItsSchema'
<1> SUFFICES ASSUME TypeOK, DoneInv, ServesOnItsSchema, [Next]_vars, NEW d \in Containers
             PROVE  Served(d)'
  BY DEF ServesOnItsSchema, Served, Finished
<1>0. applied \subseteq applied' /\ Served(d)
  BY AppliedGrows DEF ServesOnItsSchema, Served, Finished
<1>1. ASSUME NEW c \in Containers, OwnStep(c), c # d PROVE Served(d)'
  BY <1>0, <1>1, OthersStay, FinishedStays DEF Served, Keeps
<1>2. ASSUME OwnStep(d), pc[d] # "off" PROVE d \in Waits /\ pc'[d] \in Starting \cup {"serving"} => Finished(d)'
  <2>1. pc[d] \in Starting \cup {"serving"} \/ pc'[d] \notin Starting \cup {"serving"}
    <3>1. CASE Start(d) \/ Connect(d) \/ Prepare(d) \/ Create(d) \/ Read(d)
      BY <1>2, <3>1, EarlyEffect DEF Starting, Migrating
    <3>2. CASE NextFile(d) \/ Sql(d) \/ Insert(d) \/ Commit(d)
      BY <3>2, FileEffect DEF Starting, Migrating
    <3>3. CASE ServiceStep(d)
      BY <3>3, ServiceEffect DEF ServiceStep, Starting
    <3>4. CASE Crash(d) \/ Stop(d)
      BY <3>4, ServiceEffect DEF Starting, Migrating
    <3> QED BY <1>2, <3>1, <3>2, <3>3, <3>4 DEF OwnStep, MigrationStep
  <2> QED BY <1>0, <2>1, FinishedStays DEF Served
<1>3. ASSUME OwnStep(d), pc[d] = "off" PROVE d \in Waits => Finished(d)'
  <2>1. Start(d)
    <3>1. ~ MigrationStep(d)
      BY <1>3, EarlyEffect, FileEffect DEF MigrationStep
    <3>2. ~ Sql(d) /\ ~ Stop(d) /\ ~ ServiceStep(d)
      BY <1>3, FileEffect, ServiceEffect DEF ServiceStep
    <3>3. ~ Crash(d)
      BY <1>3 DEF Crash, Starting, Migrating
    <3> QED BY <1>3, <3>1, <3>2, <3>3 DEF OwnStep
  <2>2. ASSUME d \in Waits PROVE Finished(d)
    <3>1. PICK m \in Containers : Kind[m] = "migrate" /\ pc[m] = "done"
      BY <2>1, <2>2 DEF Start
    <3>2. Finished(m) /\ Release[d] <= Release[m]
      BY <2>2, <3>1, BuiltTogether DEF DoneInv
    <3>3. 1 .. Release[d] \subseteq 1 .. Release[m]
      BY <3>2, NewestIsLast
    <3> QED BY <3>2, <3>3 DEF Finished
  <2> QED BY <2>2, FinishedStays
<1>4. ASSUME OwnStep(d), pc'[d] = "serving", pool'[d]
      PROVE  Tombstones \in applied' /\ (Kind[d] = "api" => Governance \in applied')
  <2>1. CASE Start(d) \/ Connect(d) \/ Prepare(d) \/ Create(d) \/ Read(d)
    BY <1>4, <2>1, EarlyEffect
  <2>2. CASE NextFile(d) \/ Sql(d) \/ Insert(d) \/ Commit(d)
    BY <1>4, <2>2, FileEffect
  <2>3. CASE ServiceStep(d) \/ Crash(d) \/ Stop(d)
    BY <1>0, <1>4, <2>3, ServiceEffect DEF ServiceStep, DoneInv
  <2> QED BY <1>4, <2>1, <2>2, <2>3 DEF OwnStep, MigrationStep
<1>5. CASE \/ DatabaseFails \/ DatabaseReturns \/ UNCHANGED vars
  <2>1. (pc'[d] = pc[d] \/ pc'[d] = "failed") /\ pool'[d] = pool[d]
    BY <1>5, NoOnesStep DEF Keeps
  <2>2. "failed" \notin Starting \cup {"serving"}
    BY DEF Starting, Migrating
  <2> QED BY <1>0, <2>1, <2>2, FinishedStays DEF Served
<1>6. OwnStep(d) => Served(d)'
  BY <1>2, <1>3, <1>4 DEF Served
<1> QED BY <1>1, <1>5, <1>6, NextIsSomebodys

-----------------------------------------------------------------------------
\* The invariant behind the others: what each container knows of the versions in
\* force, that transactions have different files, and that somebody is Ahead.
THEOREM Invariance == Spec => []IInv
<1>1. Init => IInv
  BY TypeInit, FilesInit, OrderInit, AheadInit DEF IInv
<1>2. IInv /\ [Next]_vars => IInv'
  BY TypeNext, FilesNext, LocksNext, OrderNext, AheadNext, DoneNext, ServedNext DEF IInv
<1> QED BY <1>1, <1>2, PTL DEF Spec

\* A container is never at a file that no release has, and every variable keeps its
\* type (apply_migrations, create_pool).
THEOREM TypeCorrect == Spec => []TypeOK
<1>1. IInv => TypeOK
  BY DEF IInv
<1> QED BY <1>1, Invariance, PTL

\* apply_migrations: whoever migrates at the same time, is killed or loses the
\* database, the SQL of a file is committed with its version, once and in order.
THEOREM MigrationsAreInOrder == Spec => []EachOnceInOrder
<1>1. IInv => EachOnceInOrder
  BY DEF IInv
<1> QED BY <1>1, Invariance, PTL

\* apply_migrations: containers that fail because of one another never all do.
THEOREM SomebodyAlwaysFinishes == Spec => []SomebodyFinishes
<1>1. IInv => SomebodyFinishes
  BY DEF IInv, AheadInv, Ahead, Finished, SomebodyFinishes, TypeOK, Migrating
<1> QED BY <1>1, Invariance, PTL

\* Entrypoint, compose and create_app: a service runs on the schema it was built
\* for, and has the tables of what it loads.
THEOREM SchemasFit == Spec => []ServesOnItsSchema
<1>1. IInv => ServesOnItsSchema
  BY DEF IInv
<1> QED BY <1>1, Invariance, PTL

-----------------------------------------------------------------------------
(* The schema advances by one file at a time and never goes back.          *)

SchemaAdvances ==
    \E n \in 0 .. Newest :
        /\ applied = 1 .. n
        /\ applied' = applied \/ (n < Newest /\ applied' = 1 .. n + 1)

\* The files in force are those up to some one of them.
LEMMA AppliedIsPrefix ==
    ASSUME TypeOK, EachOnceInOrder
    PROVE  \E n \in 0 .. Newest : applied = 1 .. n
<1> DEFINE Open == (1 .. Newest + 1) \ applied
           m == Min(Open)
<1>1. Newest \in Nat /\ applied \subseteq 1 .. Newest
  BY NewestIsLast DEF TypeOK, Versions
<1>2. Newest + 1 \in Open /\ Open \in SUBSET Nat
  BY <1>1
<1>3. m \in Open /\ \A v \in Open : m <= v
  BY <1>2, MinIsFirst
<1> HIDE DEF m
<1>4. m - 1 \in 0 .. Newest
  BY <1>1, <1>3
<1>5. ASSUME NEW v \in 1 .. m - 1 PROVE v \in applied
  BY <1>1, <1>3
<1>6. ASSUME NEW v \in applied PROVE v \in 1 .. m - 1
  <2>1. v \in Versions /\ v \in Nat /\ m \in Nat \ {0}
    BY <1>1, <1>3 DEF Versions
  <2>2. m \notin 1 .. v
    BY <1>3, <1>6, <2>1 DEF EachOnceInOrder
  <2> QED BY <1>1, <2>1, <2>2
<1> QED BY <1>4, <1>5, <1>6

LEMMA AdvanceNext == IInv /\ [Next]_vars => SchemaAdvances
<1> SUFFICES ASSUME IInv, [Next]_vars PROVE SchemaAdvances
  OBVIOUS
<1>1. TypeOK /\ FilesInv /\ EachOnceInOrder
  BY DEF IInv
<1>2. PICK n \in 0 .. Newest : applied = 1 .. n
  BY <1>1, AppliedIsPrefix
<1>3. ASSUME NEW c \in Containers, Commit(c) PROVE SchemaAdvances
  <2>1. pc[c] = "commit" /\ applied' = applied \cup {at[c]}
    BY <1>3 DEF Commit, AtDatabase
  <2>2. /\ at[c] \in 1 .. Release[c] /\ at[c] \notin applied
        /\ \A v \in Versions : v < at[c] => v \in applied
    BY <1>1, <2>1 DEF FilesInv, AtFile
  <2>3. at[c] \in 1 .. Newest /\ Newest \in Nat
    BY <2>2, NewestIsLast
  <2>4. at[c] = n + 1
    <3>1. n < at[c]
      BY <1>2, <2>2, <2>3
    <3>2. ~ (n + 1 < at[c])
      <4> SUFFICES ASSUME n + 1 < at[c] PROVE FALSE
        OBVIOUS
      <4>1. n + 1 \in Versions
        BY <2>3 DEF Versions
      <4> QED BY <1>2, <2>2, <4>1
    <3> QED BY <2>3, <3>1, <3>2
  <2>5. n < Newest /\ applied' = 1 .. n + 1
    BY <1>2, <2>1, <2>3, <2>4
  <2> QED BY <1>2, <2>5 DEF SchemaAdvances
<1>4. ASSUME NEW c \in Containers, OwnStep(c), ~ Commit(c) PROVE applied' = applied
  BY <1>4, TablesStay
<1>5. CASE \/ DatabaseFails \/ DatabaseReturns \/ UNCHANGED vars
  BY <1>2, <1>5 DEF DatabaseFails, DatabaseReturns, vars, dbVars, SchemaAdvances
<1> QED BY <1>2, <1>3, <1>4, <1>5, NextIsSomebodys DEF SchemaAdvances

\* apply_migrations: at every step the schema is that of the first so many files,
\* and the only change is the next file, whichever containers of whichever
\* releases race, are killed or lose the database; nothing takes it back.
THEOREM SchemasAdvance == Spec => [][SchemaAdvances]_vars
<1>1. IInv /\ [Next]_vars => [SchemaAdvances]_vars
  BY AdvanceNext
<1> QED BY <1>1, Invariance, PTL DEF Spec

=============================================================================
