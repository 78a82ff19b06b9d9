--------------------------- MODULE ServicesProofs ---------------------------
(***************************************************************************)
(* Of the parts that MCServices puts side by side, for all values of their *)
(* constants: of CompanyRegistry that no company is lost, of StoreSchema   *)
(* that a migrated database fits its store, of ChatGateway that commands   *)
(* by chat are charged, stopped and answered; and of all of them the types *)
(* (ServicesTypeCorrect).  The proofs about TaskCost, the adapters,        *)
(* GoalDesk and DagSort are in modules of their own, which this one        *)
(* extends.                                                                *)
(***************************************************************************)
EXTENDS MCServices, TaskCostProofs, AdapterProofs, GoalDeskProofs, DagSortProofs,
        SequenceTheorems

-----------------------------------------------------------------------------
(* CompanyRegistry: an inductive invariant ties the file to the map.       *)

USE DEF beat, disk, opctl, history, Statuses, Registry, Known, Nobody, Loaded, Answer, Saved,
        SaveFails, SaveState, Request, SetStatus, Listed, NothingToRecord

\* What a save does to the file, whatever map it saves.
LEMMA SaveKeepsType ==
  ASSUME RegistryTypeOK, NEW reg, SaveState(reg)
  PROVE  /\ file' \subseteq Companies /\ fileTorn' \in BOOLEAN /\ owned' \in BOOLEAN
         /\ badSaves' \in 0 .. MaxBadSaves
  <1>1. badSaves < MaxBadSaves => badSaves + 1 \in 0 .. MaxBadSaves
    BY RegistryAssumption DEF RegistryTypeOK
  <1>2. CASE Saved(reg)  BY <1>2 DEF RegistryTypeOK
  <1>3. CASE SaveFails  BY <1>1, <1>3 DEF RegistryTypeOK
  <1>4. QED  BY <1>2, <1>3

\* A change of one company.
LEMMA ChangeKeepsType ==
  ASSUME RegistryTypeOK, NEW c \in Companies, NEW s \in Statuses \cup {"absent"},
         companies' = [companies EXCEPT ![c] = s]
  PROVE  /\ companies' \in Registry
         /\ s # "absent" => Known(companies) \subseteq Known(companies)'
         /\ Known(companies) \ {c} \subseteq Known(companies)'
  <1>1. companies \in [Companies -> Statuses \cup {"absent"}]  BY DEF RegistryTypeOK
  <1>2. companies' \in Registry  BY <1>1
  <1>3. \A d \in Companies : companies'[d] = IF d = c THEN s ELSE companies[d]  BY <1>1
  <1>4. QED  BY <1>2, <1>3

LEMMA RegistryTyped == RegistryInit /\ [][RegistryNext]_registryVars => []RegistryTypeOK
  <1>1. RegistryInit => RegistryTypeOK
    <2>1. 0 \in 0 .. MaxRequests /\ 0 \in 0 .. MaxBadSaves /\ 0 \in 0 .. MaxReloads
      BY RegistryAssumption
    <2>2. QED  BY <2>1 DEF RegistryInit, RegistryTypeOK
  <1>2. RegistryTypeOK /\ [RegistryNext]_registryVars => RegistryTypeOK'
    <2> SUFFICES ASSUME RegistryTypeOK, [RegistryNext]_registryVars PROVE RegistryTypeOK'
      OBVIOUS
    <2>0. Request => requests' \in 0 .. MaxRequests
      BY RegistryAssumption DEF RegistryTypeOK
    <2>1. ASSUME NEW c \in Companies, RegisterCompany(c) PROVE RegistryTypeOK'
      <3>1. Answer(c) \in Statuses \cup {"absent"} /\ Answer(c) # "absent"  OBVIOUS
      <3>2. SaveState(companies')  BY <2>1 DEF RegisterCompany
      <3>3. companies' = [companies EXCEPT ![c] = Answer(c)]  BY <2>1 DEF RegisterCompany
      <3>4. companies' \in Registry /\ Known(companies) \subseteq Known(companies)'
        BY <3>1, <3>3, ChangeKeepsType
      <3>5. UNCHANGED <<opctl, answers, beat, inSync, reloads>>
        BY <2>1 DEF RegisterCompany
      <3>6. requests' \in 0 .. MaxRequests /\ wanted' \subseteq Companies
        BY <2>0, <2>1 DEF RegisterCompany, RegistryTypeOK
      <3>7. QED  BY <3>2, <3>4, <3>5, <3>6, SaveKeepsType DEF RegistryTypeOK
    <2>2. ASSUME NEW c \in Companies, UnregisterCompany(c) PROVE RegistryTypeOK'
      <3>2. SaveState(companies')  BY <2>2 DEF UnregisterCompany
      <3>3. companies' = [companies EXCEPT ![c] = "absent"]  BY <2>2 DEF UnregisterCompany
      <3>4. companies' \in Registry /\ Known(companies) \ {c} \subseteq Known(companies)'
        BY <3>3, ChangeKeepsType
      <3>5. /\ gone' = gone \cup (Listed \cap {c})
            /\ UNCHANGED <<opctl, answers, todo, pinged, inSync, reloads>>
        BY <2>2 DEF UnregisterCompany
      <3>6. requests' \in 0 .. MaxRequests /\ wanted' \subseteq Companies
        BY <2>0, <2>2 DEF UnregisterCompany, RegistryTypeOK
      <3>7. gone' \subseteq Listed' /\ Listed' \ gone' \subseteq Known(companies)'
        BY <3>4, <3>5 DEF RegistryTypeOK
      <3>8. QED  BY <3>2, <3>4, <3>5, <3>6, <3>7, SaveKeepsType DEF RegistryTypeOK
    <2>3. ASSUME NEW c \in Companies, UpdateCompanyStatus(c) PROVE RegistryTypeOK'
      <3>1. PICK s \in Statuses : SetStatus(c, s)  BY <2>3 DEF UpdateCompanyStatus
      <3>2. SaveState(companies')  BY <3>1
      <3>3. companies' = [companies EXCEPT ![c] = s] /\ s # "absent"  BY <3>1
      <3>4. companies' \in Registry /\ Known(companies) \subseteq Known(companies)'
        BY <3>1, <3>3, ChangeKeepsType
      <3>5. QED
        <4>1. /\ requests' \in 0 .. MaxRequests
              /\ UNCHANGED <<opctl, answers, beat, wanted, inSync, reloads>>
          BY <2>0, <2>3 DEF UpdateCompanyStatus
        <4>2. /\ file' \subseteq Companies /\ fileTorn' \in BOOLEAN /\ owned' \in BOOLEAN
              /\ badSaves' \in 0 .. MaxBadSaves
          BY <3>2, SaveKeepsType
        <4>3. gone \subseteq Listed /\ Listed \ gone \subseteq Known(companies)'
          BY <3>4 DEF RegistryTypeOK
        <4>4. QED  BY <3>4, <4>1, <4>2, <4>3 DEF RegistryTypeOK
    <2> USE RegistryAssumption DEF RegistryTypeOK
    <2>4. CASE ListCompanies \/ \E c \in Companies : Ping(c)
      <3>1. CASE ListCompanies
        <4>1. gone = {} /\ Listed' = Known(companies)'  BY <3>1 DEF ListCompanies
        <4>2. QED  BY <3>1, <4>1 DEF ListCompanies
      <3>2. ASSUME NEW c \in Companies, Ping(c) PROVE RegistryTypeOK'
        <4>1. Listed' = Listed  BY <3>2 DEF Ping
        <4>2. Answer(c) \in {"Online", "Offline"} /\ pinged' = {<<c, Answer(c)>>}
          BY <3>2 DEF Ping
        <4>3. QED  BY <3>2, <4>1, <4>2 DEF Ping
      <3>3. QED  BY <2>4, <3>1, <3>2
    <2>5. CASE RecordPing
      <3>1. PICK p \in pinged :
              /\ pinged' = {} /\ gone' = gone \ {p[1]}
              /\ IF NothingToRecord(p) THEN UNCHANGED <<companies, disk, owned, badSaves>>
                                       ELSE SetStatus(p[1], p[2])
              /\ UNCHANGED <<opctl, answers, todo, wanted, inSync, requests, reloads>>
        BY <2>5 DEF RecordPing
      <3>2. p \in Companies \X {"Online", "Offline"}  BY <3>1
      <3>3. p[1] \in Companies /\ p[2] \in Statuses /\ p[2] # "absent"  BY <3>2
      <3>4. Listed = todo \cup {p[1]} /\ Listed' = todo /\ p[1] \notin todo  BY <3>1
      <3>5. gone' \subseteq Listed' /\ Listed' \ gone' \subseteq Known(companies)
        BY <3>1, <3>4
      <3>6. CASE UNCHANGED <<companies, disk, owned, badSaves>>  BY <3>1, <3>5, <3>6
      <3>7. CASE SetStatus(p[1], p[2])
        <4>1. SaveState(companies')  BY <3>7
        <4>2. companies' = [companies EXCEPT ![p[1]] = p[2]]  BY <3>7
        <4>3. companies' \in Registry /\ Known(companies) \subseteq Known(companies)'
          BY <3>3, <4>2, ChangeKeepsType
        <4>4. QED  BY <3>1, <3>5, <4>1, <4>3, SaveKeepsType
      <3>8. QED  BY <3>1, <3>6, <3>7
    <2>6. CASE Reachability \/ Reload  BY <2>6 DEF Reachability, Reload
    <2>7. CASE CliStarts \/ \E c \in Companies : CliRegisters(c)
      <3>1. CASE CliStarts  BY <3>1 DEF CliStarts
      <3>2. ASSUME NEW c \in Companies, CliRegisters(c) PROVE RegistryTypeOK'
        BY <2>0, <3>2 DEF CliRegisters
      <3>3. QED  BY <2>7, <3>1, <3>2
    <2>8. CASE UNCHANGED registryVars  BY <2>8 DEF registryVars
    <2>9. QED
      BY <2>1, <2>2, <2>3, <2>4, <2>5, <2>6, <2>7, <2>8 DEF RegistryNext, CheckAll
  <1>3. QED  BY <1>1, <1>2, PTL

\* The type invariant of the registry: also, the heartbeat has in hand one company at most,
\* and what it has listed and not dealt with is registered, or was removed since.
THEOREM RegistryTypeCorrect == RegistrySpec => []RegistryTypeOK
  BY RegistryTyped, PTL DEF RegistrySpec

\* A file that the daemon saved last holds what the daemon knows.
FileIsMap == owned => ~fileTorn /\ file = Known(companies)

\* The daemon knows the companies that were registered and not removed, unless it loaded
\* what another process or a save that failed had left, however many heartbeats, requests
\* and restarts there were.
THEOREM RegistryCorrect == RegistrySpec => []RegistrySurvives
  <1> DEFINE Inv == FileIsMap /\ RegistrySurvives
  <1>1. RegistryInit => Inv  BY DEF RegistryInit, FileIsMap, RegistrySurvives
  <1>2. RegistryTypeOK /\ Inv /\ [RegistryNext]_registryVars => Inv'
    <2> SUFFICES ASSUME RegistryTypeOK, Inv, [RegistryNext]_registryVars PROVE Inv'
      OBVIOUS
    <2> USE DEF RegistryTypeOK, FileIsMap, RegistrySurvives
    <2>1. ASSUME NEW c \in Companies, RegisterCompany(c) PROVE Inv'
      BY <2>1 DEF RegisterCompany
    <2>2. ASSUME NEW c \in Companies, UnregisterCompany(c) PROVE Inv'
      BY <2>2 DEF UnregisterCompany
    <2>3. ASSUME NEW c \in Companies, UpdateCompanyStatus(c) PROVE Inv'
      BY <2>3 DEF UpdateCompanyStatus
    <2>4. CASE ListCompanies \/ \E c \in Companies : Ping(c)  BY <2>4 DEF ListCompanies, Ping
    <2>5. CASE RecordPing
      <3>1. PICK p \in pinged :
              /\ IF NothingToRecord(p) THEN UNCHANGED <<companies, disk, owned, badSaves>>
                                       ELSE SetStatus(p[1], p[2])
              /\ UNCHANGED <<wanted, inSync>>
        BY <2>5 DEF RecordPing
      <3>2. p[1] \in Companies /\ p[2] \in {"Online", "Offline"}  OBVIOUS
      <3>3. QED  BY <3>1, <3>2
    <2>6. CASE Reachability \/ Reload  BY <2>6 DEF Reachability, Reload
    <2>7. CASE CliStarts \/ \E c \in Companies : CliRegisters(c)
      BY <2>7 DEF CliStarts, CliRegisters
    <2>8. CASE UNCHANGED registryVars  BY <2>8 DEF registryVars
    <2>9. QED
      BY <2>1, <2>2, <2>3, <2>4, <2>5, <2>6, <2>7, <2>8 DEF RegistryNext, CheckAll
  <1>3. QED  BY <1>1, <1>2, RegistryTypeCorrect, PTL DEF RegistrySpec

HIDE DEF beat, disk, opctl, history, Statuses, Registry, Known, Nobody, Loaded, Answer, Saved,
         SaveFails, SaveState, Request, SetStatus, Listed, NothingToRecord

-----------------------------------------------------------------------------
(* StoreSchema: what each migration that has run has left behind.          *)

\* What the columns of a table, and a migration, are taken from.
AllColumns == TaskColumns \cup PlanColumns \cup GoalColumns \cup TraceColumns
MigrationType == [does : {"create", "alter"}, table : Tables, columns : SUBSET AllColumns]

\* The lists of migrations, one element after the other.
LEMMA MigrationLists ==
  /\ SqliteMigrations \in Seq(MigrationType) /\ Len(SqliteMigrations) = 12
  /\ SqliteMigrations[1] = Create("agents", {})
  /\ SqliteMigrations[2] = Create("tasks", TaskColumns)
  /\ SqliteMigrations[3] = Create("workflows", {})
  /\ SqliteMigrations[4] = Create("workflow_runs", {})
  /\ SqliteMigrations[5] = Create("goals", PlanColumns)
  /\ SqliteMigrations[6] = Alter("goals", PlanColumns \cup GoalColumns)
  /\ SqliteMigrations[7] = Alter("tasks", TaskColumns)
  /\ SqliteMigrations[8] = Create("projects", {})
  /\ SqliteMigrations[9] = Create("issues", {})
  /\ SqliteMigrations[10] = Create("federated_goal_runs", {})
  /\ SqliteMigrations[11] = Create("federated_goal_projects", {})
  /\ SqliteMigrations[12] = Alter("issues", TraceColumns)
  /\ PostgresMigrations \in Seq(MigrationType) /\ Len(PostgresMigrations) = 5
  /\ PostgresMigrations[1] = Create("agents", {})
  /\ PostgresMigrations[2] = Create("tasks", {})
  /\ PostgresMigrations[3] = Create("workflows", {})
  /\ PostgresMigrations[4] = Create("workflow_runs", {})
  /\ PostgresMigrations[5] = Create("goals", PlanColumns)
  <1>1. /\ \A t \in Tables : \A cols \in SUBSET AllColumns :
             Create(t, cols) \in MigrationType /\ Alter(t, cols) \in MigrationType
        /\ {} \in SUBSET AllColumns /\ TaskColumns \in SUBSET AllColumns
        /\ PlanColumns \in SUBSET AllColumns /\ TraceColumns \in SUBSET AllColumns
        /\ PlanColumns \cup GoalColumns \in SUBSET AllColumns
    BY DEF Create, Alter, MigrationType, AllColumns
  <1>2. {"agents", "tasks", "workflows", "workflow_runs", "goals", "projects", "issues",
             "federated_goal_runs", "federated_goal_projects"} = Tables
    BY DEF Tables
  <1>3. BaseTables \in Seq(MigrationType) /\ Len(BaseTables) = 5
    BY <1>1, <1>2 DEF BaseTables
  <1>4. AlterGoalsAndTasks \in Seq(MigrationType) /\ Len(AlterGoalsAndTasks) = 2
    BY <1>1, <1>2 DEF AlterGoalsAndTasks
  <1>5. LaterTables \in Seq(MigrationType) /\ Len(LaterTables) = 4
    BY <1>1, <1>2 DEF LaterTables
  <1> DEFINE last == <<Alter("issues", TraceColumns)>>
  <1>6. last \in Seq(MigrationType) /\ Len(last) = 1 /\ last[1] = Alter("issues", TraceColumns)
    BY <1>1, <1>2
  <1> HIDE DEF last
  <1> DEFINE six   == BaseTables \o AlterGoalsAndTasks
             eight == six \o LaterTables
             all   == eight \o last
  <1>7. six \in Seq(MigrationType) /\ Len(six) = 5 + 2
        /\ \A i \in 1 .. 5 + 2 : six[i] = IF i <= 5 THEN BaseTables[i] ELSE AlterGoalsAndTasks[i - 5]
    <2>1. /\ BaseTables \o AlterGoalsAndTasks \in Seq(MigrationType)
          /\ Len(BaseTables \o AlterGoalsAndTasks) = Len(BaseTables) + Len(AlterGoalsAndTasks)
          /\ \A i \in 1 .. Len(BaseTables) + Len(AlterGoalsAndTasks) :
               (BaseTables \o AlterGoalsAndTasks)[i] = IF i <= Len(BaseTables) THEN BaseTables[i] ELSE AlterGoalsAndTasks[i - Len(BaseTables)]
      BY <1>3, <1>4, ConcatProperties, Zenon
    <2>2. QED  BY <1>3, <1>4, <2>1, SMTT(60)
  <1> HIDE DEF six
  <1>8. eight \in Seq(MigrationType) /\ Len(eight) = 7 + 4
        /\ \A i \in 1 .. 7 + 4 : eight[i] = IF i <= 7 THEN six[i] ELSE LaterTables[i - 7]
    <2>1. /\ six \o LaterTables \in Seq(MigrationType)
          /\ Len(six \o LaterTables) = Len(six) + Len(LaterTables)
          /\ \A i \in 1 .. Len(six) + Len(LaterTables) :
               (six \o LaterTables)[i] = IF i <= Len(six) THEN six[i] ELSE LaterTables[i - Len(six)]
      BY <1>5, <1>7, ConcatProperties, Zenon
    <2>2. QED  BY <1>5, <1>7, <2>1, SMTT(60)
  <1> HIDE DEF eight
  <1>9. all \in Seq(MigrationType) /\ Len(all) = 11 + 1
        /\ \A i \in 1 .. 11 + 1 : all[i] = IF i <= 11 THEN eight[i]
                                          ELSE last[i - 11]
    <2>1. /\ eight \o last \in Seq(MigrationType)
          /\ Len(eight \o last) = Len(eight) + Len(last)
          /\ \A i \in 1 .. Len(eight) + Len(last) :
               (eight \o last)[i] = IF i <= Len(eight) THEN eight[i] ELSE last[i - Len(eight)]
      BY <1>6, <1>8, ConcatProperties, Zenon
    <2>2. QED  BY <1>6, <1>8, <2>1, SMTT(60)
  <1>10. SqliteMigrations \in Seq(MigrationType) /\ Len(SqliteMigrations) = 12
         /\ \A i \in 1 .. 12 : SqliteMigrations[i] = IF i <= 11 THEN eight[i]
                                                  ELSE last[i - 11]
    <2>1. SqliteMigrations = all  BY DEF SqliteMigrations, six, eight, last
    <2> HIDE DEF all
    <2>2. QED  BY <1>9, <2>1
  <1>11. /\ \A i \in 1 .. 5 : SqliteMigrations[i] = BaseTables[i]
         /\ \A i \in 6 .. 7 : SqliteMigrations[i] = AlterGoalsAndTasks[i - 5]
         /\ \A i \in 8 .. 11 : SqliteMigrations[i] = LaterTables[i - 7]
         /\ SqliteMigrations[12] = Alter("issues", TraceColumns)
    BY <1>6, <1>7, <1>8, <1>10
  <1>12. /\ SqliteMigrations[1] = Create("agents", {})
         /\ SqliteMigrations[2] = Create("tasks", TaskColumns)
         /\ SqliteMigrations[3] = Create("workflows", {})
         /\ SqliteMigrations[4] = Create("workflow_runs", {})
         /\ SqliteMigrations[5] = Create("goals", PlanColumns)
    BY <1>11 DEF BaseTables
  <1>13. /\ SqliteMigrations[6] = Alter("goals", PlanColumns \cup GoalColumns)
         /\ SqliteMigrations[7] = Alter("tasks", TaskColumns)
    BY <1>11 DEF AlterGoalsAndTasks
  <1>14. /\ SqliteMigrations[8] = Create("projects", {})
         /\ SqliteMigrations[9] = Create("issues", {})
         /\ SqliteMigrations[10] = Create("federated_goal_runs", {})
         /\ SqliteMigrations[11] = Create("federated_goal_projects", {})
    BY <1>11 DEF LaterTables
  <1>15. /\ PostgresMigrations \in Seq(MigrationType) /\ Len(PostgresMigrations) = 5
         /\ PostgresMigrations[1] = Create("agents", {})
         /\ PostgresMigrations[2] = Create("tasks", {})
         /\ PostgresMigrations[3] = Create("workflows", {})
         /\ PostgresMigrations[4] = Create("workflow_runs", {})
         /\ PostgresMigrations[5] = Create("goals", PlanColumns)
    BY <1>1, <1>2 DEF PostgresMigrations
  <1>16. QED  BY <1>10, <1>11, <1>12, <1>13, <1>14, <1>15

-----------------------------------------------------------------------------
\* What the migrations that have run have left behind: their tables, the columns of
\* every ALTER that was not locked out, and, with Postgres, those of every CREATE.
Executed ==
  \A k \in 1 .. migration - 1 :
    /\ schema[Migrations[k].table].exists
    /\ (Migrations[k].does = "alter" /\ k \notin locked) =>
         Migrations[k].columns \subseteq schema[Migrations[k].table].columns

\* The CREATE of goals is the only one of Postgres that names columns a statement needs.
PostgresGoals ==
  (backend = "postgres" /\ schema["goals"].exists) => PlanColumns \subseteq schema["goals"].columns

SchemaInv == SchemaTypeOK /\ Executed /\ PostgresGoals

\* Whichever backend it is, its migrations are a list of migrations.
LEMMA MigrationsType ==
  ASSUME backend \in {"sqlite", "postgres"}
  PROVE  /\ Migrations \in Seq(MigrationType) /\ Len(Migrations) \in Nat
         /\ \A k \in 1 .. Len(Migrations) : Migrations[k] \in MigrationType
  <1>1. Migrations \in Seq(MigrationType)  BY MigrationLists DEF Migrations
  <1>2. QED  BY <1>1, ElementOfSeq, LenProperties

\* A database of any older version.
LEMMA SchemaInitInv == SchemaInit => SchemaInv
  <1> SUFFICES ASSUME SchemaInit PROVE SchemaInv  OBVIOUS
  <1>1. backend \in {"sqlite", "postgres"} /\ migration = 0 /\ opens = 0 /\ locked = {}
    BY DEF SchemaInit
  <1>2. PICK goals \in OlderTable({{}, PlanColumns}), tasks \in OlderTable({{}}),
             issues \in OlderTable({{}, {"goal_id"}}) :
          schema = [t \in Tables |-> CASE t = "goals" -> goals [] t = "tasks" -> tasks
                                       [] t = "issues" -> issues [] OTHER -> Absent]
    BY DEF SchemaInit
  <1>3. /\ PlanColumns \in SUBSET AllColumns /\ {"goal_id"} \in SUBSET AllColumns
    BY DEF AllColumns, TraceColumns
  <1>4. Absent \in [exists : BOOLEAN, columns : SUBSET AllColumns]  BY DEF Absent
  <1>5. /\ goals \in [exists : BOOLEAN, columns : SUBSET AllColumns]
        /\ tasks \in [exists : BOOLEAN, columns : SUBSET AllColumns]
        /\ issues \in [exists : BOOLEAN, columns : SUBSET AllColumns]
    <2>1. \A added \in SUBSET SUBSET AllColumns :
            OlderTable(added) \subseteq [exists : BOOLEAN, columns : SUBSET AllColumns]
      <3>1. SUFFICES ASSUME NEW added \in SUBSET SUBSET AllColumns, NEW x \in OlderTable(added)
                     PROVE  x \in [exists : BOOLEAN, columns : SUBSET AllColumns]
        OBVIOUS
      <3>2. CASE x = Absent  BY <1>4, <3>2
      <3>3. CASE \E cols \in added : x = [exists |-> TRUE, columns |-> cols]  BY <3>3
      <3>4. QED  BY <3>2, <3>3 DEF OlderTable
    <2>2. /\ {{}, PlanColumns} \in SUBSET SUBSET AllColumns
          /\ {{}} \in SUBSET SUBSET AllColumns /\ {{}, {"goal_id"}} \in SUBSET SUBSET AllColumns
      BY <1>3
    <2>3. QED  BY <2>1, <2>2
  <1>6. schema \in [Tables -> [exists : BOOLEAN, columns : SUBSET AllColumns]]
    BY <1>2, <1>4, <1>5
  <1>7. SchemaTypeOK
    BY <1>1, <1>6, MigrationsType, SchemaAssumption DEF SchemaTypeOK, AllColumns
  <1>8. Executed  BY <1>1 DEF Executed
  <1>9. PostgresGoals
    <2>1. backend = "postgres" => schema["goals"] = Absent  BY DEF SchemaInit, Tables
    <2>2. QED  BY <2>1 DEF PostgresGoals, Absent
  <1>10. QED  BY <1>7, <1>8, <1>9 DEF SchemaInv

\* A process opens it, migrates it, or ends.
LEMMA SchemaStep == SchemaInv /\ [SchemaNext]_schemaVars => SchemaInv'
  <1> SUFFICES ASSUME SchemaInv, [SchemaNext]_schemaVars PROVE SchemaInv'  OBVIOUS
  <1> DEFINE M == Migrations
             Table == [exists : BOOLEAN, columns : SUBSET AllColumns]
  <1>a. /\ backend \in {"sqlite", "postgres"} /\ schema \in [Tables -> Table]
        /\ migration \in 0 .. Len(M) + 1 /\ opens \in 0 .. MaxOpens /\ locked \subseteq 1 .. Len(M)
        /\ MaxOpens \in Nat /\ Len(M) \in Nat
        /\ \A k \in 1 .. Len(M) : M[k] \in MigrationType
    BY MigrationsType, SchemaAssumption DEF SchemaInv, SchemaTypeOK, AllColumns
  <1>b. backend' = backend
    BY DEF SchemaNext, Open, CreateTable, AlterTable, AlterLocked, OpenerEnds, schemaVars
  <1>c. Migrations' = M  BY <1>b DEF Migrations
  <1>d. /\ Executed /\ PostgresGoals /\ "goals" \in Tables  BY DEF SchemaInv, Tables
  <1>t. ASSUME schema' \in [Tables -> Table], migration' \in 0 .. Len(M) + 1,
               opens' \in 0 .. MaxOpens, locked' \subseteq 1 .. Len(M)
        PROVE  SchemaTypeOK'
    BY <1>a, <1>b, <1>c, <1>t DEF SchemaTypeOK, AllColumns
  <1>e. ASSUME Migrating("create") \/ Migrating("alter")
        PROVE  /\ migration \in 1 .. Len(M) /\ migration + 1 \in 0 .. Len(M) + 1
               /\ Current = M[migration] /\ Current \in MigrationType /\ Current.table \in Tables
               /\ Current.columns \in SUBSET AllColumns
               /\ \A k \in 1 .. (migration + 1) - 1 : k = migration \/ k \in 1 .. migration - 1
    <2>1. migration # 0 /\ migration # Len(M) + 1  BY <1>e DEF Migrating, Closed, IsOpen
    <2>2. migration \in 1 .. Len(M) /\ migration + 1 \in 0 .. Len(M) + 1  BY <1>a, <2>1
    <2>3. Current \in MigrationType  BY <1>a, <2>2 DEF Current
    <2>4. QED  BY <2>2, <2>3 DEF Current, MigrationType
  <1> HIDE DEF M
  <1>1. CASE Open
    <2>1. migration' = 1 /\ opens' \in 0 .. MaxOpens /\ locked' = {} /\ schema' = schema
      BY <1>1, <1>a DEF Open
    <2>2. SchemaTypeOK'  BY <1>a, <1>t, <2>1
    <2>3. Executed'  BY <2>1 DEF Executed
    <2>4. PostgresGoals'  BY <1>b, <1>d, <2>1 DEF PostgresGoals
    <2>5. QED  BY <2>2, <2>3, <2>4 DEF SchemaInv
  <1>2. CASE CreateTable
    <2>1. /\ Migrating("create") /\ Current.does = "create"
          /\ schema' = IF schema[Current.table].exists THEN schema
                       ELSE [schema EXCEPT ![Current.table] = [exists  |-> TRUE,
                                                               columns |-> Current.columns]]
          /\ migration' = migration + 1 /\ UNCHANGED <<opens, locked>>
      BY <1>2 DEF CreateTable, Migrating
    <2>2. schema' \in [Tables -> Table] /\ schema'[Current.table].exists
      BY <1>a, <1>e, <2>1
    <2>3. SchemaTypeOK'  BY <1>a, <1>e, <1>t, <2>1, <2>2
    <2>4. Executed'
      <3>1. SUFFICES ASSUME NEW k \in 1 .. migration' - 1
                     PROVE  /\ schema'[M[k].table].exists
                            /\ (M[k].does = "alter" /\ k \notin locked) =>
                                 M[k].columns \subseteq schema'[M[k].table].columns
        BY <1>c, <2>1 DEF Executed
      <3>2. k = migration \/ k \in 1 .. migration - 1  BY <1>e, <2>1
      <3>3. CASE k = migration  BY <1>e, <2>1, <2>2, <3>3
      <3>4. CASE k \in 1 .. migration - 1
        <4>1. /\ schema[M[k].table].exists
              /\ (M[k].does = "alter" /\ k \notin locked) =>
                   M[k].columns \subseteq schema[M[k].table].columns
          BY <1>d, <3>4 DEF Executed, M
        <4>2. schema'[M[k].table] = schema[M[k].table]  BY <1>a, <2>1, <4>1
        <4>3. QED  BY <4>1, <4>2
      <3>5. QED  BY <3>2, <3>3, <3>4
    <2>5. PostgresGoals'
      <3>1. CASE schema["goals"].exists
        <4>1. schema'["goals"] = schema["goals"]  BY <1>a, <1>d, <2>1, <3>1
        <4>2. QED  BY <1>b, <1>d, <3>1, <4>1 DEF PostgresGoals
      <3>2. CASE ~schema["goals"].exists /\ Current.table = "goals" /\ backend = "postgres"
        <4>1. schema'["goals"].columns = Current.columns  BY <1>a, <1>d, <2>1, <3>2
        <4>2. \A k \in 1 .. 5 : PostgresMigrations[k].table = "goals" => k = 5
          BY MigrationLists DEF Create
        <4>3. M = PostgresMigrations  BY <3>2 DEF Migrations, M
        <4>4. Current = PostgresMigrations[5]
          BY <1>e, <2>1, <3>2, <4>2, <4>3, MigrationLists
        <4>5. Current.columns = PlanColumns  BY <4>4, MigrationLists DEF Create
        <4>6. QED  BY <4>1, <4>5 DEF PostgresGoals
      <3>3. CASE ~schema["goals"].exists /\ (Current.table # "goals" \/ backend # "postgres")
        <4>1. Current.table # "goals" => schema'["goals"] = schema["goals"]
          BY <1>a, <1>d, <2>1
        <4>2. QED  BY <1>b, <3>3, <4>1 DEF PostgresGoals
      <3>4. QED  BY <3>1, <3>2, <3>3
    <2>6. QED  BY <2>3, <2>4, <2>5 DEF SchemaInv
  <1>3. ASSUME NEW added \in SUBSET AllColumns, NEW t \in Tables,
               schema' = [schema EXCEPT ![t].columns = @ \cup added]
        PROVE  /\ schema' \in [Tables -> Table]
               /\ \A u \in Tables : /\ schema'[u].exists = schema[u].exists
                                    /\ schema[u].columns \subseteq schema'[u].columns
               /\ added \subseteq schema'[t].columns
               /\ PostgresGoals'
    <2>1. schema' \in [Tables -> Table]  BY <1>a, <1>3
    <2>2. \A u \in Tables : /\ schema'[u].exists = schema[u].exists
                            /\ schema[u].columns \subseteq schema'[u].columns
      BY <1>a, <1>3
    <2>3. added \subseteq schema'[t].columns  BY <1>a, <1>3
    <2>4. PostgresGoals'  BY <1>b, <1>d, <2>2 DEF PostgresGoals
    <2>5. QED  BY <2>1, <2>2, <2>3, <2>4
  <1>4. CASE AlterTable \/ AlterLocked
    <2>1. Migrating("alter") /\ migration' = migration + 1 /\ opens' = opens
      BY <1>4 DEF AlterTable, AlterLocked
    <2>2. PICK added \in SUBSET AllColumns :
            /\ schema' = [schema EXCEPT ![Current.table].columns = @ \cup added]
            /\ \/ added = Current.columns /\ locked' = locked
               \/ locked' = locked \cup {migration}
      <3>1. CASE AlterTable  BY <1>e, <2>1, <3>1 DEF AlterTable
      <3>2. CASE AlterLocked
        <4>1. PICK col \in Current.columns \ schema[Current.table].columns :
                schema' = [schema EXCEPT ![Current.table].columns = @ \cup (Current.columns \ {col})]
          BY <3>2 DEF AlterLocked
        <4>2. Current.columns \ {col} \in SUBSET AllColumns  BY <1>e, <2>1
        <4>3. locked' = locked \cup {migration}  BY <3>2 DEF AlterLocked
        <4>4. QED  BY <4>1, <4>2, <4>3
      <3>3. QED  BY <1>4, <3>1, <3>2
    <2>3. /\ schema' \in [Tables -> Table] /\ PostgresGoals'
          /\ \A u \in Tables : /\ schema'[u].exists = schema[u].exists
                               /\ schema[u].columns \subseteq schema'[u].columns
          /\ added \subseteq schema'[Current.table].columns
      BY <1>3, <1>e, <2>1, <2>2
    <2>4. SchemaTypeOK'  BY <1>a, <1>e, <1>t, <2>1, <2>2, <2>3
    <2>5. schema[Current.table].exists
      <3>1. \A k \in 1 .. 12 : SqliteMigrations[k].does = "alter" =>
              \E j \in 1 .. k - 1 : SqliteMigrations[j].table = SqliteMigrations[k].table
        <4>1. \A k \in 1 .. 12 : SqliteMigrations[k].does = "alter" => k \in {6, 7, 12}
          BY MigrationLists DEF Create
        <4>2. SqliteMigrations[5].table = SqliteMigrations[6].table
              /\ SqliteMigrations[2].table = SqliteMigrations[7].table
              /\ SqliteMigrations[9].table = SqliteMigrations[12].table
          BY MigrationLists DEF Create, Alter
        <4>3. 5 \in 1 .. 6 - 1 /\ 2 \in 1 .. 7 - 1 /\ 9 \in 1 .. 12 - 1  OBVIOUS
        <4>4. QED  BY <4>1, <4>2, <4>3
      <3>2. \A k \in 1 .. 5 : PostgresMigrations[k].does = "create"
        BY MigrationLists DEF Create
      <3>3. M[migration].does = "alter"  BY <1>e, <2>1 DEF Migrating
      <3>4. PICK j \in 1 .. migration - 1 : M[j].table = M[migration].table
        <4>1. CASE backend = "sqlite"
          <5>1. M = SqliteMigrations  BY <4>1 DEF M, Migrations
          <5>2. QED  BY <1>e, <2>1, <3>1, <3>3, <5>1, MigrationLists
        <4>2. CASE backend = "postgres"
          <5>1. M = PostgresMigrations  BY <4>2 DEF M, Migrations
          <5>2. QED  BY <1>e, <2>1, <3>2, <3>3, <5>1, MigrationLists
        <4>3. QED  BY <1>a, <4>1, <4>2
      <3>5. schema[M[j].table].exists  BY <1>d DEF Executed, M
      <3>6. QED  BY <1>e, <2>1, <3>4, <3>5
    <2>6. Executed'
      <3>1. SUFFICES ASSUME NEW k \in 1 .. migration' - 1
                     PROVE  /\ schema'[M[k].table].exists
                            /\ (M[k].does = "alter" /\ k \notin locked') =>
                                 M[k].columns \subseteq schema'[M[k].table].columns
        BY <1>c DEF Executed
      <3>2. k = migration \/ k \in 1 .. migration - 1  BY <1>e, <2>1
      <3>3. CASE k = migration
        <4>1. M[k] = Current /\ Current.table \in Tables  BY <1>e, <2>1, <3>3
        <4>2. schema'[Current.table].exists  BY <2>3, <2>5, <4>1
        <4>3. k \notin locked' => added = Current.columns  BY <2>2, <3>3
        <4>4. QED  BY <2>3, <4>1, <4>2, <4>3
      <3>4. CASE k \in 1 .. migration - 1
        <4>1. /\ schema[M[k].table].exists
              /\ (M[k].does = "alter" /\ k \notin locked) =>
                   M[k].columns \subseteq schema[M[k].table].columns
          BY <1>d, <3>4 DEF Executed, M
        <4>2. k \in 1 .. Len(M)  BY <1>a, <1>e, <2>1, <3>4
        <4>3. M[k].table \in Tables  BY <1>a, <4>2 DEF MigrationType
        <4>4. locked \subseteq locked'  BY <2>2
        <4>5. QED  BY <2>3, <4>1, <4>3, <4>4
      <3>5. QED  BY <3>2, <3>3, <3>4
    <2>7. QED  BY <2>3, <2>4, <2>6 DEF SchemaInv
  <1>5. CASE OpenerEnds
    <2>1. migration' = 0 /\ UNCHANGED <<opens, locked>>  BY <1>5 DEF OpenerEnds
    <2>2. schema' \in [Tables -> Table] /\ PostgresGoals'
      <3>1. CASE schema' = schema  BY <1>a, <1>b, <1>d, <3>1 DEF PostgresGoals
      <3>2. CASE Migrating("alter") /\ \E col \in Current.columns :
                   schema' = [schema EXCEPT ![Current.table].columns = @ \cup {col}]
        <4>1. PICK col \in Current.columns :
                schema' = [schema EXCEPT ![Current.table].columns = @ \cup {col}]
          BY <3>2
        <4>2. {col} \in SUBSET AllColumns  BY <1>e, <3>2
        <4>3. QED  BY <1>3, <1>e, <3>2, <4>1, <4>2
      <3>3. QED  BY <1>5, <3>1, <3>2 DEF OpenerEnds
    <2>3. SchemaTypeOK'  BY <1>a, <1>t, <2>1, <2>2
    <2>4. Executed'  BY <2>1 DEF Executed
    <2>5. QED  BY <2>2, <2>3, <2>4 DEF SchemaInv
  <1>6. CASE UNCHANGED schemaVars
    BY <1>6, <1>c DEF SchemaInv, SchemaTypeOK, Executed, PostgresGoals, schemaVars, M
  <1>7. QED  BY <1>1, <1>2, <1>4, <1>5, <1>6 DEF SchemaNext

LEMMA SchemaInvariant == SchemaSpec => []SchemaInv
  BY SchemaInitInv, SchemaStep, PTL DEF SchemaSpec

\* The type invariant, for any number of processes that open the database.
THEOREM SchemaTypeCorrect == SchemaSpec => []SchemaTypeOK
  <1>1. SchemaInv => SchemaTypeOK  BY DEF SchemaInv
  <1>2. QED  BY <1>1, SchemaInvariant, PTL

\* A database that New returns fits every statement of its store, but for what the
\* Postgres backend lacks: from any older version, after any number of openings that
\* ended half-way or were locked out, unless this very one was.
THEOREM SchemaCorrect == SchemaSpec => []StatementsFit
  <1>1. SchemaInv => StatementsFit
    <2> SUFFICES ASSUME SchemaInv, IsOpen, locked = {}, NEW s \in Statements
                 PROVE  Fits(s) \/ (backend = "postgres" /\ s \in Unsynced)
      BY DEF StatementsFit
    <2>1. \A k \in 1 .. Len(Migrations) :
            /\ schema[Migrations[k].table].exists
            /\ Migrations[k].does = "alter" =>
                 Migrations[k].columns \subseteq schema[Migrations[k].table].columns
      <3>1. Len(Migrations) \in Nat /\ migration = Len(Migrations) + 1
        BY MigrationsType DEF SchemaInv, SchemaTypeOK, IsOpen
      <3>2. 1 .. migration - 1 = 1 .. Len(Migrations)  BY <3>1
      <3>3. QED  BY <3>2 DEF SchemaInv, Executed
    <2>2. CASE backend = "sqlite"
      <3>1. Migrations = SqliteMigrations /\ Len(Migrations) = 12
        BY <2>2, MigrationLists DEF Migrations
      <3>2. \A t \in Tables : schema[t].exists
        <4>1. \A t \in Tables : \E k \in 1 .. 12 : SqliteMigrations[k].table = t
          <5>1. /\ SqliteMigrations[1].table = "agents" /\ SqliteMigrations[2].table = "tasks"
                /\ SqliteMigrations[3].table = "workflows"
                /\ SqliteMigrations[4].table = "workflow_runs"
                /\ SqliteMigrations[5].table = "goals"
                /\ SqliteMigrations[8].table = "projects"
                /\ SqliteMigrations[9].table = "issues"
                /\ SqliteMigrations[10].table = "federated_goal_runs"
                /\ SqliteMigrations[11].table = "federated_goal_projects"
            BY MigrationLists DEF Create
          <5>2. /\ 1 \in 1 .. 12 /\ 2 \in 1 .. 12 /\ 3 \in 1 .. 12 /\ 4 \in 1 .. 12 /\ 5 \in 1 .. 12
                /\ 8 \in 1 .. 12 /\ 9 \in 1 .. 12 /\ 10 \in 1 .. 12 /\ 11 \in 1 .. 12
            OBVIOUS
          <5>3. QED  BY <5>1, <5>2 DEF Tables
        <4>2. QED  BY <2>1, <3>1, <4>1
      <3>3. /\ PlanColumns \cup GoalColumns \subseteq schema["goals"].columns
            /\ TaskColumns \subseteq schema["tasks"].columns
            /\ TraceColumns \subseteq schema["issues"].columns
        <4>1. 6 \in 1 .. 12 /\ 7 \in 1 .. 12 /\ 12 \in 1 .. 12  OBVIOUS
        <4>2. /\ SqliteMigrations[6] = Alter("goals", PlanColumns \cup GoalColumns)
              /\ SqliteMigrations[7] = Alter("tasks", TaskColumns)
              /\ SqliteMigrations[12] = Alter("issues", TraceColumns)
          BY MigrationLists
        <4>3. QED  BY <2>1, <3>1, <4>1, <4>2 DEF Alter
      <3>4. /\ s.table \in Tables
            /\ \/ s.columns = {}
               \/ s.table = "goals" /\ s.columns \subseteq PlanColumns \cup GoalColumns
               \/ s.table = "tasks" /\ s.columns \subseteq TaskColumns
               \/ s.table = "issues" /\ s.columns \subseteq TraceColumns
        BY <2>2 DEF Statements, SqliteStatements, AgentStatements, TaskStatements,
             WorkflowStatements, RunStatements, GoalStatements, GoalStatsStatement,
             ProjectStatements, IssueStatements, FederationStatements, Needs, Tables, TaskColumns
      <3>5. QED  BY <3>2, <3>3, <3>4 DEF Fits
    <2>3. CASE backend = "postgres"
      <3>1. Migrations = PostgresMigrations /\ Len(Migrations) = 5
        BY <2>3, MigrationLists DEF Migrations
      <3>2. \A t \in {"agents", "tasks", "workflows", "workflow_runs", "goals"} : schema[t].exists
        <4>1. 1 \in 1 .. 5 /\ 2 \in 1 .. 5 /\ 3 \in 1 .. 5 /\ 4 \in 1 .. 5 /\ 5 \in 1 .. 5  OBVIOUS
        <4>2. /\ PostgresMigrations[1].table = "agents" /\ PostgresMigrations[2].table = "tasks"
              /\ PostgresMigrations[3].table = "workflows"
              /\ PostgresMigrations[4].table = "workflow_runs"
              /\ PostgresMigrations[5].table = "goals"
          BY MigrationLists DEF Create
        <4>3. QED  BY <2>1, <3>1, <4>1, <4>2
      <3>3. PlanColumns \subseteq schema["goals"].columns
        BY <2>3, <3>2 DEF SchemaInv, PostgresGoals
      <3>4. \/ s \in Unsynced
            \/ /\ s.table \in {"agents", "tasks", "workflows", "workflow_runs", "goals"}
               /\ s.columns = {} \/ (s.table = "goals" /\ s.columns = PlanColumns)
        BY <2>3 DEF Statements, PostgresStatements, PgAgentStatements, PgTaskStatements,
             PgWorkflowStatements, PgRunStatements, PgCreateGoal, Unsynced, Needs
      <3>5. QED  BY <2>3, <3>2, <3>3, <3>4 DEF Fits
    <2>4. QED  BY <2>2, <2>3 DEF SchemaInv, SchemaTypeOK
  <1>2. QED  BY <1>1, SchemaInvariant, PTL

-----------------------------------------------------------------------------
(* ChatGateway: the pieces that were sent, and the rest, are the answer.   *)

\* f flattens the first n sequences of s, one after the other.
Flattens(f, s, n) ==
  f = [i \in 1 .. n |-> IF i = 1 THEN s[i] ELSE f[i - 1] \o s[i]]

\* By the smallest n for which there is none.
LEMMA FlattensExists ==
  ASSUME NEW s, NEW n \in Nat
  PROVE  \E f : Flattens(f, s, n)
  <1> DEFINE Bad == {k \in Nat : ~ \E f : Flattens(f, s, k)}
  <1>1. SUFFICES ASSUME Bad # {} PROVE FALSE  OBVIOUS
  <1>2. PICK k \in Bad : \A j \in Bad : k <= j
    <2>1. Bad \in SUBSET Nat  OBVIOUS
    <2> HIDE DEF Bad
    <2>2. QED  BY <1>1, <2>1, Smallest
  <1>3. CASE k = 0
    <2>1. Flattens([i \in 1 .. 0 |-> {}], s, 0)  BY DEF Flattens
    <2>2. QED  BY <1>3, <2>1
  <1>4. CASE k > 0
    <2>1. k - 1 \in Nat /\ k - 1 \notin Bad  BY <1>2, <1>4
    <2>2. PICK f : Flattens(f, s, k - 1)  BY <2>1
    <2> DEFINE g == [i \in 1 .. k |-> IF i = k THEN IF k = 1 THEN s[k] ELSE f[k - 1] \o s[k]
                                      ELSE f[i]]
    <2>3. ASSUME NEW i \in 1 .. k PROVE g[i] = IF i = 1 THEN s[i] ELSE g[i - 1] \o s[i]
      <3>1. CASE i = k
        <4>1. k # 1 => k - 1 \in 1 .. k /\ k - 1 # k  BY <1>4
        <4>2. QED  BY <3>1, <4>1
      <3>2. CASE i # k
        <4>1. i \in 1 .. k - 1 /\ (i # 1 => i - 1 \in 1 .. k /\ i - 1 # k)  BY <3>2
        <4>2. f[i] = IF i = 1 THEN s[i] ELSE f[i - 1] \o s[i]  BY <2>2, <4>1 DEF Flattens
        <4>3. QED  BY <3>2, <4>1, <4>2
      <3>3. QED  BY <3>1, <3>2
    <2>4. g = [i \in 1 .. k |-> IF i = 1 THEN s[i] ELSE g[i - 1] \o s[i]]
      <3> DEFINE h == [i \in 1 .. k |-> IF i = 1 THEN s[i] ELSE g[i - 1] \o s[i]]
      <3>1. \A i \in 1 .. k : g[i] = h[i]  BY <2>3
      <3>2. g = [i \in 1 .. k |-> g[i]] /\ h = [i \in 1 .. k |-> h[i]]  OBVIOUS
      <3> HIDE DEF g, h
      <3>3. g = h  BY <3>1, <3>2
      <3>4. QED  BY <3>3 DEF h
    <2> HIDE DEF g
    <2>5. Flattens(g, s, k)  BY <2>4 DEF Flattens
    <2>6. QED  BY <2>5
  <1>5. QED  BY <1>2, <1>3, <1>4

\* FlattenSeq of SequencesExt.
LEMMA FlattenSeqIs ==
  ASSUME NEW S, NEW s \in Seq(S), s # << >>
  PROVE  \E f : Flattens(f, s, Len(s)) /\ FlattenSeq(s) = f[Len(s)]
  <1>1. Len(s) \in Nat /\ Len(s) # 0  BY EmptySeq, LenProperties
  <1> DEFINE f == CHOOSE f : Flattens(f, s, Len(s))
  <1>2. Flattens(f, s, Len(s))  BY <1>1, FlattensExists
  <1>3. FlattenSeq(s) = f[Len(s)]
    BY <1>1, Zenon DEF FlattenSeq, Flattens
  <1>4. QED  BY <1>2, <1>3

\* Two that flatten the same sequences do the same.
LEMMA FlattensAgree ==
  ASSUME NEW C, NEW s, NEW r, NEW n \in Nat, NEW m \in Nat, NEW f, NEW g,
         \A i \in 1 .. n : s[i] = r[i] /\ s[i] \in Seq(C), n <= m,
         Flattens(f, s, n), Flattens(g, r, m)
  PROVE  \A i \in 1 .. n : f[i] = g[i] /\ f[i] \in Seq(C)
  <1> DEFINE Bad == {i \in 1 .. n : ~(f[i] = g[i] /\ f[i] \in Seq(C))}
  <1>1. SUFFICES ASSUME Bad # {} PROVE FALSE  OBVIOUS
  <1>2. PICK k \in Bad : \A j \in Bad : k <= j
    <2>1. Bad \in SUBSET Nat  OBVIOUS
    <2> HIDE DEF Bad
    <2>2. QED  BY <1>1, <2>1, Smallest
  <1>3. /\ f[k] = IF k = 1 THEN s[k] ELSE f[k - 1] \o s[k]
        /\ g[k] = IF k = 1 THEN r[k] ELSE g[k - 1] \o r[k]
        /\ s[k] = r[k] /\ s[k] \in Seq(C) /\ k \in 1 .. n
    <2>1. k \in 1 .. n /\ k \in 1 .. m  OBVIOUS
    <2>2. f = [i \in 1 .. n |-> IF i = 1 THEN s[i] ELSE f[i - 1] \o s[i]]  BY DEF Flattens
    <2>3. g = [i \in 1 .. m |-> IF i = 1 THEN r[i] ELSE g[i - 1] \o r[i]]  BY DEF Flattens
    <2> HIDE DEF Bad
    <2>4. f[k] = IF k = 1 THEN s[k] ELSE f[k - 1] \o s[k]  BY <2>1, <2>2
    <2>5. g[k] = IF k = 1 THEN r[k] ELSE g[k - 1] \o r[k]  BY <2>1, <2>3
    <2>6. QED  BY <2>1, <2>4, <2>5
  <1>4. CASE k = 1  BY <1>3, <1>4
  <1>5. CASE k # 1
    <2>1. k - 1 \in 1 .. n /\ ~(k <= k - 1)  BY <1>3, <1>5
    <2>2. f[k - 1] = g[k - 1] /\ f[k - 1] \in Seq(C)  BY <1>2, <2>1
    <2>3. f[k - 1] \o s[k] \in Seq(C)  BY <1>3, <2>2, ConcatProperties
    <2>4. QED  BY <1>3, <1>5, <2>2, <2>3
  <1>6. QED  BY <1>4, <1>5

\* One sequence more.
LEMMA FlattenAppend ==
  ASSUME NEW C, NEW s \in Seq(Seq(C)), NEW x \in Seq(C)
  PROVE  /\ FlattenSeq(s) \in Seq(C)
         /\ FlattenSeq(Append(s, x)) = FlattenSeq(s) \o x
  <1> DEFINE t == Append(s, x)
  <1>1. /\ t \in Seq(Seq(C)) /\ Len(t) = Len(s) + 1 /\ t[Len(s) + 1] = x /\ Len(s) \in Nat
        /\ \A i \in 1 .. Len(s) : t[i] = s[i] /\ s[i] \in Seq(C)
    BY AppendProperties, ElementOfSeq, LenProperties
  <1>2. t # << >>  BY <1>1, EmptySeq
  <1> HIDE DEF t
  <1>3. PICK g : Flattens(g, t, Len(t)) /\ FlattenSeq(t) = g[Len(t)]
    BY <1>1, <1>2, FlattenSeqIs
  <1>4. g[Len(t)] = IF Len(t) = 1 THEN t[Len(t)] ELSE g[Len(t) - 1] \o t[Len(t)]
    <2>1. \A i \in 1 .. Len(t) : g[i] = IF i = 1 THEN t[i] ELSE g[i - 1] \o t[i]
      BY <1>3, Zenon DEF Flattens
    <2>2. Len(t) \in 1 .. Len(t)  BY <1>1
    <2>3. QED  BY <2>1, <2>2
  <1>5. CASE s = << >>
    <2>1. Len(s) = 0 /\ FlattenSeq(s) = << >>  BY <1>5, EmptySeq DEF FlattenSeq
    <2>2. FlattenSeq(t) = x  BY <1>1, <1>3, <1>4, <2>1
    <2>3. << >> \in Seq(C) /\ << >> \o x = x  BY EmptySeq, ConcatEmptySeq
    <2>4. QED  BY <2>1, <2>2, <2>3 DEF t
  <1>6. CASE s # << >>
    <2>1. Len(s) # 0  BY <1>6, EmptySeq
    <2>2. PICK f : Flattens(f, s, Len(s)) /\ FlattenSeq(s) = f[Len(s)]  BY <1>6, FlattenSeqIs
    <2>3. \A i \in 1 .. Len(s) : f[i] = g[i] /\ f[i] \in Seq(C)
      <3>1. \A i \in 1 .. Len(s) : s[i] = t[i] /\ s[i] \in Seq(C)  BY <1>1
      <3>2. Len(s) <= Len(t) /\ Len(t) \in Nat  BY <1>1
      <3>3. QED  BY <1>1, <1>3, <2>2, <3>1, <3>2, FlattensAgree
    <2>4. f[Len(s)] = g[Len(s)] /\ f[Len(s)] \in Seq(C)  BY <1>1, <2>1, <2>3
    <2>5. FlattenSeq(t) = g[Len(s)] \o x
      <3>1. Len(t) # 1 /\ Len(t) - 1 = Len(s) /\ t[Len(t)] = x  BY <1>1, <2>1
      <3>2. QED  BY <1>3, <1>4, <3>1, Zenon
    <2>6. QED  BY <2>2, <2>4, <2>5 DEF t
  <1>7. QED  BY <1>5, <1>6

\* The greatest of a set of numbers that has a bound.
LEMMA Greatest ==
  ASSUME NEW S \in SUBSET Nat, S # {}, NEW b \in Nat, \A n \in S : n <= b
  PROVE  Max(S) \in S /\ \A n \in S : n <= Max(S)
  <1> DEFINE T == {b - n : n \in S}
  <1>1. T \in SUBSET Nat /\ T # {}  OBVIOUS
  <1> HIDE DEF T
  <1>2. PICK t \in T : \A u \in T : t <= u  BY <1>1, Smallest
  <1>3. PICK n \in S : t = b - n  BY DEF T
  <1>4. \A m \in S : n >= m
    <2>1. SUFFICES ASSUME NEW m \in S PROVE n >= m  OBVIOUS
    <2>2. b - n <= b - m  BY <1>2, <1>3 DEF T
    <2>3. n \in Nat /\ m \in Nat  OBVIOUS
    <2>4. QED  BY <2>2, <2>3
  <1>5. Max(S) \in S /\ \A m \in S : Max(S) >= m  BY <1>4 DEF Max
  <1>6. \A m \in S : m \in Nat  OBVIOUS
  <1>7. QED  BY <1>5, <1>6

-----------------------------------------------------------------------------
\* What texts are made of, as far as sendLong looks at them.
Bytes == {"char", "newline"}

\* A piece of a text that is not empty: so many of its first bytes, at least one, and
\* with the rest the whole text.
LEMMA PieceOf ==
  ASSUME NEW t \in Seq(Bytes), t # << >>
  PROVE  LET left == SubSeq(t, Len(Piece(t)) + 1, Len(t))
         IN  /\ Piece(t) \in Seq(Bytes) /\ Len(Piece(t)) \in 1 .. MaxLength
             /\ left \in Seq(Bytes) /\ Piece(t) \o left = t
  <1>1. Len(t) \in Nat \ {0} /\ MaxLength \in Nat \ {0}
    BY EmptySeq, LenProperties, ChatAssumption
  <1>2. \A i \in 1 .. Len(t) : t[i] \in Bytes  BY ElementOfSeq
  <1>3. PICK k \in 1 .. Len(t) : k <= MaxLength /\ Piece(t) = SubSeq(t, 1, k)
    <2>1. CASE Len(t) <= MaxLength
      <3>1. Piece(t) = SubSeq(t, 1, Len(t))  BY <2>1, SubSeqFull DEF Piece
      <3>2. QED  BY <1>1, <2>1, <3>1
    <2>2. CASE ~(Len(t) <= MaxLength)
      <3> DEFINE S == {0} \cup {i - 1 : i \in {j \in 1 .. MaxLength : t[j] = "newline"}}
      <3>1. S \in SUBSET Nat /\ S # {} /\ \A n \in S : n <= MaxLength  BY <1>1
      <3> HIDE DEF S
      <3>2. Max(S) \in S  BY <1>1, <3>1, Greatest
      <3>3. BeforeNewline(t) \in Nat /\ BeforeNewline(t) <= MaxLength
        BY <3>1, <3>2 DEF BeforeNewline, S
      <3> DEFINE k == IF BeforeNewline(t) > 0 THEN BeforeNewline(t) ELSE MaxLength
      <3>4. k \in 1 .. Len(t) /\ k <= MaxLength  BY <1>1, <2>2, <3>3
      <3>5. Piece(t) = SubSeq(t, 1, k)  BY <2>2 DEF Piece
      <3> HIDE DEF k
      <3>6. QED  BY <3>4, <3>5
    <2>3. QED  BY <2>1, <2>2
  <1>4. /\ SubSeq(t, 1, k) \in Seq(Bytes) /\ Len(SubSeq(t, 1, k)) = k
    <2>1. \A i \in 1 .. k : t[i] \in Bytes  BY <1>1, <1>2
    <2>2. 1 \in Int /\ k \in Int  OBVIOUS
    <2>3. Len(SubSeq(t, 1, k)) = IF 1 <= k THEN k - 1 + 1 ELSE 0  BY <2>1, <2>2, SubSeqProperties
    <2>4. SubSeq(t, 1, k) \in Seq(Bytes)  BY <2>1, <2>2, SubSeqProperties
    <2>5. QED  BY <2>3, <2>4
  <1>5. SubSeq(t, k + 1, Len(t)) \in Seq(Bytes)
    <2>1. \A i \in k + 1 .. Len(t) : t[i] \in Bytes  BY <1>1, <1>2
    <2>2. k + 1 \in Int /\ Len(t) \in Int  BY <1>1
    <2>3. QED  BY <2>1, <2>2, SubSeqProperties
  <1>6. SubSeq(t, 1, k) \o SubSeq(t, k + 1, Len(t)) = t
    <2>1. 1 \in 1 .. Len(t) + 1 /\ k \in 1 - 1 .. Len(t) /\ Len(t) \in k .. Len(t)  BY <1>1
    <2>2. SubSeq(t, 1, k) \o SubSeq(t, k + 1, Len(t)) = SubSeq(t, 1, Len(t))
      BY <2>1, ConcatAdjacentSubSeq
    <2>3. QED  BY <2>2, SubSeqFull
  <1>7. QED  BY <1>1, <1>3, <1>4, <1>5, <1>6

-----------------------------------------------------------------------------
\* Before it sends anything, a message has no reply; while it sends, something is left.
Replies ==
  /\ answer \in [Chats -> Texts \cup {<< >>}] /\ rest \in [Chats -> Seq(Bytes)]
  /\ pieces \in [Chats -> Seq(Seq(Bytes))]
  /\ \A m \in Chats :
       /\ chatAt[m] \notin {"sending", "ended"} =>
            answer[m] = << >> /\ rest[m] = << >> /\ pieces[m] = << >>
       /\ chatAt[m] = "sending" => rest[m] # << >>

\* A gateway that has started runs until it is stopped; there are agents to execute a
\* task only after there is a tracker.
Served ==
  /\ served = "cleaning" => unstarted
  /\ served \in {"started", "tracking", "serving", "cancelled"} /\ ~unstarted => gwRunning
  /\ \A m \in Chats : chatAt[m] = "running" =>
       served \in {"serving", "cancelled", "stopped", "ended"}

ChatInv == ChatTypeOK /\ Replies /\ Served /\ ChatIsSafe

\* Nothing has been received.
LEMMA ChatInitInv == ChatInit => ChatInv
  <1> SUFFICES ASSUME ChatInit PROVE ChatInv  OBVIOUS
  <1>1. << >> \in Seq(Bytes) /\ << >> \in Seq(Seq(Bytes))  BY EmptySeq
  <1>2. FlattenSeq(<< >>) = << >> /\ << >> \o << >> = << >>
    <2>1. Len(<< >>) = 0  BY EmptySeq
    <2>2. QED  BY <1>1, <2>1, ConcatEmptySeq DEF FlattenSeq
  <1>3. ChatTypeOK  BY <1>1 DEF ChatInit, ChatTypeOK, ServeStages, ChatStages, Bytes
  <1>4. Replies  BY <1>1 DEF ChatInit, Replies
  <1>5. Served  BY DEF ChatInit, Served
  <1>6. PiecesAreWhole
    <2>1. DOMAIN << >> = {}  BY EmptySeq, LenProperties
    <2>2. QED  BY <1>2, <2>1 DEF ChatInit, PiecesAreWhole
  <1>7. QED
    BY <1>3, <1>4, <1>5, <1>6 DEF ChatInit, ChatInv, ChatIsSafe, SpentIsCharged, StopSilences

\* serve, the gateway and its channels: no step of theirs touches a message.
LEMMA GatewayStep == ChatInv /\ RunServe => ChatInv'
  <1> SUFFICES ASSUME ChatInv, RunServe PROVE ChatInv'  OBVIOUS
  <1>1. UNCHANGED <<chatAt, answer, rest, pieces, spent, charged, panicked, tokens>>
    BY DEF RunServe, StartChannel, StopChannel, AllStarted, StartFails, CleanedUp, PollerEnds,
           SetCostTracker, RecoverAgents, CancelAll, GatewayStopped, ServeEnds, NoMessage,
           sendVars, taskVars
  <1>2. PiecesAreWhole' /\ SpentIsCharged' /\ Replies'
    BY <1>1 DEF ChatInv, ChatIsSafe, PiecesAreWhole, SpentIsCharged, Replies
  <1>3. ChatTypeOK' /\ Served' /\ StopSilences'
    <2> USE DEF ChatInv, ChatIsSafe, ChatTypeOK, Served, StopSilences, ServeStages, Serves, Serving
    <2>1. ASSUME NEW ch \in tokens, StartChannel(ch) PROVE ChatTypeOK' /\ Served' /\ StopSilences'
      BY <1>1, <2>1 DEF StartChannel
    <2>2. ASSUME NEW ch \in tokens, StopChannel(ch) PROVE ChatTypeOK' /\ Served' /\ StopSilences'
      BY <1>1, <2>2 DEF StopChannel
    <2>3. CASE AllStarted  BY <1>1, <2>3 DEF AllStarted
    <2>4. CASE StartFails \/ CleanedUp  BY <1>1, <2>4 DEF StartFails, CleanedUp
    <2>5. CASE PollerEnds  BY <1>1, <2>5 DEF PollerEnds
    <2>6. CASE SetCostTracker \/ RecoverAgents \/ CancelAll \/ ServeEnds
      BY <1>1, <2>6 DEF SetCostTracker, RecoverAgents, CancelAll, ServeEnds
    <2>7. CASE GatewayStopped  BY <1>1, <2>7 DEF GatewayStopped, PollerIsGone
    <2>8. QED  BY <2>1, <2>2, <2>3, <2>4, <2>5, <2>6, <2>7 DEF RunServe
  <1>4. QED  BY <1>2, <1>3 DEF ChatInv, ChatIsSafe

\* What a message that sends nothing leaves as it was.
LEMMA TalkStep ==
  ASSUME ChatInv, NEW m \in Chats,
         \/ Receive(m) \/ HandleRun(m) \/ HandleOther(m) \/ RunTaskByChat(m) \/ TaskByChatEnds(m)
         \/ SendFails(m) \/ SendPanics(m)
  PROVE  ChatInv'
  <1>1. /\ UNCHANGED <<served, tokens, online, poller, gwRunning, unstarted, answer, rest, pieces>>
        /\ panicked' \in BOOLEAN
    BY DEF Receive, HandleRun, HandleOther, RunTaskByChat, TaskByChatEnds, SendFails, SendPanics,
           NoGateway, gwVars, sendVars, ChatInv, ChatTypeOK
  <1>2. /\ chatAt \in [Chats -> ChatStages] /\ chatAt' \in [Chats -> ChatStages]
        /\ \A v \in Chats : v # m => chatAt'[v] = chatAt[v]
        /\ chatAt'[m] \notin {"sending", "ended"} => chatAt[m] \notin {"sending", "ended"}
        /\ chatAt'[m] = "sending" => chatAt[m] = "sending"
    BY DEF Receive, HandleRun, HandleOther, RunTaskByChat, TaskByChatEnds, SendFails, SendPanics,
           ChatGoes, ChatInv, ChatTypeOK, ChatStages
  <1>3. chatAt'[m] = "running" => served \in {"serving", "cancelled", "stopped", "ended"}
    BY <1>2 DEF Receive, HandleRun, HandleOther, RunTaskByChat, TaskByChatEnds, SendFails,
           SendPanics, ChatGoes, ChatInv, ChatTypeOK, ServeStages, ChatStages, Served
  <1>4. /\ spent \subseteq Chats /\ charged \subseteq Chats /\ spent = charged
    BY DEF ChatInv, ChatTypeOK, ChatIsSafe, SpentIsCharged
  <1>5. spent' \subseteq Chats /\ charged' \subseteq Chats /\ spent' = charged'
    <2>1. CASE TaskByChatEnds(m)
      <3>1. chatAt[m] = "running"  BY <2>1 DEF TaskByChatEnds, ChatGoes
      <3>2. served \notin {"starting", "cleaning", "started"}  BY <3>1 DEF ChatInv, Served
      <3>3. QED  BY <1>4, <2>1, <3>2 DEF TaskByChatEnds, taskVars
    <2>2. CASE ~TaskByChatEnds(m)
      <3>1. UNCHANGED <<spent, charged>>
        BY <2>2 DEF Receive, HandleRun, HandleOther, RunTaskByChat, SendFails, SendPanics, taskVars
      <3>2. QED  BY <1>4, <3>1
    <2>3. QED  BY <2>1, <2>2
  <1>6. ChatTypeOK'  BY <1>1, <1>2, <1>5 DEF ChatInv, ChatTypeOK
  <1>7. Replies'  BY <1>1, <1>2 DEF ChatInv, Replies
  <1>8. Served'  BY <1>1, <1>2, <1>3 DEF ChatInv, Served
  <1>9. SpentIsCharged' /\ StopSilences' /\ PiecesAreWhole'
    BY <1>1, <1>5 DEF ChatInv, ChatIsSafe, SpentIsCharged, StopSilences, PiecesAreWhole
  <1>10. QED  BY <1>6, <1>7, <1>8, <1>9 DEF ChatInv, ChatIsSafe

\* A message that sends keeps its pieces together.
LEMMA SendStep ==
  ASSUME ChatInv, NEW m \in Chats, SendShort(m) \/ SendLong(m) \/ SendPiece(m)
  PROVE  ChatInv'
  <1>1. UNCHANGED <<served, tokens, online, poller, gwRunning, unstarted, spent, charged, panicked>>
    BY DEF SendShort, SendLong, SendPiece, NoGateway, gwVars, taskVars
  <1>2. /\ chatAt \in [Chats -> ChatStages] /\ answer \in [Chats -> Texts \cup {<< >>}]
        /\ rest \in [Chats -> Seq(Bytes)] /\ pieces \in [Chats -> Seq(Seq(Bytes))]
    BY DEF ChatInv, ChatTypeOK, Replies
  <1>3. /\ chatAt' \in [Chats -> ChatStages] /\ chatAt'[m] \in {"sending", "ended"}
        /\ \A v \in Chats : v # m => chatAt'[v] = chatAt[v]
    BY <1>2 DEF SendShort, SendLong, SendPiece, ChatGoes, ChatStages
  <1>4. /\ MaxLength \in Nat \ {0} /\ << >> \in Seq(Seq(Bytes)) /\ << >> \in Seq(Bytes)
        /\ Texts \subseteq Seq(Bytes) \ {<< >>}
    BY EmptySeq, ChatAssumption DEF Bytes
  <1>5. \A t \in Seq(Bytes) : /\ FlattenSeq(<< >>) = << >> /\ << >> \o t = t /\ t \o << >> = t
                              /\ Append(<< >>, t) = << t >> /\ FlattenSeq(<< t >>) = t
    <2>1. SUFFICES ASSUME NEW t \in Seq(Bytes)
                   PROVE  /\ FlattenSeq(<< >>) = << >> /\ << >> \o t = t /\ t \o << >> = t
                          /\ Append(<< >>, t) = << t >> /\ FlattenSeq(<< t >>) = t
      OBVIOUS
    <2>2. FlattenSeq(<< >>) = << >>  BY EmptySeq DEF FlattenSeq
    <2>3. << >> \o t = t /\ t \o << >> = t  BY ConcatEmptySeq
    <2>4. Append(<< >>, t) = << t >>  OBVIOUS
    <2>5. FlattenSeq(Append(<< >>, t)) = FlattenSeq(<< >>) \o t  BY <1>4, FlattenAppend
    <2>6. QED  BY <2>2, <2>3, <2>4, <2>5
  <1>6. /\ answer' \in [Chats -> Texts \cup {<< >>}] /\ rest' \in [Chats -> Seq(Bytes)]
        /\ pieces' \in [Chats -> Seq(Seq(Bytes))]
        /\ chatAt'[m] = "sending" => rest'[m] # << >>
        /\ \A i \in DOMAIN pieces'[m] : Len(pieces'[m][i]) \in 1 .. MaxLength
        /\ FlattenSeq(pieces'[m]) \o rest'[m] = answer'[m]
        /\ \A v \in Chats : v # m => /\ answer'[v] = answer[v] /\ rest'[v] = rest[v]
                                     /\ pieces'[v] = pieces[v]
    <2>1. CASE SendShort(m)
      <3>1. PICK t \in Texts : /\ Len(t) <= MaxLength /\ answer' = [answer EXCEPT ![m] = t]
                               /\ pieces' = [pieces EXCEPT ![m] = << t >>]
        BY <2>1 DEF SendShort
      <3>2. /\ rest' = rest /\ chatAt[m] = "reply" /\ chatAt' = [chatAt EXCEPT ![m] = "ended"]
        BY <2>1 DEF SendShort, ChatGoes
      <3>3. rest[m] = << >>  BY <3>2 DEF ChatInv, Replies
      <3>4. /\ answer'[m] = t /\ pieces'[m] = << t >> /\ rest'[m] = << >>
            /\ chatAt'[m] = "ended"
        BY <1>2, <3>1, <3>2, <3>3
      <3>5. t \in Seq(Bytes) /\ Len(t) \in 1 .. MaxLength
        BY <1>4, <3>1, EmptySeq, LenProperties
      <3>6. << t >> \in Seq(Seq(Bytes)) /\ DOMAIN << t >> = {1} /\ << t >>[1] = t  BY <3>5
      <3>7. answer' \in [Chats -> Texts \cup {<< >>}] /\ pieces' \in [Chats -> Seq(Seq(Bytes))]
        BY <1>2, <3>1, <3>6
      <3>8. \A i \in DOMAIN pieces'[m] : Len(pieces'[m][i]) \in 1 .. MaxLength
        BY <3>4, <3>5, <3>6
      <3>9. FlattenSeq(pieces'[m]) \o rest'[m] = answer'[m]  BY <1>5, <3>4, <3>5
      <3>10. QED  BY <1>2, <3>1, <3>2, <3>4, <3>7, <3>8, <3>9
    <2>2. CASE SendLong(m)
      <3>1. PICK t \in Texts : answer' = [answer EXCEPT ![m] = t] /\ rest' = [rest EXCEPT ![m] = t]
        BY <2>2 DEF SendLong
      <3>2. /\ pieces' = pieces /\ chatAt[m] = "reply"  BY <2>2 DEF SendLong, ChatGoes
      <3>3. pieces[m] = << >>  BY <3>2 DEF ChatInv, Replies
      <3>4. t \in Seq(Bytes) /\ t # << >>  BY <1>4
      <3>5. answer'[m] = t /\ rest'[m] = t /\ pieces'[m] = << >>  BY <1>2, <3>1, <3>2, <3>3
      <3>6. answer' \in [Chats -> Texts \cup {<< >>}] /\ rest' \in [Chats -> Seq(Bytes)]
        BY <1>2, <3>1, <3>4
      <3>7. DOMAIN << >> = {}  OBVIOUS
      <3>8. FlattenSeq(pieces'[m]) \o rest'[m] = answer'[m]  BY <1>5, <3>4, <3>5
      <3>9. QED  BY <1>2, <3>1, <3>2, <3>4, <3>5, <3>6, <3>7, <3>8
    <2>3. CASE SendPiece(m)
      <3> DEFINE t == rest[m]
                 left == SubSeq(t, Len(Piece(t)) + 1, Len(t))
      <3>1. /\ rest' = [rest EXCEPT ![m] = left] /\ answer' = answer
            /\ pieces' = [pieces EXCEPT ![m] = Append(@, Piece(t))]
            /\ chatAt[m] = "sending"
            /\ chatAt' = [chatAt EXCEPT ![m] = IF left = << >> THEN "ended" ELSE "sending"]
               \/ chatAt' = [chatAt EXCEPT ![m] = "ended"]
        BY <2>3 DEF SendPiece, ChatGoes
      <3>2. t \in Seq(Bytes) /\ t # << >>  BY <1>2, <3>1 DEF ChatInv, Replies
      <3>3. /\ Piece(t) \in Seq(Bytes) /\ Len(Piece(t)) \in 1 .. MaxLength
            /\ left \in Seq(Bytes) /\ Piece(t) \o left = t
        BY <3>2, PieceOf
      <3>4. FlattenSeq(pieces[m]) \o t = answer[m]
        BY DEF ChatInv, ChatIsSafe, PiecesAreWhole
      <3>5. \A i \in DOMAIN pieces[m] : Len(pieces[m][i]) \in 1 .. MaxLength
        BY DEF ChatInv, ChatIsSafe, PiecesAreWhole
      <3> HIDE DEF left
      <3>6. /\ rest'[m] = left /\ answer'[m] = answer[m]
            /\ pieces'[m] = Append(pieces[m], Piece(t))
        BY <1>2, <3>1
      <3>7. /\ Append(pieces[m], Piece(t)) \in Seq(Seq(Bytes))
            /\ \A i \in DOMAIN Append(pieces[m], Piece(t)) :
                 \/ i \in DOMAIN pieces[m] /\ Append(pieces[m], Piece(t))[i] = pieces[m][i]
                 \/ Append(pieces[m], Piece(t))[i] = Piece(t)
        <4>1. pieces[m] \in Seq(Seq(Bytes))  BY <1>2
        <4>2. QED  BY <3>3, <4>1, AppendProperties, LenProperties
      <3>8. FlattenSeq(pieces'[m]) \o rest'[m] = answer'[m]
        <4>1. pieces[m] \in Seq(Seq(Bytes))  BY <1>2
        <4>2. /\ FlattenSeq(pieces[m]) \in Seq(Bytes)
              /\ FlattenSeq(Append(pieces[m], Piece(t))) = FlattenSeq(pieces[m]) \o Piece(t)
          BY <3>3, <4>1, FlattenAppend
        <4>3. (FlattenSeq(pieces[m]) \o Piece(t)) \o left = FlattenSeq(pieces[m]) \o (Piece(t) \o left)
          <5>1. \A x, y, z \in Seq(Bytes) : (x \o y) \o z = x \o (y \o z)  BY ConcatAssociative
          <5>2. QED  BY <3>3, <4>2, <5>1
        <4>4. QED  BY <3>3, <3>4, <3>6, <4>2, <4>3
      <3>9. chatAt'[m] = "sending" => rest'[m] # << >>  BY <1>2, <3>1, <3>6
      <3>10. rest' \in [Chats -> Seq(Bytes)] /\ pieces' \in [Chats -> Seq(Seq(Bytes))]
        BY <1>2, <3>1, <3>3, <3>7
      <3>11. \A i \in DOMAIN pieces'[m] : Len(pieces'[m][i]) \in 1 .. MaxLength
        BY <3>3, <3>5, <3>6, <3>7
      <3>12. QED  BY <1>2, <3>1, <3>8, <3>9, <3>10, <3>11
    <2>4. QED  BY <2>1, <2>2, <2>3
  <1>7. ChatTypeOK'  BY <1>1, <1>3, <1>6 DEF ChatInv, ChatTypeOK, Bytes
  <1>8. Replies'  BY <1>3, <1>6 DEF ChatInv, Replies
  <1>9. Served'  BY <1>1, <1>3 DEF ChatInv, Served
  <1>10. PiecesAreWhole'  BY <1>6 DEF ChatInv, ChatIsSafe, PiecesAreWhole
  <1>11. SpentIsCharged' /\ StopSilences'
    BY <1>1 DEF ChatInv, ChatIsSafe, SpentIsCharged, StopSilences
  <1>12. QED  BY <1>7, <1>8, <1>9, <1>10, <1>11 DEF ChatInv, ChatIsSafe

\* Every step is one of these.
LEMMA ChatStep == ChatInv /\ [ChatNext]_chatVars => ChatInv'
  <1> SUFFICES ASSUME ChatInv, [ChatNext]_chatVars PROVE ChatInv'  OBVIOUS
  <1>1. CASE RunServe  BY <1>1, GatewayStep
  <1>2. ASSUME NEW m \in Chats, HandleMessage(m) PROVE ChatInv'
    BY <1>2, TalkStep, SendStep DEF HandleMessage
  <1>3. CASE UNCHANGED chatVars
    BY <1>3 DEF chatVars, gwVars, sendVars, taskVars, ChatInv, ChatTypeOK, Replies, Served,
                ChatIsSafe, SpentIsCharged, StopSilences, PiecesAreWhole
  <1>4. QED  BY <1>1, <1>2, <1>3 DEF ChatNext

LEMMA ChatInvariant == ChatSpec => []ChatInv
  BY ChatInitInv, ChatStep, PTL DEF ChatSpec

\* The type invariant of commands by chat.
THEOREM ChatTypeCorrect == ChatSpec => []ChatTypeOK
  <1>1. ChatInv => ChatTypeOK  BY DEF ChatInv
  <1>2. QED  BY <1>1, ChatInvariant, PTL

\* Commands by chat are charged, stopped and answered: for any messages, channels and
\* texts, and any length of a message.
THEOREM ChatCorrect == ChatSpec => []ChatIsSafe
  <1>1. ChatInv => ChatIsSafe  BY DEF ChatInv
  <1>2. QED  BY <1>1, ChatInvariant, PTL

-----------------------------------------------------------------------------
(* All of them.                                                            *)

\* A behaviour of MCServices is one of each part: of the part in focus the one that it
\* takes, of the others one that only stutters.
LEMMA PartsInit ==
  Init => /\ CostInit /\ RegistryInit /\ StdioInit /\ WsInit /\ CliInit /\ SchemaInit
          /\ DeskInit /\ SortInit /\ ChatInit
  BY DEF Init

LEMMA PartsStep ==
  [Next]_servicesVars =>
    /\ [CostNext]_costVars /\ [RegistryNext]_registryVars /\ [StdioNext]_stdioVars
    /\ [WsNext]_wsVars /\ [CliNext]_cliVars /\ [SchemaNext]_schemaVars /\ [DeskNext]_deskVars
    /\ [SortNext]_sortVars /\ [ChatNext]_chatVars
  <1>1. Next => /\ [CostNext]_costVars /\ [RegistryNext]_registryVars /\ [StdioNext]_stdioVars
                /\ [WsNext]_wsVars /\ [CliNext]_cliVars /\ [SchemaNext]_schemaVars
                /\ [DeskNext]_deskVars /\ [SortNext]_sortVars /\ [ChatNext]_chatVars
    BY DEF Next, NoCost, NoRegistry, NoStdio, NoWs, NoCli, NoSchema, NoDesk, NoSort, NoChat
  <1>2. UNCHANGED servicesVars =>
          UNCHANGED <<costVars, registryVars, stdioVars, wsVars, cliVars, schemaVars, deskVars,
                      sortVars, chatVars>>
    BY DEF servicesVars
  <1>3. QED  BY <1>1, <1>2

\* The types of every part, whatever the constants: the adapters' and the gateway's
\* goroutines, the counters of cost, the registry and its file, the schema, the rows.
THEOREM ServicesTypeCorrect == Spec => []ServicesTypeOK
  <1>1. Init /\ [][Next]_servicesVars =>
          /\ CostSpec /\ StdioSpec /\ WsSpec /\ CliSpec /\ SchemaSpec /\ DeskSpec /\ ChatSpec
          /\ RegistryInit /\ [][RegistryNext]_registryVars
    BY PartsInit, PartsStep, PTL
       DEF CostSpec, StdioSpec, WsSpec, CliSpec, SchemaSpec, DeskSpec, ChatSpec
  <1>2. ServicesTypeOK <=>
          /\ CostTypeOK /\ RegistryTypeOK /\ StdioTypeOK /\ WsTypeOK /\ CliTypeOK
          /\ SchemaTypeOK /\ DeskTypeOK /\ ChatTypeOK
    BY DEF ServicesTypeOK
  <1>3. QED
    BY <1>1, <1>2, CostTypeCorrect, RegistryTyped, StdioTypeCorrect, WsTypeCorrect,
       CliTypeCorrect, SchemaTypeCorrect, DeskTypeCorrect, ChatTypeCorrect, PTL DEF Spec
=============================================================================
