---------------------------- MODULE StoreSchema ----------------------------
(***************************************************************************)
(* The schema of the store (pkg/storage): the migrations that New runs     *)
(* each time a process opens the database, and the columns that the        *)
(* statements of the two backends name.  A database file may come from any *)
(* older version; a process may end between two migrations; and an ALTER   *)
(* whose error is ignored may have failed because another process, opctl   *)
(* or the daemon, had the file locked.                                     *)
(*                                                                         *)
(* The columns that a table has had in every version are not told apart: a *)
(* table that exists has them.                                             *)
(***************************************************************************)
EXTENDS Naturals, Sequences, FiniteSets

CONSTANTS
  MaxOpens,  \* bound on the number of times the database is opened
  MaxLocked  \* bound on the ALTERs that find the database locked

ASSUME SchemaAssumption == MaxOpens \in Nat /\ MaxLocked \in Nat

VARIABLES
  backend,   \* "sqlite" or "postgres"
  schema,    \* schema[t]: whether table t exists, and the columns added to it since
  migration, \* the number of the next migration, 0 when the database is closed
  opens,     \* how often it has been opened
  locked     \* the ALTERs that were locked out since it was opened

schemaVars == <<backend, schema, migration, opens, locked>>

Tables == {"agents", "tasks", "workflows", "workflow_runs", "goals", "projects", "issues",
           "federated_goal_runs", "federated_goal_projects"}
Absent == [exists |-> FALSE, columns |-> {}]

-----------------------------------------------------------------------------
\* The columns that came later.  TaskColumns and PlanColumns are in today's CREATE TABLE
\* too, for a new file; GoalColumns and TraceColumns are only added by ALTER TABLE.
TaskColumns  == {"issue_id", "project_id", "goal_id", "lineage_json"}
PlanColumns  == {"phase", "spec_yaml", "decomposition_plan", "decompose_cost"}
GoalColumns  == {"owner", "deadline", "status", "tokens_in", "tokens_out", "cost"}
TraceColumns == {"goal_id", "trace_id", "span_id", "parent_spans", "lineage_json"}

Create(t, cols) == [does |-> "create", table |-> t, columns |-> cols]
Alter(t, cols)  == [does |-> "alter", table |-> t, columns |-> cols]

\* The ALTERs of one list are one migration here: each is a statement of its own, and
\* AlterTable does any part of them.
BaseTables ==
  << Create("agents", {}), Create("tasks", TaskColumns), Create("workflows", {}),
     Create("workflow_runs", {}), Create("goals", PlanColumns) >>

AlterGoalsAndTasks ==
  << Alter("goals", PlanColumns \cup GoalColumns), Alter("tasks", TaskColumns) >>

LaterTables ==
  << Create("projects", {}), Create("issues", {}),
     Create("federated_goal_runs", {}), Create("federated_goal_projects", {}) >>

SqliteMigrations ==
  BaseTables \o AlterGoalsAndTasks \o LaterTables \o << Alter("issues", TraceColumns) >>

PostgresMigrations ==
  << Create("agents", {}), Create("tasks", {}), Create("workflows", {}),
     Create("workflow_runs", {}), Create("goals", PlanColumns) >>

Migrations == IF backend = "sqlite" THEN SqliteMigrations ELSE PostgresMigrations

-----------------------------------------------------------------------------
\* What a statement needs: its table, and those of the later columns that it names.
Needs(t, cols) == [table |-> t, columns |-> cols]

AgentStatements    == { Needs("agents", {}) }
TaskStatements     == { Needs("tasks", TaskColumns) }
WorkflowStatements == { Needs("workflows", {}) }
RunStatements      == { Needs("workflow_runs", {}) }
\* GetGoal and ListGoals do not read the owner and the deadline.
GoalStatements     == { Needs("goals", (PlanColumns \cup GoalColumns) \ unread) :
                          unread \in {{}, {"owner", "deadline"}} }
GoalStatsStatement == { Needs("tasks", {"goal_id"}) }
ProjectStatements  == { Needs("projects", {}), Needs("tasks", {"project_id"}) }
IssueStatements    == { Needs("issues", TraceColumns) }
FederationStatements ==
  { Needs("federated_goal_runs", {}), Needs("federated_goal_projects", {}) }

SqliteStatements ==
  AgentStatements \cup TaskStatements \cup WorkflowStatements \cup RunStatements
  \cup GoalStatements \cup GoalStatsStatement \cup ProjectStatements \cup IssueStatements
  \cup FederationStatements

PgAgentStatements    == { Needs("agents", {}) }
PgTaskStatements     == { Needs("tasks", {}) }
PgWorkflowStatements == { Needs("workflows", {}) }
PgRunStatements      == { Needs("workflow_runs", {}) }
\* INSERT fits the table; SELECT and UPDATE name columns that nothing adds to it.
PgCreateGoal         == { Needs("goals", PlanColumns) }
PgGoalStatements     == { Needs("goals", PlanColumns \cup (GoalColumns \ {"owner", "deadline"})) }
\* GoalStats, ProjectStats, and the tables that no migration creates.
PgHierarchyStatements ==
  { Needs("tasks", {"goal_id"}), Needs("tasks", {"project_id"}), Needs("projects", {}),
    Needs("issues", {}) }
PgFederationStatements ==
  { Needs("federated_goal_runs", {}), Needs("federated_goal_projects", {}) }

PostgresStatements ==
  PgAgentStatements \cup PgTaskStatements \cup PgWorkflowStatements \cup PgRunStatements
  \cup PgCreateGoal \cup PgGoalStatements \cup PgHierarchyStatements \cup PgFederationStatements

Statements == IF backend = "sqlite" THEN SqliteStatements ELSE PostgresStatements

Fits(s) == schema[s.table].exists /\ s.columns \subseteq schema[s.table].columns

\* The part of the interface Store that the Postgres backend does not carry: its schema
\* was never brought up to date (docs/v0.5-traceability-otel-release.md:232).
Unsynced == PgGoalStatements \cup PgHierarchyStatements \cup PgFederationStatements

-----------------------------------------------------------------------------
\* A table as an older version left it, and some of its ALTERs as well.
OlderTable(added) ==
  { Absent } \cup { [exists |-> TRUE, columns |-> cols] : cols \in added }

SchemaInit ==
  /\ backend \in {"sqlite", "postgres"} /\ migration = 0 /\ opens = 0 /\ locked = {}
  /\ \E goals \in OlderTable({{}, PlanColumns}), tasks \in OlderTable({{}}),
        issues \in OlderTable({{}, {"goal_id"}}) :
       schema = [t \in Tables |-> CASE t = "goals" -> goals [] t = "tasks" -> tasks
                                    [] t = "issues" -> issues [] OTHER -> Absent]
  /\ backend = "postgres" => \A t \in Tables : schema[t] = Absent

Closed   == migration = 0
IsOpen   == migration = Len(Migrations) + 1

Open ==
  /\ Closed /\ opens < MaxOpens
  /\ migration' = 1 /\ opens' = opens + 1 /\ locked' = {}
  /\ UNCHANGED <<backend, schema>>

Current == Migrations[migration]
Migrating(does) == ~Closed /\ ~IsOpen /\ Current.does = does

\* CREATE TABLE IF NOT EXISTS: a table that is there stays as it is.  An error ends New.
CreateTable ==
  /\ Migrating("create")
  /\ schema' = IF schema[Current.table].exists THEN schema
               ELSE [schema EXCEPT ![Current.table] = [exists  |-> TRUE,
                                                       columns |-> Current.columns]]
  /\ migration' = migration + 1
  /\ UNCHANGED <<backend, opens, locked>>

\* ALTER TABLE ADD COLUMN, one by one: a column that is there already is an error, and
\* every error is ignored.  The mutant takes the first error for the end of the list.
AlterUntilError ==
  /\ Migrating("alter")
  /\ schema' = IF schema[Current.table].columns \cap Current.columns # {} THEN schema
               ELSE [schema EXCEPT ![Current.table].columns = @ \cup Current.columns]
  /\ migration' = migration + 1
  /\ UNCHANGED <<backend, opens, locked>>

AlterTable ==
  /\ Migrating("alter")
  /\ schema' = [schema EXCEPT ![Current.table].columns = @ \cup Current.columns]
  /\ migration' = migration + 1
  /\ UNCHANGED <<backend, opens, locked>>

\* Some column is not added, because the database is locked: that is ignored too.
AlterLocked ==
  /\ Migrating("alter") /\ Cardinality(locked) < MaxLocked
  /\ \E col \in Current.columns \ schema[Current.table].columns :
       schema' = [schema EXCEPT ![Current.table].columns = @ \cup (Current.columns \ {col})]
  /\ locked' = locked \cup {migration} /\ migration' = migration + 1
  /\ UNCHANGED <<backend, opens>>

\* The process ends, in the middle of the migrations or later; within a list of ALTERs
\* one may be done and the others not.
OpenerEnds ==
  /\ ~Closed
  /\ migration' = 0
  /\ \/ UNCHANGED schema
     \/ /\ Migrating("alter")
        /\ \E col \in Current.columns :
             schema' = [schema EXCEPT ![Current.table].columns = @ \cup {col}]
  /\ UNCHANGED <<backend, opens, locked>>

SchemaNext == Open \/ CreateTable \/ AlterTable \/ AlterLocked \/ OpenerEnds

SchemaSpec == SchemaInit /\ [][SchemaNext]_schemaVars

-----------------------------------------------------------------------------
SchemaTypeOK ==
  /\ backend \in {"sqlite", "postgres"}
  /\ schema \in [Tables -> [exists : BOOLEAN,
                            columns : SUBSET (TaskColumns \cup PlanColumns \cup GoalColumns
                                              \cup TraceColumns)]]
  /\ migration \in 0 .. Len(Migrations) + 1
  /\ opens \in 0 .. MaxOpens /\ locked \subseteq 1 .. Len(Migrations)

\* A store that New returns can run every statement it has: whatever older version
\* the file is from, and wherever an earlier process ended, unless an ALTER was locked
\* out in this very New.  Postgres lacks what its schema was never given.
StatementsFit ==
  (IsOpen /\ locked = {}) =>
    \A s \in Statements : Fits(s) \/ (backend = "postgres" /\ s \in Unsynced)
=============================================================================
