------------------------------- MODULE Store -------------------------------
(***************************************************************************)
(* The rows of the store (pkg/storage) that the HTTP handlers work on, and *)
(* the effect of each statement on them.  A statement is a transaction.    *)
(* The backend is SQLite, opened without foreign keys: no statement looks  *)
(* at a table other than its own, and no delete cascades.                  *)
(*                                                                         *)
(* A table is a function from the keys it has to its rows.  A row keeps    *)
(* the references to other tables and the status.                          *)
(***************************************************************************)
EXTENDS Naturals, FiniteSets, Functions

VARIABLES agentRows, taskRows, goalRows, projectRows, issueRows

rows == <<agentRows, taskRows, goalRows, projectRows, issueRows>>

Empty == [k \in {} |-> {}]
StoreInit ==
  /\ agentRows = Empty /\ taskRows = Empty /\ goalRows = Empty
  /\ projectRows = Empty /\ issueRows = Empty

\* INSERT, of a key that the table does not have; it fails on one that it has.
Inserted(table, k, row) == [x \in DOMAIN table \cup {k} |-> IF x = k THEN row ELSE table[x]]
\* UPDATE ... WHERE: no error when there is no such row.
Updated(table, k, row) == IF k \in DOMAIN table THEN [table EXCEPT ![k] = row] ELSE table
\* DELETE.  DeleteAgent reports a missing row, the others do not.
Deleted(table, k) == Restrict(table, DOMAIN table \ {k})

-----------------------------------------------------------------------------
CreateAgent(a) == a \notin DOMAIN agentRows /\ agentRows' = Inserted(agentRows, a, "Created")
DeleteAgent(a) == a \in DOMAIN agentRows /\ agentRows' = Deleted(agentRows, a)

\* The agent of the task need not exist.
CreateTask(t, row) == t \notin DOMAIN taskRows /\ taskRows' = Inserted(taskRows, t, row)
UpdateTask(t, row) == taskRows' = Updated(taskRows, t, row)

\* A phase that is not given is stored as active.
CreateGoal(g) ==
  /\ g \notin DOMAIN goalRows
  /\ goalRows' = Inserted(goalRows, g, [phase |-> "active", status |-> "active"])
UpdateGoal(g, row) == goalRows' = Updated(goalRows, g, row)
DeleteGoal(g) == goalRows' = Deleted(goalRows, g)

CreateProject(p, goal) == p \notin DOMAIN projectRows /\ projectRows' = Inserted(projectRows, p, goal)
DeleteProject(p) == projectRows' = Deleted(projectRows, p)

CreateIssue(i, project) == i \notin DOMAIN issueRows /\ issueRows' = Inserted(issueRows, i, project)
DeleteIssue(i) == issueRows' = Deleted(issueRows, i)
=============================================================================
