------------------------ MODULE FederatedGoalProofs ------------------------
(***************************************************************************)
(* What holds of a federated goal for every set of projects, every request *)
(* and every bound on crashes, failed writes and lost callbacks; and, at   *)
(* the end, what holds only in an environment that is Calm.                *)
(***************************************************************************)
EXTENDS FederatedGoal, TLAPS

Rows == [Projects -> ProjectRecord]

\* EffectiveMaxRounds never exceeds MaxRounds.
LEMMA Rounds == \A v : EffectiveMaxRounds(v) \in 0 .. MaxRounds
BY DEF EffectiveMaxRounds, MaxRetries, MaxRounds

\* The assignments to a project keep the table of projects well typed.
LEMMA Assignments ==
  ASSUME NEW f \in Rows, NEW p \in Projects, NEW s \in Status, NEW b \in BOOLEAN
  PROVE  /\ [f EXCEPT ![p].status = s] \in Rows
         /\ [f EXCEPT ![p].status = s, ![p].output = b] \in Rows
         /\ [f EXCEPT ![p].round = @ + 1] \in Rows
<1>1. f[p] \in ProjectRecord
  BY DEF Rows
<1>2. [f EXCEPT ![p].status = s] \in Rows
  BY <1>1 DEF Rows, ProjectRecord
<1>3. [f EXCEPT ![p].status = s, ![p].output = b] \in Rows
  BY <1>1 DEF Rows, ProjectRecord
<1>4. [f EXCEPT ![p].round = @ + 1] \in Rows
  <2>1. f[p].round + 1 \in Nat
    BY <1>1 DEF ProjectRecord
  <2>2. [f[p] EXCEPT !.round = @ + 1] \in ProjectRecord
    BY <1>1, <2>1 DEF ProjectRecord
  <2> QED
    BY <2>2 DEF Rows
<1> QED
  BY <1>2, <1>3, <1>4

\* ... and so does Mark.
LEMMA MarkTyped ==
  ASSUME proj \in Rows, NEW p \in Projects
  PROVE  \A s \in Status : Mark(p, s) \in Rows
BY Assignments, TRUE \in BOOLEAN DEF Mark

\* Marking a project changes a status and no round.
LEMMA MarkKeepsRounds ==
  ASSUME proj \in Rows, NEW p \in Projects, NEW s
  PROVE  \A q \in Projects : Mark(p, s)[q].round = proj[q].round
<1>1. TAKE q \in Projects
<1>2. proj[q] \in ProjectRecord
  BY DEF Rows
<1>3. CASE q = p
  <2>1. Mark(p, s)[q] = [proj[q] EXCEPT !.status = s]
    BY <1>3 DEF Mark, Rows
  <2> QED
    BY <1>2, <2>1 DEF ProjectRecord
<1>4. CASE q # p
  BY <1>4 DEF Mark, Rows
<1> QED
  BY <1>3, <1>4

\* What PublishRun and Crash put into the table, and what a callback queue is.
LEMMA InitialValues ==
  /\ Fresh \in ProjectRecord
  /\ [p \in Projects |-> Fresh] \in Rows
  /\ NoCallbacks \in [Projects -> [Outcome -> Nat]]
<1>1. Fresh \in ProjectRecord
  BY DEF Fresh, ProjectRecord, Status
<1>2. [p \in Projects |-> Fresh] \in Rows
  BY <1>1 DEF Rows
<1>3. [o \in Outcome |-> 0] \in [Outcome -> Nat]
  OBVIOUS
<1> QED
  BY <1>1, <1>2, <1>3 DEF NoCallbacks

\* A write of a row, whether it succeeds or not.
LEMMA SyncTyped ==
  ASSUME dbProj \in Rows, dbFaults \in Nat, proj' \in Rows,
         NEW p \in Projects, SyncProject(p)
  PROVE  dbProj' \in Rows /\ dbFaults' \in Nat
BY DEF SyncProject, DbFault, Rows

LEMMA TypeInit == Init => TypeOK
<1> USE RequestsAssumption, OutcomesAssumption, BoundsAssumption, NoneAssumption
<1> USE DEF TypeOK
<1> HAVE Init
<1>1. proj \in Rows /\ dbProj \in Rows /\ callbacks \in [Projects -> [Outcome -> Nat]]
  BY InitialValues DEF Init
<1>2. /\ tasks \in [Projects -> Nat] /\ sends \in [Projects -> Nat]
      /\ followUps \in [Projects -> Nat]
  BY DEF Init
<1> QED
  BY <1>1, <1>2 DEF Init, Rows

LEMMA TypeStep == TypeOK /\ [Next]_vars => TypeOK'
<1> SUFFICES ASSUME TypeOK, [Next]_vars PROVE TypeOK'
  OBVIOUS
<1> USE RequestsAssumption, OutcomesAssumption, BoundsAssumption, NoneAssumption
<1> USE DEF TypeOK, reqVars, memVars, advVars, netVars, dbVars, history, DbFault, SaveRun,
            SaveGoal
<1>1. CASE CreateGoal
  BY <1>1 DEF CreateGoal
<1>2. CASE PublishRun
  BY <1>2, InitialValues DEF PublishRun, Rows
<1>3. ASSUME NEW p \in Projects, PersistProject(p) PROVE TypeOK'
  <2>1. dbProj' \in Rows
    BY <1>3 DEF PersistProject, Rows
  <2> QED
    BY <1>3, <2>1 DEF PersistProject, FirstLayer, Rows
<1>4. ASSUME NEW p \in Projects, RefuseFirst(p) PROVE TypeOK'
  <2>1. proj' \in Rows
    <3>1. proj' = Mark(p, "Running") \/ proj' = Mark(p, "Failed")
      BY <1>4 DEF RefuseFirst
    <3> QED
      BY <3>1, MarkTyped DEF Rows, Status
  <2> QED
    BY <1>4, <2>1 DEF RefuseFirst, AfterFirst, Rows
<1>5. ASSUME NEW p \in Projects, SendFirst(p) PROVE TypeOK'
  BY <1>5 DEF SendFirst
<1>6. ASSUME NEW p \in Projects, FirstAnswered(p) PROVE TypeOK'
  <2>1. proj' \in Rows
    <3>1. proj' = Mark(p, "Running") \/ proj' = Mark(p, "Failed")
      BY <1>6 DEF FirstAnswered
    <3> QED
      BY <3>1, MarkTyped DEF Rows, Status
  <2> QED
    BY <1>6, <2>1 DEF FirstAnswered, AfterFirst, Rows
<1>7. ASSUME NEW p \in Projects, NEW o \in Outcome, IgnoreCallback(p, o) PROVE TypeOK'
  BY <1>7 DEF IgnoreCallback, TakeCallback
<1>8. ASSUME NEW p \in Projects, NEW v \in Verdicts, RejectResult(p, v) PROVE TypeOK'
  <2>1. proj' \in Rows
    BY <1>8, Assignments DEF RejectResult, Rows, Status, HasOutput
  <2>2. dbProj' \in Rows /\ dbFaults' \in Nat
    BY <1>8, <2>1, SyncTyped DEF RejectResult, Rows
  <2> QED
    BY <1>8, <2>1, <2>2 DEF RejectResult, Rows
<1>9. ASSUME NEW p \in Projects, NEW v \in Verdicts, AcceptResult(p, v) PROVE TypeOK'
  <2>1. proj' \in Rows
    BY <1>9, Assignments DEF AcceptResult, Rows, Status, HasOutput
  <2>2. dbProj' \in Rows /\ dbFaults' \in Nat
    BY <1>9, <2>1, SyncTyped DEF AcceptResult, Rows
  <2> QED
    BY <1>9, <2>1, <2>2 DEF AcceptResult, Rows
<1>10. ASSUME NEW p \in Projects, ProjectFailed(p) PROVE TypeOK'
  <2>1. proj' \in Rows
    BY <1>10, Assignments DEF ProjectFailed, Rows, Status
  <2>2. dbProj' \in Rows /\ dbFaults' \in Nat
    BY <1>10, <2>1, SyncTyped DEF ProjectFailed, Rows
  <2> QED
    BY <1>10, <2>1, <2>2 DEF ProjectFailed, Rows, TakeCallback, Dependents, Outcome
<1>11. ASSUME NEW p \in Projects, CascadeFailure(p) PROVE TypeOK'
  <2>1. proj' \in Rows
    BY <1>11, Assignments DEF CascadeFailure, Rows, Status
  <2>2. dbProj' \in Rows /\ dbFaults' \in Nat
    BY <1>11, <2>1, SyncTyped DEF CascadeFailure, Rows
  <2> QED
    BY <1>11, <2>1, <2>2 DEF CascadeFailure, Rows
<1>12. ASSUME NEW p \in Projects, ProjectCompleted(p) PROVE TypeOK'
  <2>1. proj' \in Rows
    BY <1>12, Assignments DEF ProjectCompleted, Rows, Status
  <2> QED
    BY <1>12, <2>1 DEF ProjectCompleted, TakeCallback, Outcome, Rows
<1>13. ASSUME NEW p \in Projects, SendFollowUp(p) PROVE TypeOK'
  BY <1>13 DEF SendFollowUp
<1>14. ASSUME NEW p \in Projects, FollowUpFails(p) PROVE TypeOK'
  <2>1. proj' \in Rows
    <3>1. proj' = Mark(p, "Running") \/ proj' = Mark(p, "Failed")
      BY <1>14 DEF FollowUpFails
    <3> QED
      BY <3>1, MarkTyped DEF Rows, Status
  <2>2. tasks' \in [Projects -> Nat] /\ followUps' \in [Projects -> Nat]
    BY <1>14 DEF FollowUpFails
  <2> QED
    BY <1>14, <2>1, <2>2 DEF FollowUpFails, Rows
<1>15. ASSUME NEW p \in Projects, DispatchReady(p) PROVE TypeOK'
  <2>1. proj' \in Rows
    <3>1. proj' = Mark(p, "Running") \/ proj' = Mark(p, "Failed")
      BY <1>15 DEF DispatchReady
    <3> QED
      BY <3>1, MarkTyped DEF Rows, Status
  <2>2. /\ tasks' = tasks \/ tasks' = [tasks EXCEPT ![p] = @ + 1]
        /\ sends' = sends \/ sends' = [sends EXCEPT ![p] = @ + 1]
    BY <1>15 DEF DispatchReady
  <2>3. tasks' \in [Projects -> Nat]
    BY <2>2
  <2>4. sends' \in [Projects -> Nat]
    BY <2>2
  <2> QED
    BY <1>15, <2>1, <2>3, <2>4 DEF DispatchReady, Rows
<1>16. CASE ScanReady
  BY <1>16 DEF ScanReady
<1>17. CASE LeaveOpen
  BY <1>17 DEF LeaveOpen
<1>18. CASE CloseRun
  BY <1>18 DEF CloseRun
<1>19. CASE RecordGoal
  BY <1>19 DEF RecordGoal
<1>20. ASSUME NEW p \in Projects, NEW o \in Outcome, RemoteFinish(p, o) PROVE TypeOK'
  BY <1>20 DEF RemoteFinish
<1>21. ASSUME NEW p \in Projects, RemoteLost(p) PROVE TypeOK'
  BY <1>21 DEF RemoteLost
<1>22. CASE Crash
  <2>1. proj' \in Rows /\ callbacks' \in [Projects -> [Outcome -> Nat]]
    BY <1>22, InitialValues DEF Crash
  <2>2. /\ createTodo' \subseteq Projects /\ sending' \in Projects \cup {None}
        /\ known' \subseteq Projects /\ results' \subseteq Projects
        /\ advProj' \in Projects \cup {None} /\ advTodo' \subseteq Projects
        /\ crashes' \in Nat
    BY <1>22 DEF Crash
  <2> QED
    BY <1>22, <2>1, <2>2 DEF Crash, Rows
<1>23. CASE Restart
  <2>1. proj' \in Rows
    BY <1>23, InitialValues DEF Restart, Rows
  <2>2. /\ known' \subseteq Projects /\ results' \subseteq Projects
        /\ loaded' \in BOOLEAN /\ runStatus' \in {"InProgress", "Completed", "Failed"}
    BY <1>23 DEF Restart
  <2> QED
    BY <1>23, <2>1, <2>2 DEF Restart, Rows
<1>24. CASE UNCHANGED vars
  BY <1>24 DEF vars
<1> QED
  BY <1>1, <1>2, <1>3, <1>4, <1>5, <1>6, <1>7, <1>8, <1>9, <1>10, <1>11, <1>12,
     <1>13, <1>14, <1>15, <1>16, <1>17, <1>18, <1>19, <1>20, <1>21, <1>22, <1>23,
     <1>24 DEF Next, Handler, Advance, Companies, Environment

\* The variables have their types.
THEOREM TypeCorrect == Spec => []TypeOK
BY TypeInit, TypeStep, PTL DEF Spec

-----------------------------------------------------------------------------
(* The order of the DAG.                                                   *)

\* Why DependencyOrder survives: "Completed", in memory or in a row, always
\* means accepted, and what a handler has still to send has been found ready.
Order ==
  /\ \A p \in Projects : proj[p].status = "Completed" => p \in accepted
  /\ \A p \in Projects : dbProj[p].status = "Completed" => p \in accepted
  /\ adv = "dispatch" => \A p \in advTodo : deps[p] \subseteq accepted
  /\ create \in {"dispatch", "ack"} => \A p \in createTodo : deps[p] = {}
  /\ DependencyOrder

\* What a write of one row does to the table.
LEMMA SyncEffect ==
  ASSUME dbProj \in Rows, NEW p \in Projects, SyncProject(p)
  PROVE  /\ \A q \in Projects : dbProj'[q] # dbProj[q] => q = p /\ dbProj'[q] = proj'[q]
         /\ \/ dbFaults' = dbFaults /\ (p \in dbRows => dbProj'[p] = proj'[p])
            \/ dbFaults' = dbFaults + 1
BY DEF SyncProject, DbFault, Rows

LEMMA OrderInit == Init => Order
BY DEF Init, Order, DependencyOrder, Fresh

LEMMA OrderStep == TypeOK /\ Order /\ [Next]_vars => Order'
<1> SUFFICES ASSUME TypeOK, Order, [Next]_vars PROVE Order'
  OBVIOUS
<1> USE DEF Order, DependencyOrder, reqVars, memVars, advVars, netVars, dbVars, history
<1>t. /\ proj \in Rows /\ dbProj \in Rows
      /\ sends \in [Projects -> Nat]
      /\ createTodo \subseteq Projects /\ advTodo \subseteq Projects
      /\ known \subseteq Projects
      /\ deps \in [Projects -> SUBSET Projects]
  BY RequestsAssumption DEF TypeOK, Rows
<1>1. CASE CreateGoal
  BY <1>1 DEF CreateGoal
<1>2. CASE PublishRun
  BY <1>2 DEF PublishRun, Fresh
<1>3. ASSUME NEW p \in Projects, PersistProject(p) PROVE Order'
  <2>1. \A q \in Projects : dbProj'[q] # dbProj[q] => dbProj'[q] = proj[q]
    BY <1>3, <1>t DEF PersistProject, Rows
  <2>2. create' \in {"dispatch", "ack"} => \A q \in createTodo' : deps[q] = {}
    BY <1>3, <1>t DEF PersistProject, FirstLayer
  <2> QED
    BY <1>3, <2>1, <2>2 DEF PersistProject
<1>4. ASSUME NEW p \in Projects, RefuseFirst(p) PROVE Order'
  <2>1. \A q \in Projects : proj'[q].status = "Completed" => proj[q].status = "Completed"
    BY <1>4, <1>t DEF RefuseFirst, Mark, Rows, ProjectRecord
  <2> QED
    BY <1>4, <2>1 DEF RefuseFirst
<1>5. ASSUME NEW p \in Projects, SendFirst(p) PROVE Order'
  <2>1. deps[p] = {} /\ \A q \in Projects : sends'[q] > 0 => q = p \/ sends[q] > 0
    BY <1>5, <1>t DEF SendFirst
  <2> QED
    BY <1>5, <2>1 DEF SendFirst
<1>6. ASSUME NEW p \in Projects, FirstAnswered(p) PROVE Order'
  <2>1. \A q \in Projects : proj'[q].status = "Completed" => proj[q].status = "Completed"
    BY <1>6, <1>t DEF FirstAnswered, Rows, ProjectRecord, Mark
  <2> QED
    BY <1>6, <2>1 DEF FirstAnswered
<1>7. ASSUME NEW p \in Projects, NEW o \in Outcome, IgnoreCallback(p, o) PROVE Order'
  BY <1>7 DEF IgnoreCallback
<1>8. ASSUME NEW p \in Projects, NEW v \in Verdicts, RejectResult(p, v) PROVE Order'
  <2>1. \A r \in Projects : proj'[r].status = "Completed" => proj[r].status = "Completed"
    BY <1>8, <1>t DEF RejectResult, Rows, ProjectRecord
  <2>2. \A r \in Projects : dbProj'[r].status = "Completed" =>
          dbProj[r].status = "Completed" \/ proj'[r].status = "Completed"
    BY <1>8, <1>t, SyncEffect DEF RejectResult
  <2> QED
    BY <1>8, <2>1, <2>2 DEF RejectResult
<1>9. ASSUME NEW p \in Projects, NEW v \in Verdicts, AcceptResult(p, v) PROVE Order'
  <2>1. \A q \in Projects : proj'[q].status = "Completed" =>
          q = p \/ proj[q].status = "Completed"
    BY <1>9, <1>t DEF AcceptResult, Rows, ProjectRecord
  <2>2. \A q \in Projects : dbProj'[q].status = "Completed" =>
          dbProj[q].status = "Completed" \/ proj'[q].status = "Completed"
    BY <1>9, <1>t, SyncEffect DEF AcceptResult
  <2> QED
    BY <1>9, <2>1, <2>2 DEF AcceptResult
<1>10. ASSUME NEW p \in Projects, ProjectFailed(p) PROVE Order'
  <2>1. \A r \in Projects : proj'[r].status = "Completed" => proj[r].status = "Completed"
    BY <1>10, <1>t DEF ProjectFailed, Rows, ProjectRecord
  <2>2. \A r \in Projects : dbProj'[r].status = "Completed" =>
          dbProj[r].status = "Completed" \/ proj'[r].status = "Completed"
    BY <1>10, <1>t, SyncEffect DEF ProjectFailed
  <2> QED
    BY <1>10, <2>1, <2>2 DEF ProjectFailed
<1>11. ASSUME NEW p \in Projects, CascadeFailure(p) PROVE Order'
  <2>1. \A r \in Projects : proj'[r].status = "Completed" => proj[r].status = "Completed"
    BY <1>11, <1>t DEF CascadeFailure, Rows, ProjectRecord
  <2>2. \A r \in Projects : dbProj'[r].status = "Completed" =>
          dbProj[r].status = "Completed" \/ proj'[r].status = "Completed"
    BY <1>11, <1>t, SyncEffect DEF CascadeFailure
  <2> QED
    BY <1>11, <2>1, <2>2 DEF CascadeFailure
<1>12. ASSUME NEW p \in Projects, ProjectCompleted(p) PROVE Order'
  <2>1. \A q \in Projects : proj'[q].status = proj[q].status
    BY <1>12, <1>t DEF ProjectCompleted, Rows, ProjectRecord
  <2> QED
    BY <1>12, <2>1 DEF ProjectCompleted
<1>13. ASSUME NEW p \in Projects, SendFollowUp(p) PROVE Order'
  BY <1>13 DEF SendFollowUp
<1>14. ASSUME NEW p \in Projects, FollowUpFails(p) PROVE Order'
  <2>1. \A q \in Projects : proj'[q].status = "Completed" => proj[q].status = "Completed"
    BY <1>14, <1>t DEF FollowUpFails, Mark, Rows, ProjectRecord
  <2> QED
    BY <1>14, <2>1 DEF FollowUpFails
<1>15. ASSUME NEW p \in Projects, DispatchReady(p) PROVE Order'
  <2>1. \A q \in Projects : proj'[q].status = "Completed" => proj[q].status = "Completed"
    BY <1>15, <1>t DEF DispatchReady, Rows, ProjectRecord, Mark
  <2>2. \A q \in Projects : sends'[q] > 0 => q = p \/ sends[q] > 0
    BY <1>15, <1>t DEF DispatchReady
  <2>3. deps[p] \subseteq accepted
    BY <1>15 DEF DispatchReady
  <2> QED
    BY <1>15, <2>1, <2>2, <2>3 DEF DispatchReady
<1>16. CASE ScanReady
  BY <1>16, <1>t DEF ScanReady, Ready
<1>17. CASE LeaveOpen
  BY <1>17 DEF LeaveOpen
<1>18. CASE CloseRun
  BY <1>18 DEF CloseRun
<1>19. CASE RecordGoal
  BY <1>19 DEF RecordGoal
<1>20. ASSUME NEW p \in Projects, NEW o \in Outcome, RemoteFinish(p, o) PROVE Order'
  BY <1>20 DEF RemoteFinish
<1>21. ASSUME NEW p \in Projects, RemoteLost(p) PROVE Order'
  BY <1>21 DEF RemoteLost
<1>22. CASE Crash
  BY <1>22 DEF Crash, Fresh
<1>23. CASE Restart
  <2>1. \A q \in Projects : proj'[q].status = "Completed" =>
          proj[q].status = "Completed" \/ dbProj[q].status = "Completed"
    BY <1>23 DEF Restart, Fresh
  <2> QED
    BY <1>23, <2>1 DEF Restart
<1>24. CASE UNCHANGED vars
  BY <1>24 DEF vars
<1> QED
  BY <1>1, <1>2, <1>3, <1>4, <1>5, <1>6, <1>7, <1>8, <1>9, <1>10, <1>11, <1>12, <1>13,
     <1>14, <1>15, <1>16, <1>17, <1>18, <1>19, <1>20, <1>21, <1>22, <1>23, <1>24
     DEF Next, Handler, Advance, Companies, Environment

\* No project is sent before the results of its dependencies were accepted.
THEOREM OrderCorrect == Spec => []DependencyOrder
<1>1. Order => DependencyOrder
  BY DEF Order
<1> QED
  BY <1>1, OrderInit, OrderStep, TypeCorrect, PTL DEF Spec

-----------------------------------------------------------------------------
(* The contract of a dependency graph.                                     *)

\* Whatever a company executes, a callback reports or a handler assesses has
\* once been sent by this master.
Work ==
  /\ \A p \in Projects : tasks[p] > 0 => sends[p] > 0
  /\ \A p \in Projects, o \in Outcome : callbacks[p][o] > 0 => sends[p] > 0
  /\ adv \in {"assess", "followup"} => advProj \in Projects /\ sends[advProj] > 0

LEMMA WorkInit == Init => Work
BY DEF Init, Work, NoCallbacks

LEMMA WorkStep == TypeOK /\ Work /\ [Next]_vars => Work'
<1> SUFFICES ASSUME TypeOK, Work, [Next]_vars PROVE Work'
  OBVIOUS
<1> USE DEF Work, reqVars, memVars, advVars, netVars, dbVars, history
<1>t. /\ tasks \in [Projects -> Nat] /\ sends \in [Projects -> Nat]
      /\ callbacks \in [Projects -> [Outcome -> Nat]]
  BY DEF TypeOK
<1>1. CASE CreateGoal
  BY <1>1 DEF CreateGoal
<1>2. CASE PublishRun
  BY <1>2 DEF PublishRun
<1>3. ASSUME NEW p \in Projects, PersistProject(p) PROVE Work'
  BY <1>3 DEF PersistProject
<1>4. ASSUME NEW p \in Projects, RefuseFirst(p) PROVE Work'
  BY <1>4 DEF RefuseFirst
<1>5. ASSUME NEW p \in Projects, SendFirst(p) PROVE Work'
  <2>1. \A q \in Projects : sends[q] > 0 => sends'[q] > 0
    BY <1>5, <1>t DEF SendFirst
  <2>2. \A q \in Projects : tasks'[q] > 0 => tasks[q] > 0 \/ sends'[q] > 0
    BY <1>5, <1>t DEF SendFirst
  <2>3. callbacks' = callbacks /\ advProj' = advProj
        /\ (adv' \in {"assess", "followup"} => adv \in {"assess", "followup"})
    BY <1>5 DEF SendFirst
  <2>4. \A q \in Projects : tasks'[q] > 0 => sends'[q] > 0
    BY <2>1, <2>2
  <2>5. \A q \in Projects, o \in Outcome : callbacks'[q][o] > 0 => sends'[q] > 0
    BY <2>1, <2>3
  <2> QED
    BY <2>1, <2>3, <2>4, <2>5
<1>6. ASSUME NEW p \in Projects, FirstAnswered(p) PROVE Work'
  BY <1>6 DEF FirstAnswered
<1>7. ASSUME NEW p \in Projects, NEW o \in Outcome, IgnoreCallback(p, o) PROVE Work'
  <2>1. \A q \in Projects, r \in Outcome : callbacks'[q][r] > 0 => callbacks[q][r] > 0
    BY <1>7, <1>t DEF IgnoreCallback, TakeCallback
  <2> QED
    BY <1>7, <2>1 DEF IgnoreCallback
<1>8. ASSUME NEW p \in Projects, NEW v \in Verdicts, RejectResult(p, v) PROVE Work'
  BY <1>8 DEF RejectResult
<1>9. ASSUME NEW p \in Projects, NEW v \in Verdicts, AcceptResult(p, v) PROVE Work'
  BY <1>9 DEF AcceptResult
<1>10. ASSUME NEW p \in Projects, ProjectFailed(p) PROVE Work'
  <2>1. \A q \in Projects, r \in Outcome : callbacks'[q][r] > 0 => callbacks[q][r] > 0
    BY <1>10, <1>t DEF ProjectFailed, TakeCallback
  <2>2. sends[p] > 0
    BY <1>10 DEF ProjectFailed, TakeCallback, Outcome
  <2> QED
    BY <1>10, <2>1, <2>2 DEF ProjectFailed
<1>11. ASSUME NEW p \in Projects, CascadeFailure(p) PROVE Work'
  BY <1>11 DEF CascadeFailure
<1>12. ASSUME NEW p \in Projects, ProjectCompleted(p) PROVE Work'
  <2>1. \A q \in Projects, r \in Outcome : callbacks'[q][r] > 0 => callbacks[q][r] > 0
    BY <1>12, <1>t DEF ProjectCompleted, TakeCallback
  <2>2. sends[p] > 0
    BY <1>12 DEF ProjectCompleted, TakeCallback, Outcome
  <2> QED
    BY <1>12, <2>1, <2>2 DEF ProjectCompleted
<1>13. ASSUME NEW p \in Projects, SendFollowUp(p) PROVE Work'
  <2>1. \A q \in Projects : tasks'[q] > 0 => tasks[q] > 0 \/ q = p
    BY <1>13, <1>t DEF SendFollowUp
  <2>2. sends[p] > 0
    BY <1>13 DEF SendFollowUp
  <2> QED
    BY <1>13, <2>1, <2>2 DEF SendFollowUp
<1>14. ASSUME NEW p \in Projects, FollowUpFails(p) PROVE Work'
  <2>1. \A q \in Projects : tasks'[q] > 0 => tasks[q] > 0 \/ q = p
    BY <1>14, <1>t DEF FollowUpFails
  <2>2. sends[p] > 0
    BY <1>14 DEF FollowUpFails
  <2> QED
    BY <1>14, <2>1, <2>2 DEF FollowUpFails
<1>15. ASSUME NEW p \in Projects, DispatchReady(p) PROVE Work'
  <2>1. \A q \in Projects : sends[q] > 0 => sends'[q] > 0
    BY <1>15, <1>t DEF DispatchReady
  <2>2. \A q \in Projects : tasks'[q] > 0 => tasks[q] > 0 \/ sends'[q] > 0
    BY <1>15, <1>t DEF DispatchReady
  <2>3. callbacks' = callbacks /\ advProj' = advProj
        /\ (adv' \in {"assess", "followup"} => adv \in {"assess", "followup"})
    BY <1>15 DEF DispatchReady
  <2>4. \A q \in Projects : tasks'[q] > 0 => sends'[q] > 0
    BY <2>1, <2>2
  <2>5. \A q \in Projects, o \in Outcome : callbacks'[q][o] > 0 => sends'[q] > 0
    BY <2>1, <2>3
  <2> QED
    BY <2>1, <2>3, <2>4, <2>5
<1>16. CASE ScanReady
  BY <1>16 DEF ScanReady
<1>17. CASE LeaveOpen
  BY <1>17 DEF LeaveOpen
<1>18. CASE CloseRun
  BY <1>18 DEF CloseRun
<1>19. CASE RecordGoal
  BY <1>19 DEF RecordGoal
<1>20. ASSUME NEW p \in Projects, NEW o \in Outcome, RemoteFinish(p, o) PROVE Work'
  <2>1. \A q \in Projects : tasks'[q] > 0 => tasks[q] > 0
    BY <1>20, <1>t DEF RemoteFinish
  <2>2. \A q \in Projects, r \in Outcome :
          callbacks'[q][r] > 0 => callbacks[q][r] > 0 \/ q = p
    BY <1>20, <1>t DEF RemoteFinish
  <2>3. sends[p] > 0
    BY <1>20 DEF RemoteFinish
  <2> QED
    BY <1>20, <2>1, <2>2, <2>3 DEF RemoteFinish
<1>21. ASSUME NEW p \in Projects, RemoteLost(p) PROVE Work'
  <2>1. \A q \in Projects : tasks'[q] > 0 => tasks[q] > 0
    BY <1>21, <1>t DEF RemoteLost
  <2> QED
    BY <1>21, <2>1 DEF RemoteLost
<1>22. CASE Crash
  BY <1>22 DEF Crash, NoCallbacks
<1>23. CASE Restart
  BY <1>23 DEF Restart
<1>24. CASE UNCHANGED vars
  BY <1>24 DEF vars
<1> QED
  BY <1>1, <1>2, <1>3, <1>4, <1>5, <1>6, <1>7, <1>8, <1>9, <1>10, <1>11, <1>12, <1>13,
     <1>14, <1>15, <1>16, <1>17, <1>18, <1>19, <1>20, <1>21, <1>22, <1>23, <1>24
     DEF Next, Handler, Advance, Companies, Environment

\* A step that neither sends a first message nor accepts a result stutters.
LEMMA ContractStutter ==
  ASSUME UNCHANGED <<deps, sends, accepted>>
  PROVE  UNCHANGED DAG!contract
BY DEF DAG!contract

\* A first message to a project whose dependencies were accepted starts it.
LEMMA ContractStart ==
  ASSUME sends \in [Projects -> Nat], NEW p \in Projects,
         deps[p] \subseteq accepted, sends' = [sends EXCEPT ![p] = @ + 1],
         UNCHANGED <<deps, accepted>>
  PROVE  DAG!Next
<1>1. {q \in Projects : sends'[q] > 0} = {q \in Projects : sends[q] > 0} \cup {p}
  OBVIOUS
<1> QED
  BY <1>1 DEF DAG!Next, DAG!Start

\* Every step of the goal is a step of the contract, or changes nothing in it.
LEMMA ContractStep == TypeOK /\ Order /\ Work /\ [Next]_vars => [DAG!Next]_(DAG!contract)
<1> SUFFICES ASSUME TypeOK, Order, Work, [Next]_vars PROVE [DAG!Next]_(DAG!contract)
  OBVIOUS
<1> USE DEF reqVars, history
<1>t. sends \in [Projects -> Nat]
  BY DEF TypeOK
<1>1. ASSUME NEW p \in Projects, SendFirst(p) PROVE DAG!Next
  <2>1. deps[p] = {}
    BY <1>1 DEF SendFirst, Order
  <2> QED
    BY <1>1, <1>t, <2>1, ContractStart DEF SendFirst
<1>2. ASSUME NEW p \in Projects, DispatchReady(p) PROVE [DAG!Next]_(DAG!contract)
  <2>1. deps[p] \subseteq accepted
    BY <1>2 DEF DispatchReady, Order
  <2>2. CASE sends' = [sends EXCEPT ![p] = @ + 1]
    BY <1>2, <1>t, <2>1, <2>2, ContractStart DEF DispatchReady
  <2>3. CASE UNCHANGED sends
    BY <1>2, <2>3, ContractStutter DEF DispatchReady
  <2> QED
    BY <1>2, <2>2, <2>3 DEF DispatchReady
<1>3. ASSUME NEW p \in Projects, NEW v \in Verdicts, AcceptResult(p, v) PROVE DAG!Next
  <2>1. p \in {q \in Projects : sends[q] > 0}
    BY <1>3 DEF AcceptResult, Work
  <2> QED
    BY <1>3, <2>1 DEF AcceptResult, DAG!Next, DAG!Finish
<1>4. CASE UNCHANGED <<deps, sends, accepted>>
  BY <1>4, ContractStutter
<1>5. \/ UNCHANGED <<deps, sends, accepted>>
      \/ \E p \in Projects : SendFirst(p) \/ DispatchReady(p)
      \/ \E p \in Projects, v \in Verdicts : AcceptResult(p, v)
  <2>1. CASE Handler
    BY <2>1 DEF Handler, CreateGoal, PublishRun, PersistProject, RefuseFirst,
           FirstAnswered
  <2>2. CASE Advance
    BY <2>2 DEF Advance, IgnoreCallback, RejectResult, ProjectFailed,
           CascadeFailure, ProjectCompleted, SendFollowUp, FollowUpFails, ScanReady,
           LeaveOpen, CloseRun, RecordGoal
  <2>3. CASE Companies
    BY <2>3 DEF Companies, RemoteFinish
  <2>4. CASE Environment
    BY <2>4 DEF Environment, RemoteLost, Crash, Restart
  <2>5. CASE UNCHANGED vars
    BY <2>5 DEF vars
  <2> QED
    BY <2>1, <2>2, <2>3, <2>4, <2>5 DEF Next
<1> QED
  BY <1>1, <1>2, <1>3, <1>4, <1>5

\* A federated goal implements DagRun.
THEOREM Refinement == Spec => Contract
<1>1. Init => DAG!Init
  <2> SUFFICES ASSUME Init PROVE DAG!Init
    OBVIOUS
  <2>1. deps \in [Projects -> SUBSET Projects]
    BY RequestsAssumption DEF Init
  <2>2. {p \in Projects : sends[p] > 0} = {} /\ accepted = {}
    BY DEF Init
  <2> QED
    BY <2>1, <2>2 DEF DAG!Init
<1> QED
  BY <1>1, TypeCorrect, OrderInit, OrderStep, WorkInit, WorkStep, ContractStep, PTL
     DEF Spec, Contract, DAG!Spec

-----------------------------------------------------------------------------
(* The bound on a dialogue.                                                *)

\* Every follow-up that was sent, or is due, is counted by a round, in memory
\* and, but for failed writes, in the rows a restart would continue from.
Dialogue ==
  /\ create \in {"request", "rejected", "publish"} =>
       /\ ~loaded /\ adv = "idle"
       /\ \A p \in Projects : followUps[p] = 0
  /\ ~up => create = "done" /\ adv = "idle"
  /\ create = "persist" => known = Projects
  /\ \A p \in dbRows : followUps[p] <= dbProj[p].round + dbFaults
  /\ \A p \in known : followUps[p] <= proj[p].round + dbFaults
  /\ adv = "cascade" => advTodo \subseteq known
  /\ adv \in {"assess", "followup"} =>
       /\ advProj \in known
       /\ followUps[advProj] + 1 <= proj[advProj].round + dbFaults
  /\ adv = "followup" =>
       /\ proj[advProj].round < MaxRounds
       /\ advProj \in dbRows => followUps[advProj] + 1 <= dbProj[advProj].round + dbFaults
  /\ DialogueBound

LEMMA DialogueInit == Init => Dialogue
BY BoundsAssumption DEF Init, Dialogue, DialogueBound, Fresh, MaxRounds

LEMMA DialogueStep == TypeOK /\ Dialogue /\ [Next]_vars => Dialogue'
<1> SUFFICES ASSUME TypeOK, Dialogue, [Next]_vars PROVE Dialogue'
  OBVIOUS
<1> USE DEF Dialogue, DialogueBound, MaxRounds, reqVars, memVars, advVars, netVars, dbVars,
            history
<1>t. /\ proj \in Rows /\ dbProj \in Rows
      /\ followUps \in [Projects -> Nat] /\ dbFaults \in Nat
      /\ createTodo \subseteq Projects /\ known \subseteq Projects /\ dbRows \subseteq Projects
      /\ \A p \in Projects : /\ proj[p].round \in Nat /\ dbProj[p].round \in Nat
                             /\ followUps[p] \in Nat
  BY DEF TypeOK, Rows, ProjectRecord
<1>w. ASSUME dbFaults' = dbFaults \/ DbFault PROVE dbFaults' \in {dbFaults, dbFaults + 1}
  BY <1>w DEF DbFault
<1>1. CASE CreateGoal
  <2>1. dbFaults' \in {dbFaults, dbFaults + 1}
    BY <1>1, <1>w DEF CreateGoal, SaveGoal
  <2> QED
    BY <1>1, <1>t, <2>1 DEF CreateGoal
<1>2. CASE PublishRun
  <2>1. dbFaults' \in {dbFaults, dbFaults + 1}
    BY <1>2, <1>w DEF PublishRun, SaveRun
  <2>2. \A q \in Projects : proj'[q].round = 0
    BY <1>2 DEF PublishRun, Fresh
  <2> QED
    BY <1>2, <1>t, <2>1, <2>2 DEF PublishRun
<1>3. ASSUME NEW p \in Projects, PersistProject(p) PROVE Dialogue'
  <2>1. dbFaults' \in {dbFaults, dbFaults + 1}
    BY <1>3, <1>w DEF PersistProject
  <2>2. \A q \in dbRows' : /\ q \in Projects
                           /\ dbProj'[q] # dbProj[q] \/ q \notin dbRows => dbProj'[q] = proj[q]
    BY <1>3, <1>t DEF PersistProject, Rows
  <2>3. known = Projects /\ UNCHANGED <<known, proj, followUps, adv, advTodo, advProj>>
    BY <1>3 DEF PersistProject
  <2>4. up' /\ create' \notin {"request", "rejected", "publish"}
    BY <1>3 DEF PersistProject
  <2>5. adv = "followup" /\ advProj \in dbRows' =>
          followUps[advProj] + 1 <= dbProj'[advProj].round + dbFaults'
    BY <1>t, <2>1, <2>2, <2>3
  <2>6. \A q \in dbRows' : followUps[q] <= dbProj'[q].round + dbFaults'
    BY <1>t, <2>1, <2>2, <2>3
  <2> QED
    BY <1>t, <2>1, <2>3, <2>4, <2>5, <2>6
<1>4. ASSUME NEW p \in Projects, RefuseFirst(p) PROVE Dialogue'
  <2>1. \A q \in Projects : proj'[q].round = proj[q].round
    BY <1>4, <1>t, MarkKeepsRounds DEF RefuseFirst, Rows
  <2>2. create' \notin {"request", "rejected", "publish", "persist"}
    BY <1>4 DEF RefuseFirst, AfterFirst
  <2> QED
    BY <1>4, <1>t, <2>1, <2>2 DEF RefuseFirst
<1>5. ASSUME NEW p \in Projects, SendFirst(p) PROVE Dialogue'
  BY <1>5, <1>t DEF SendFirst
<1>6. ASSUME NEW p \in Projects, FirstAnswered(p) PROVE Dialogue'
  <2>1. \A q \in Projects : proj'[q].round = proj[q].round
    BY <1>6, <1>t, MarkKeepsRounds DEF FirstAnswered, Rows
  <2>2. create' \notin {"request", "rejected", "publish", "persist"}
    BY <1>6 DEF FirstAnswered, AfterFirst
  <2> QED
    BY <1>6, <1>t, <2>1, <2>2 DEF FirstAnswered
<1>7. ASSUME NEW p \in Projects, NEW o \in Outcome, IgnoreCallback(p, o) PROVE Dialogue'
  BY <1>7, <1>t DEF IgnoreCallback
<1>8. ASSUME NEW p \in Projects, NEW v \in Verdicts, RejectResult(p, v) PROVE Dialogue'
  <2>1. \A q \in Projects : proj'[q].round = proj[q].round
    BY <1>8, <1>t DEF RejectResult, Rows, ProjectRecord
  <2>2. /\ \A q \in Projects : dbProj'[q] # dbProj[q] => q = p /\ dbProj'[q] = proj'[q]
        /\ \/ dbFaults' = dbFaults /\ (p \in dbRows => dbProj'[p] = proj'[p])
           \/ dbFaults' = dbFaults + 1
    BY <1>8, <1>t, SyncEffect DEF RejectResult
  <2>3. /\ p \in known /\ proj[p].round < MaxRounds
        /\ followUps[p] + 1 <= proj[p].round + dbFaults
    BY <1>8, <1>t, Rounds DEF RejectResult, Wanting
  <2>4. \A q \in dbRows : followUps[q] <= dbProj'[q].round + dbFaults'
    BY <1>t, <2>1, <2>2, <2>3
  <2>5. \A q \in known : followUps[q] <= proj'[q].round + dbFaults'
    BY <1>t, <2>1, <2>2
  <2>6. /\ followUps[p] + 1 <= proj'[p].round + dbFaults'
        /\ p \in dbRows => followUps[p] + 1 <= dbProj'[p].round + dbFaults'
    BY <1>t, <2>1, <2>2, <2>3
  <2>7. /\ adv = "assess" /\ adv' = "followup" /\ advProj' = p
        /\ up' /\ UNCHANGED <<create, known, dbRows, followUps>>
    BY <1>8 DEF RejectResult
  <2> QED
    BY <1>t, <2>1, <2>2, <2>3, <2>4, <2>5, <2>6, <2>7
<1>9. ASSUME NEW p \in Projects, NEW v \in Verdicts, AcceptResult(p, v) PROVE Dialogue'
  <2>1. \A q \in Projects : proj'[q].round = proj[q].round
    BY <1>9, <1>t DEF AcceptResult, Rows, ProjectRecord
  <2>2. /\ \A q \in Projects : dbProj'[q] # dbProj[q] => q = p /\ dbProj'[q] = proj'[q]
        /\ \/ dbFaults' = dbFaults /\ (p \in dbRows => dbProj'[p] = proj'[p])
           \/ dbFaults' = dbFaults + 1
    BY <1>9, <1>t, SyncEffect DEF AcceptResult
  <2>3. p \in known
    BY <1>9 DEF AcceptResult
  <2>4. \A q \in dbRows : followUps[q] <= dbProj'[q].round + dbFaults'
    BY <1>t, <2>1, <2>2, <2>3
  <2>5. \A q \in known : followUps[q] <= proj'[q].round + dbFaults'
    BY <1>t, <2>1, <2>2
  <2>6. /\ adv # "idle" /\ adv' = "scan"
        /\ up' /\ UNCHANGED <<create, known, dbRows, followUps>>
    BY <1>9 DEF AcceptResult
  <2> QED
    BY <1>t, <2>1, <2>2, <2>4, <2>5, <2>6
<1>10. ASSUME NEW p \in Projects, ProjectFailed(p) PROVE Dialogue'
  <2>1. \A q \in Projects : proj'[q].round = proj[q].round
    BY <1>10, <1>t DEF ProjectFailed, Rows, ProjectRecord
  <2>2. /\ \A q \in Projects : dbProj'[q] # dbProj[q] => q = p /\ dbProj'[q] = proj'[q]
        /\ \/ dbFaults' = dbFaults /\ (p \in dbRows => dbProj'[p] = proj'[p])
           \/ dbFaults' = dbFaults + 1
    BY <1>10, <1>t, SyncEffect DEF ProjectFailed
  <2>3. p \in known
    BY <1>10 DEF ProjectFailed
  <2>4. \A q \in dbRows : followUps[q] <= dbProj'[q].round + dbFaults'
    BY <1>t, <2>1, <2>2, <2>3
  <2>5. \A q \in known : followUps[q] <= proj'[q].round + dbFaults'
    BY <1>t, <2>1, <2>2
  <2>6. /\ loaded /\ adv' = "cascade" /\ advTodo' \subseteq known
        /\ up' /\ UNCHANGED <<create, known, dbRows, followUps>>
    BY <1>10 DEF ProjectFailed, TakeCallback, Dependents
  <2> QED
    BY <1>t, <2>1, <2>2, <2>4, <2>5, <2>6
<1>11. ASSUME NEW p \in Projects, CascadeFailure(p) PROVE Dialogue'
  <2>1. \A q \in Projects : proj'[q].round = proj[q].round
    BY <1>11, <1>t DEF CascadeFailure, Rows, ProjectRecord
  <2>2. /\ \A q \in Projects : dbProj'[q] # dbProj[q] => q = p /\ dbProj'[q] = proj'[q]
        /\ \/ dbFaults' = dbFaults /\ (p \in dbRows => dbProj'[p] = proj'[p])
           \/ dbFaults' = dbFaults + 1
    BY <1>11, <1>t, SyncEffect DEF CascadeFailure
  <2>3. p \in known
    BY <1>11 DEF CascadeFailure
  <2>4. \A q \in dbRows : followUps[q] <= dbProj'[q].round + dbFaults'
    BY <1>t, <2>1, <2>2, <2>3
  <2>5. \A q \in known : followUps[q] <= proj'[q].round + dbFaults'
    BY <1>t, <2>1, <2>2
  <2>6. /\ adv = "cascade" /\ adv' = "cascade" /\ advTodo' \subseteq known
        /\ up' /\ UNCHANGED <<create, known, dbRows, followUps>>
    BY <1>11 DEF CascadeFailure
  <2> QED
    BY <1>t, <2>1, <2>2, <2>4, <2>5, <2>6
<1>12. ASSUME NEW p \in Projects, ProjectCompleted(p) PROVE Dialogue'
  <2>1. \A q \in Projects :
          proj'[q].round = IF q = p THEN proj[q].round + 1 ELSE proj[q].round
    BY <1>12, <1>t DEF ProjectCompleted, Rows, ProjectRecord
  <2> QED
    BY <1>12, <1>t, <2>1 DEF ProjectCompleted, TakeCallback
<1>13. ASSUME NEW p \in Projects, SendFollowUp(p) PROVE Dialogue'
  <2>1. \A q \in Projects : proj'[q].round = proj[q].round
    BY <1>13 DEF SendFollowUp
  <2>2. \A q \in Projects : followUps'[q] = followUps[q] \/ (q = p /\ followUps'[q] = followUps[q] + 1)
    BY <1>13, <1>t DEF SendFollowUp
  <2>3. create \notin {"request", "rejected", "publish"}
    BY <1>13 DEF SendFollowUp
  <2> QED
    BY <1>13, <1>t, <2>1, <2>2, <2>3 DEF SendFollowUp
<1>14. ASSUME NEW p \in Projects, FollowUpFails(p) PROVE Dialogue'
  <2>1. \A q \in Projects : proj'[q].round = proj[q].round
    BY <1>14, <1>t, MarkKeepsRounds DEF FollowUpFails, Rows
  <2>2. \A q \in Projects : followUps'[q] = followUps[q] \/ (q = p /\ followUps'[q] = followUps[q] + 1)
    BY <1>14, <1>t DEF FollowUpFails
  <2>3. create \notin {"request", "rejected", "publish"}
    BY <1>14 DEF FollowUpFails
  <2> QED
    BY <1>14, <1>t, <2>1, <2>2, <2>3 DEF FollowUpFails
<1>15. ASSUME NEW p \in Projects, DispatchReady(p) PROVE Dialogue'
  <2>1. \A q \in Projects : proj'[q].round = proj[q].round
    BY <1>15, <1>t, MarkKeepsRounds DEF DispatchReady, Rows
  <2> QED
    BY <1>15, <1>t, <2>1 DEF DispatchReady
<1>16. CASE ScanReady
  BY <1>16, <1>t DEF ScanReady
<1>17. CASE LeaveOpen
  BY <1>17, <1>t DEF LeaveOpen
<1>18. CASE CloseRun
  <2>1. dbFaults' \in {dbFaults, dbFaults + 1}
    BY <1>18, <1>w DEF CloseRun, SaveRun
  <2> QED
    BY <1>18, <1>t, <2>1 DEF CloseRun
<1>19. CASE RecordGoal
  <2>1. dbFaults' \in {dbFaults, dbFaults + 1}
    BY <1>19, <1>w DEF RecordGoal, SaveGoal
  <2> QED
    BY <1>19, <1>t, <2>1 DEF RecordGoal
<1>20. ASSUME NEW p \in Projects, NEW o \in Outcome, RemoteFinish(p, o) PROVE Dialogue'
  BY <1>20, <1>t DEF RemoteFinish
<1>21. ASSUME NEW p \in Projects, RemoteLost(p) PROVE Dialogue'
  BY <1>21, <1>t DEF RemoteLost
<1>22. CASE Crash
  BY <1>22, <1>t DEF Crash
<1>23. CASE Restart
  <2>1. \A q \in known' : \/ q \in dbRows /\ proj'[q] = dbProj[q]
                          \/ q \in known /\ proj' = proj
    BY <1>23, <1>t DEF Restart
  <2>2. \A q \in known' : followUps[q] <= proj'[q].round + dbFaults
    BY <1>t, <2>1
  <2>3. /\ create' = "done" /\ adv' = "idle" /\ up'
        /\ UNCHANGED <<dbRows, dbProj, dbFaults, followUps>>
    BY <1>23 DEF Restart
  <2> QED
    BY <1>t, <2>2, <2>3
<1>24. CASE UNCHANGED vars
  BY <1>24 DEF vars
<1> QED
  BY <1>1, <1>2, <1>3, <1>4, <1>5, <1>6, <1>7, <1>8, <1>9, <1>10, <1>11, <1>12, <1>13,
     <1>14, <1>15, <1>16, <1>17, <1>18, <1>19, <1>20, <1>21, <1>22, <1>23, <1>24
     DEF Next, Handler, Advance, Companies, Environment

\* A company gets at most MaxRounds - 1 follow-ups for a project, plus one for
\* each failed write.
THEOREM DialogueCorrect == Spec => []DialogueBound
<1>1. Dialogue => DialogueBound
  BY DEF Dialogue
<1> QED
  BY <1>1, DialogueInit, DialogueStep, TypeCorrect, PTL DEF Spec

-----------------------------------------------------------------------------
(* A completed goal is complete.                                           *)

Sent == \E p \in Projects : sends[p] > 0

\* Without failed writes, work is only ever sent when every project has its row,
\* so that the run a restart reloads, and a handler closes, is the whole run.
Whole ==
  /\ loaded => known = Projects \/ known = dbRows
  /\ adv # "idle" => loaded /\ Sent
  /\ dbFaults = 0 =>
       /\ create = "persist" => dbRows \cup createTodo = Projects
       /\ create \in {"dispatch", "ack"} => dbRows = Projects
       /\ Sent => dbRows = Projects
       /\ adv = "record" /\ runStatus = "Completed" => accepted = Projects
  /\ CompletedGoalIsComplete

LEMMA WholeInit == Init => Whole
BY DEF Init, Whole, Sent, CompletedGoalIsComplete

\* A step forgets neither what was sent nor what was accepted, nor a failed write.
LEMMA Monotone ==
  ASSUME TypeOK, [Next]_vars
  PROVE  /\ Sent => Sent'
         /\ accepted \subseteq accepted'
         /\ dbFaults' = 0 => dbFaults = 0
<1> USE DEF reqVars, memVars, advVars, netVars, dbVars, history
<1>t. /\ sends \in [Projects -> Nat] /\ dbFaults \in Nat /\ dbProj \in Rows
  BY DEF TypeOK, Rows
<1>1. \/ UNCHANGED sends
      \/ \E p \in Projects : sends' = [sends EXCEPT ![p] = @ + 1]
  BY DEF Next, Handler, Advance, Companies, Environment, vars,
         CreateGoal, PublishRun, PersistProject, RefuseFirst, SendFirst, FirstAnswered,
         IgnoreCallback, RejectResult, AcceptResult, ProjectFailed, CascadeFailure,
         ProjectCompleted, SendFollowUp, FollowUpFails, ScanReady, DispatchReady,
         LeaveOpen, CloseRun, RecordGoal, RemoteFinish, RemoteLost, Crash, Restart
<1>2. Sent => Sent'
  BY <1>t, <1>1 DEF Sent
<1>3. UNCHANGED accepted \/ \E p \in Projects : accepted' = accepted \cup {p}
  BY DEF Next, Handler, Advance, Companies, Environment, vars,
         CreateGoal, PublishRun, PersistProject, RefuseFirst, SendFirst, FirstAnswered,
         IgnoreCallback, RejectResult, AcceptResult, ProjectFailed, CascadeFailure,
         ProjectCompleted, SendFollowUp, FollowUpFails, ScanReady, DispatchReady,
         LeaveOpen, CloseRun, RecordGoal, RemoteFinish, RemoteLost, Crash, Restart
<1>4. dbFaults' \in {dbFaults, dbFaults + 1}
  <2>1. CASE Handler
    BY <2>1 DEF DbFault, SaveRun, SaveGoal, Handler, CreateGoal, PublishRun, PersistProject, RefuseFirst,
           SendFirst, FirstAnswered
  <2>2. CASE Advance
    BY <2>2 DEF DbFault, SyncProject, SaveRun, SaveGoal, Advance, IgnoreCallback, RejectResult, AcceptResult, ProjectFailed,
           CascadeFailure, ProjectCompleted, SendFollowUp, FollowUpFails, ScanReady,
           DispatchReady, LeaveOpen, CloseRun, RecordGoal
  <2>3. CASE Companies
    BY <2>3 DEF Companies, RemoteFinish
  <2>4. CASE Environment
    BY <2>4 DEF Environment, RemoteLost, Crash, Restart
  <2>5. CASE UNCHANGED vars
    BY <2>5 DEF vars
  <2> QED
    BY <2>1, <2>2, <2>3, <2>4, <2>5 DEF Next
<1>5. dbFaults' = 0 => dbFaults = 0
  BY <1>t, <1>4
<1> QED
  BY <1>2, <1>3, <1>5

LEMMA WholeStep == TypeOK /\ Order /\ Work /\ Dialogue /\ Whole /\ [Next]_vars => Whole'
<1> SUFFICES ASSUME TypeOK, Order, Work, Dialogue, Whole, [Next]_vars PROVE Whole'
  OBVIOUS
<1> USE DEF Whole, CompletedGoalIsComplete, reqVars, memVars, advVars, netVars, dbVars
<1>m. /\ Sent => Sent'
      /\ accepted \subseteq accepted' /\ accepted' \subseteq Projects
      /\ dbFaults' = 0 => dbFaults = 0
      /\ dbRows \subseteq Projects
  <2>1. TypeOK'
    BY TypeStep
  <2> QED
    BY <2>1, Monotone DEF TypeOK
<1>a. create = "persist" => known = Projects
  BY DEF Dialogue
<1>b. /\ create \in {"request", "rejected", "publish"} => adv = "idle"
      /\ ~up => create = "done" /\ adv = "idle"
  BY DEF Dialogue
<1>f. ASSUME UNCHANGED sends PROVE Sent' <=> Sent
  BY <1>f DEF Sent
<1>1. CASE CreateGoal
  <2>1. Sent' <=> Sent
    BY <1>1, <1>f DEF CreateGoal, history
  <2> QED
    BY <1>1, <1>m, <1>a, <1>b, <2>1 DEF CreateGoal, SaveGoal, history
<1>2. CASE PublishRun
  <2>1. Sent' <=> Sent
    BY <1>2, <1>f DEF PublishRun, history
  <2> QED
    BY <1>2, <1>m, <1>a, <1>b, <2>1 DEF PublishRun, history
<1>3. ASSUME NEW p \in Projects, PersistProject(p) PROVE Whole'
  <2>1. Sent' <=> Sent
    BY <1>3, <1>f DEF PersistProject, history
  <2>2. dbFaults' = 0 => dbRows' = dbRows \cup {p}
    BY <1>3 DEF PersistProject, DbFault, TypeOK
  <2>3. /\ create = "persist" /\ known' = Projects
        /\ \/ create' = "dispatch" /\ createTodo = {p}
           \/ create' = "persist" /\ createTodo' = createTodo \ {p}
    BY <1>3, <1>a DEF PersistProject
  <2>4. dbFaults' = 0 => /\ create' = "persist" => dbRows' \cup createTodo' = Projects
                         /\ create' = "dispatch" => dbRows' = Projects
                         /\ Sent' => dbRows' = Projects
    BY <1>m, <2>1, <2>2, <2>3
  <2>5. UNCHANGED <<adv, loaded, runStatus, accepted, goalRow>>
    BY <1>3 DEF PersistProject, history
  <2> QED
    BY <1>m, <2>1, <2>3, <2>4, <2>5
<1>4. ASSUME NEW p \in Projects, RefuseFirst(p) PROVE Whole'
  <2>1. Sent' <=> Sent
    BY <1>4, <1>f DEF RefuseFirst, history
  <2> QED
    BY <1>4, <1>m, <1>a, <1>b, <2>1 DEF RefuseFirst, AfterFirst, history
<1>5. ASSUME NEW p \in Projects, SendFirst(p) PROVE Whole'
  BY <1>5, <1>m, <1>a DEF SendFirst
<1>6. ASSUME NEW p \in Projects, FirstAnswered(p) PROVE Whole'
  <2>1. Sent' <=> Sent
    BY <1>6, <1>f DEF FirstAnswered, history
  <2> QED
    BY <1>6, <1>m, <1>a, <1>b, <2>1 DEF FirstAnswered, AfterFirst, history
<1>7. ASSUME NEW p \in Projects, NEW o \in Outcome, IgnoreCallback(p, o) PROVE Whole'
  <2>1. Sent' <=> Sent
    BY <1>7, <1>f DEF IgnoreCallback, history
  <2> QED
    BY <1>7, <1>m, <1>a, <1>b, <2>1 DEF IgnoreCallback, history
<1>8. ASSUME NEW p \in Projects, NEW v \in Verdicts, RejectResult(p, v) PROVE Whole'
  <2>1. Sent' <=> Sent
    BY <1>8, <1>f DEF RejectResult, history
  <2> QED
    BY <1>8, <1>m, <1>a, <1>b, <2>1 DEF RejectResult, history
<1>9. ASSUME NEW p \in Projects, NEW v \in Verdicts, AcceptResult(p, v) PROVE Whole'
  <2>1. Sent' <=> Sent
    BY <1>9, <1>f DEF AcceptResult, history
  <2> QED
    BY <1>9, <1>m, <1>a, <1>b, <2>1 DEF AcceptResult, history
<1>10. ASSUME NEW p \in Projects, ProjectFailed(p) PROVE Whole'
  <2>1. Sent' <=> Sent
    BY <1>10, <1>f DEF ProjectFailed, history
  <2>2. Sent
    BY <1>10 DEF ProjectFailed, TakeCallback, Work, Sent, Outcome
  <2> QED
    BY <1>10, <1>m, <2>1, <2>2 DEF ProjectFailed, TakeCallback, history
<1>11. ASSUME NEW p \in Projects, CascadeFailure(p) PROVE Whole'
  <2>1. Sent' <=> Sent
    BY <1>11, <1>f DEF CascadeFailure, history
  <2> QED
    BY <1>11, <1>m, <1>a, <1>b, <2>1 DEF CascadeFailure, history
<1>12. ASSUME NEW p \in Projects, ProjectCompleted(p) PROVE Whole'
  <2>1. Sent' <=> Sent
    BY <1>12, <1>f DEF ProjectCompleted, history
  <2>2. Sent
    BY <1>12 DEF ProjectCompleted, TakeCallback, Work, Sent, Outcome
  <2> QED
    BY <1>12, <1>m, <2>1, <2>2 DEF ProjectCompleted, TakeCallback, history
<1>13. ASSUME NEW p \in Projects, SendFollowUp(p) PROVE Whole'
  <2>1. Sent' <=> Sent
    BY <1>13, <1>f DEF SendFollowUp, history
  <2> QED
    BY <1>13, <1>m, <1>a, <1>b, <2>1 DEF SendFollowUp, history
<1>14. ASSUME NEW p \in Projects, FollowUpFails(p) PROVE Whole'
  <2>1. Sent' <=> Sent
    BY <1>14, <1>f DEF FollowUpFails, history
  <2> QED
    BY <1>14, <1>m, <1>a, <1>b, <2>1 DEF FollowUpFails, history
<1>15. ASSUME NEW p \in Projects, DispatchReady(p) PROVE Whole'
  BY <1>15, <1>m, <1>a DEF DispatchReady
<1>16. CASE ScanReady
  <2>1. Sent' <=> Sent
    BY <1>16, <1>f DEF ScanReady, history
  <2> QED
    BY <1>16, <1>m, <1>a, <1>b, <2>1 DEF ScanReady, history
<1>17. CASE LeaveOpen
  <2>1. Sent' <=> Sent
    BY <1>17, <1>f DEF LeaveOpen, history
  <2> QED
    BY <1>17, <1>m, <1>a, <1>b, <2>1 DEF LeaveOpen, history
<1>18. CASE CloseRun
  <2>1. Sent' <=> Sent
    BY <1>18, <1>f DEF CloseRun, history
  <2>2. dbFaults = 0 => known = Projects
    BY <1>18 DEF CloseRun
  <2>3. ASSUME dbFaults = 0, runStatus' = "Completed" PROVE accepted = Projects
    <3>1. AllDone /\ AllSucceeded
      BY <1>18, <2>3 DEF CloseRun
    <3>2. \A q \in Projects : proj[q].status = "Completed"
      BY <2>2, <2>3, <3>1 DEF AllDone, AllSucceeded
    <3> QED
      BY <3>2, <1>m DEF Order, TypeOK
  <2> QED
    BY <1>18, <1>m, <2>1, <2>2, <2>3 DEF CloseRun, history
<1>19. CASE RecordGoal
  <2>1. Sent' <=> Sent
    BY <1>19, <1>f DEF RecordGoal, history
  <2>2. goalRow' = "completed" => goalRow = "completed" \/ runStatus = "Completed"
    BY <1>19 DEF RecordGoal, SaveGoal
  <2> QED
    BY <1>19, <1>m, <2>1, <2>2 DEF RecordGoal, history
<1>20. ASSUME NEW p \in Projects, NEW o \in Outcome, RemoteFinish(p, o) PROVE Whole'
  <2>1. Sent' <=> Sent
    BY <1>20, <1>f DEF RemoteFinish, history
  <2> QED
    BY <1>20, <1>m, <1>a, <1>b, <2>1 DEF RemoteFinish, history
<1>21. ASSUME NEW p \in Projects, RemoteLost(p) PROVE Whole'
  <2>1. Sent' <=> Sent
    BY <1>21, <1>f DEF RemoteLost, history
  <2> QED
    BY <1>21, <1>m, <1>a, <1>b, <2>1 DEF RemoteLost, history
<1>22. CASE Crash
  <2>1. Sent' <=> Sent
    BY <1>22, <1>f DEF Crash, history
  <2> QED
    BY <1>22, <1>m, <1>a, <1>b, <2>1 DEF Crash, history
<1>23. CASE Restart
  <2>1. Sent' <=> Sent
    BY <1>23, <1>f DEF Restart, history
  <2> QED
    BY <1>23, <1>m, <1>a, <1>b, <2>1 DEF Restart, history
<1>24. CASE UNCHANGED vars
  <2>1. Sent' <=> Sent
    BY <1>24, <1>f DEF vars, history
  <2> QED
    BY <1>24, <1>m, <2>1 DEF vars, history
<1> QED
  BY <1>1, <1>2, <1>3, <1>4, <1>5, <1>6, <1>7, <1>8, <1>9, <1>10, <1>11, <1>12, <1>13,
     <1>14, <1>15, <1>16, <1>17, <1>18, <1>19, <1>20, <1>21, <1>22, <1>23, <1>24
     DEF Next, Handler, Advance, Companies, Environment

\* Unless a write has failed, a goal recorded as completed has all its results.
THEOREM CompletionCorrect == Spec => []CompletedGoalIsComplete
<1>1. Whole => CompletedGoalIsComplete
  BY DEF Whole
<1> QED
  BY <1>1, OrderInit, OrderStep, WorkInit, WorkStep, DialogueInit, DialogueStep, WholeInit,
     WholeStep, TypeCorrect, PTL DEF Spec

-----------------------------------------------------------------------------
(* SendBound. *)

\* The handler is before its first send.
Early == create \in {"request", "rejected", "publish", "persist"}

\* The callback handler, and the request handler, may still send p in this life of the
\* daemon.
CanDispatch(p) == up /\ (proj[p].status = "Pending" \/ (adv = "dispatch" /\ p \in advTodo))
CanSendFirst(p) ==
  \/ create = "dispatch" /\ p \in createTodo
  \/ create = "ack" /\ p \in createTodo \ {sending}

Count(d) == IF d THEN 1 ELSE 0

\* Every life of the daemon brings one permission to send p, which the callback handler
\* uses by making p something else than Pending.  The request handler sends p with a
\* permission of its own, or, when no callback is handled meanwhile, with the same one.
Permits(p) ==
  IF AckBeforeCallback
    THEN sends[p] + Count(CanDispatch(p) /\ ~(create = "ack" /\ sending = p))
           <= crashes + Count(up)
    ELSE sends[p] + Count(CanDispatch(p)) + Count(CanSendFirst(p)) <= crashes + Count(up) + 1

Sends ==
  /\ ~up => create = "done" /\ adv = "idle"
  /\ Early => /\ adv = "idle" /\ callbacks = NoCallbacks
              /\ \A p \in Projects : sends[p] = 0 /\ tasks[p] = 0
  /\ AckBeforeCallback /\ create # "done" => adv = "idle" /\ callbacks = NoCallbacks
  /\ AckBeforeCallback =>
       \A p \in Projects :
         create = "persist" \/ (create \in {"dispatch", "ack"} /\ p \in createTodo)
           => proj[p].status = "Pending"
  /\ create = "ack" => sending \in createTodo
  /\ \A p \in Projects : Permits(p)

\* Marking a project changes the status of no other one.
LEMMA MarkStatus ==
  ASSUME proj \in Rows, NEW p \in Projects, NEW s
  PROVE  \A q \in Projects : Mark(p, s)[q].status = IF q = p THEN s ELSE proj[q].status
<1>1. TAKE q \in Projects
<1>2. proj[q] \in ProjectRecord
  BY DEF Rows
<1>3. CASE q = p
  <2>1. Mark(p, s)[q] = [proj[q] EXCEPT !.status = s]
    BY <1>3 DEF Mark, Rows
  <2> QED
    BY <1>2, <1>3, <2>1 DEF ProjectRecord
<1>4. CASE q # p
  BY <1>4 DEF Mark, Rows
<1> QED
  BY <1>3, <1>4

LEMMA SendsInit == Init => Sends
BY BoundsAssumption DEF Init, Sends, Early, Permits, CanDispatch, CanSendFirst, Count, NoCallbacks

\* A step of the callback handler that sends no first message, and makes nothing Pending.
LEMMA AdvanceKeepsSends ==
  ASSUME TypeOK, Sends, up, adv # "idle" \/ callbacks # NoCallbacks,
         UNCHANGED <<up, create, createTodo, sending, sends, crashes>>,
         \A p \in Projects : CanDispatch(p)' => CanDispatch(p)
  PROVE  Sends'
<1>1. ~Early /\ (AckBeforeCallback => create = "done")
  BY DEF Sends
<1>2. ASSUME NEW p \in Projects PROVE Permits(p)'
  <2>1. Permits(p) /\ sends[p] \in Nat /\ crashes \in Nat
    BY DEF Sends, TypeOK
  <2>2. UNCHANGED <<CanSendFirst(p), Count(up)>>
    BY DEF CanSendFirst, Count
  <2>3. Count(CanDispatch(p))' <= Count(CanDispatch(p)) /\ Count(CanDispatch(p))' \in Nat
        /\ Count(CanDispatch(p)) \in Nat
    BY DEF Count
  <2>4. CASE AckBeforeCallback
    BY <1>1, <2>1, <2>4 DEF Permits, Count
  <2>5. CASE ~AckBeforeCallback
    BY <2>1, <2>5 DEF Permits, Count, CanSendFirst
  <2> QED
    BY <2>4, <2>5, BoundsAssumption
<1> QED
  BY <1>1, <1>2 DEF Sends, Early

\* A callback that is taken was there.
LEMMA Taken ==
  ASSUME NEW p \in Projects, NEW o \in Outcome, TakeCallback(p, o)
  PROVE  up /\ adv = "idle" /\ callbacks # NoCallbacks
BY DEF TakeCallback, NoCallbacks

LEMMA SendsStep == TypeOK /\ Sends /\ [Next]_vars => Sends'
<1> SUFFICES ASSUME TypeOK, Sends, [Next]_vars PROVE Sends'
  OBVIOUS
<1> USE DEF reqVars, memVars, advVars, netVars, dbVars, history
<1>t. /\ proj \in Rows /\ sends \in [Projects -> Nat] /\ tasks \in [Projects -> Nat]
      /\ crashes \in Nat /\ up \in BOOLEAN /\ AckBeforeCallback \in BOOLEAN
      /\ \A p \in Projects : proj[p] \in ProjectRecord
  BY BoundsAssumption DEF TypeOK, Rows
<1> DEFINE Bound == \A p \in Projects : Permits(p)
<1>b. ASSUME Early', up, up', Sends, UNCHANGED <<sends, crashes>>, Early PROVE Bound'
  BY <1>b, <1>t DEF Early, Sends, Permits, Count, CanSendFirst
<1>1. CASE CreateGoal
  <2>1. Early /\ Early' /\ up /\ up'
    BY <1>1 DEF CreateGoal, Early
  <2> QED
    BY <1>1, <1>b, <2>1 DEF CreateGoal, Sends, Early
<1>2. CASE PublishRun
  <2>1. Early /\ Early' /\ up /\ up'
    BY <1>2 DEF PublishRun, Early
  <2>2. \A p \in Projects : proj'[p].status = "Pending"
    BY <1>2 DEF PublishRun, Fresh
  <2> QED
    BY <1>2, <1>b, <2>1, <2>2 DEF PublishRun, Sends, Early
<1>3. ASSUME NEW p \in Projects, PersistProject(p) PROVE Sends'
  <2>1. Early /\ up /\ up' /\ create = "persist" /\ create' \in {"persist", "dispatch"}
        /\ UNCHANGED <<sends, tasks, adv, advTodo, callbacks, crashes, proj>>
    BY <1>3 DEF PersistProject, Early
  <2>2. \A q \in Projects : sends'[q] = 0
    BY <2>1 DEF Sends
  <2>3. Bound'
    BY <1>t, <2>1, <2>2 DEF Permits, Count
  <2> QED
    BY <2>1, <2>3 DEF Sends, Early
<1>4. ASSUME NEW p \in Projects, RefuseFirst(p) PROVE Sends'
  <2>1. \A q \in Projects : proj'[q].status = IF q = p THEN "Failed" ELSE proj[q].status
    BY <1>4, <1>t, MarkStatus DEF RefuseFirst
  <2>2. /\ create = "dispatch" /\ create' \in {"dispatch", "done"} /\ up /\ up'
        /\ createTodo' = createTodo \ {p}
        /\ UNCHANGED <<adv, advTodo, sends, crashes, callbacks, tasks>>
    BY <1>4 DEF RefuseFirst, AfterFirst
  <2>3. \A q \in Projects : /\ CanDispatch(q)' => CanDispatch(q)
                            /\ CanSendFirst(q)' => CanSendFirst(q)
    BY <2>1, <2>2 DEF CanDispatch, CanSendFirst
  <2>4. Bound'
    BY <1>t, <2>2, <2>3 DEF Sends, Permits, Count
  <2> QED
    BY <2>1, <2>2, <2>4 DEF Sends, Early
<1>5. ASSUME NEW p \in Projects, SendFirst(p) PROVE Sends'
  <2>1. /\ create = "dispatch" /\ create' = "ack" /\ sending' = p /\ up /\ up' /\ p \in createTodo
        /\ UNCHANGED <<adv, advTodo, proj, crashes, callbacks, createTodo>>
    BY <1>5 DEF SendFirst
  <2>2. \A q \in Projects : sends'[q] = IF q = p THEN sends[q] + 1 ELSE sends[q]
    BY <1>5, <1>t DEF SendFirst
  <2>3. \A q \in Projects :
          /\ CanDispatch(q)' <=> CanDispatch(q)
          /\ CanSendFirst(q)' <=> CanSendFirst(q) /\ q # p
    BY <2>1 DEF CanDispatch, CanSendFirst
  <2>4. CanSendFirst(p) /\ (AckBeforeCallback => CanDispatch(p))
    BY <2>1 DEF CanSendFirst, CanDispatch, Sends
  <2>5. Bound'
    BY <1>t, <2>1, <2>2, <2>3, <2>4 DEF Sends, Permits, Count
  <2> QED
    BY <2>1, <2>5 DEF Sends, Early
<1>6. ASSUME NEW p \in Projects, FirstAnswered(p) PROVE Sends'
  <2>1. PICK s \in {"Running", "Failed"} : proj' = Mark(p, s)
    BY <1>6 DEF FirstAnswered
  <2>2. \A q \in Projects : proj'[q].status = IF q = p THEN s ELSE proj[q].status
    BY <1>t, <2>1, MarkStatus
  <2>3. /\ create = "ack" /\ sending = p /\ create' \in {"dispatch", "done"} /\ up /\ up'
        /\ createTodo' = createTodo \ {p}
        /\ UNCHANGED <<adv, advTodo, sends, crashes, callbacks, tasks>>
    BY <1>6 DEF FirstAnswered, AfterFirst
  <2>4. \A q \in Projects :
          /\ CanDispatch(q)' => CanDispatch(q)
          /\ CanSendFirst(q)' => CanSendFirst(q)
          /\ AckBeforeCallback /\ q = p => ~CanDispatch(q)'
    BY <2>2, <2>3 DEF CanDispatch, CanSendFirst, Sends
  <2>5. Bound'
    BY <1>t, <2>3, <2>4 DEF Sends, Permits, Count
  <2> QED
    BY <2>2, <2>3, <2>5 DEF Sends, Early
<1>7. ASSUME NEW p \in Projects, NEW o \in Outcome, IgnoreCallback(p, o) PROVE Sends'
  BY <1>7, Taken, AdvanceKeepsSends DEF IgnoreCallback, CanDispatch
<1>8. ASSUME NEW p \in Projects, NEW v \in Verdicts, RejectResult(p, v) \/ AcceptResult(p, v)
      PROVE  Sends'
  <2>1. \A q \in Projects : proj'[q].status = "Pending" => proj[q].status = "Pending"
    BY <1>8, <1>t DEF RejectResult, AcceptResult, Rows, ProjectRecord
  <2> QED
    BY <1>8, <2>1, AdvanceKeepsSends DEF RejectResult, AcceptResult, CanDispatch
<1>9. ASSUME NEW p \in Projects, ProjectFailed(p) PROVE Sends'
  <2>1. \A q \in Projects : proj'[q].status = "Pending" => proj[q].status = "Pending"
    BY <1>9, <1>t DEF ProjectFailed, Rows, ProjectRecord
  <2>2. up /\ adv = "idle" /\ callbacks # NoCallbacks
    BY <1>9, Taken DEF ProjectFailed, Outcome
  <2> QED
    BY <1>9, <2>1, <2>2, AdvanceKeepsSends DEF ProjectFailed, CanDispatch
<1>10. ASSUME NEW p \in Projects, CascadeFailure(p) PROVE Sends'
  <2>1. \A q \in Projects : proj'[q].status = "Pending" => proj[q].status = "Pending"
    BY <1>10, <1>t DEF CascadeFailure, Rows, ProjectRecord
  <2> QED
    BY <1>10, <2>1, AdvanceKeepsSends DEF CascadeFailure, CanDispatch
<1>11. ASSUME NEW p \in Projects, ProjectCompleted(p) PROVE Sends'
  <2>1. \A q \in Projects : proj'[q].status = proj[q].status
    BY <1>11, <1>t DEF ProjectCompleted, Rows, ProjectRecord
  <2>2. up /\ adv = "idle" /\ callbacks # NoCallbacks
    BY <1>11, Taken DEF ProjectCompleted, Outcome
  <2> QED
    BY <1>11, <2>1, <2>2, AdvanceKeepsSends DEF ProjectCompleted, CanDispatch
<1>12. ASSUME NEW p \in Projects, SendFollowUp(p) \/ FollowUpFails(p) PROVE Sends'
  <2>1. \A q \in Projects : proj'[q].status = "Pending" => proj[q].status = "Pending"
    BY <1>12, <1>t, MarkStatus DEF SendFollowUp, FollowUpFails
  <2> QED
    BY <1>12, <2>1, AdvanceKeepsSends DEF SendFollowUp, FollowUpFails, CanDispatch
<1>13. CASE ScanReady
  BY <1>13, AdvanceKeepsSends DEF ScanReady, CanDispatch, Ready
<1>14. CASE LeaveOpen \/ CloseRun \/ RecordGoal
  BY <1>14, AdvanceKeepsSends DEF LeaveOpen, CloseRun, RecordGoal, CanDispatch
<1>15. ASSUME NEW p \in Projects, DispatchReady(p) PROVE Sends'
  <2>1. /\ up /\ up' /\ adv = "dispatch" /\ adv' = adv /\ p \in advTodo /\ advTodo' = advTodo \ {p}
        /\ UNCHANGED <<create, createTodo, sending, callbacks, crashes>>
    BY <1>15 DEF DispatchReady
  <2>2. ~Early /\ (AckBeforeCallback => create = "done")
    BY <2>1 DEF Sends
  <2>3. PICK s \in {"Running", "Failed"} : proj' = Mark(p, s)
    BY <1>15 DEF DispatchReady
  <2>4. \A q \in Projects : proj'[q].status = IF q = p THEN s ELSE proj[q].status
    BY <1>t, <2>3, MarkStatus
  <2>5. /\ sends' \in [Projects -> Nat] /\ sends'[p] <= sends[p] + 1
        /\ \A q \in Projects : q # p => sends'[q] = sends[q]
    BY <1>15, <1>t DEF DispatchReady
  <2>6. \A q \in Projects : /\ CanDispatch(q)' => CanDispatch(q) /\ q # p
                            /\ CanSendFirst(q)' <=> CanSendFirst(q)
    BY <2>1, <2>4 DEF CanDispatch, CanSendFirst
  <2>7. CanDispatch(p)
    BY <2>1 DEF CanDispatch
  <2>8. Bound'
    BY <1>t, <2>1, <2>2, <2>5, <2>6, <2>7 DEF Sends, Permits, Count
  <2> QED
    BY <2>1, <2>2, <2>8 DEF Sends, Early
<1>16. ASSUME NEW p \in Projects, NEW o \in Outcome, RemoteFinish(p, o) PROVE Sends'
  <2>1. UNCHANGED <<up, create, createTodo, sending, sends, crashes, proj, adv, advTodo>>
    BY <1>16 DEF RemoteFinish
  <2>2. ~Early /\ (AckBeforeCallback => create = "done")
    <3>1. ~Early
      BY <1>16 DEF RemoteFinish, Sends
    <3> QED
      BY <1>16, <3>1 DEF RemoteFinish, Early, TypeOK
  <2>3. Bound'
    BY <2>1 DEF Sends, Permits, Count, CanDispatch, CanSendFirst
  <2> QED
    BY <2>1, <2>2, <2>3 DEF Sends, Early
<1>17. ASSUME NEW p \in Projects, RemoteLost(p) PROVE Sends'
  <2>1. UNCHANGED <<up, create, createTodo, sending, sends, crashes, proj, adv, advTodo, callbacks>>
    BY <1>17 DEF RemoteLost
  <2>2. ~Early
    BY <1>17 DEF RemoteLost, Sends
  <2>3. Bound'
    BY <2>1 DEF Sends, Permits, Count, CanDispatch, CanSendFirst
  <2> QED
    BY <2>1, <2>2, <2>3 DEF Sends, Early
<1>18. CASE Crash
  <2>1. /\ up /\ ~up' /\ crashes' = crashes + 1 /\ create' = "done" /\ adv' = "idle"
        /\ UNCHANGED sends
    BY <1>18 DEF Crash
  <2>2. \A q \in Projects : ~CanDispatch(q)' /\ ~CanSendFirst(q)'
    BY <2>1 DEF CanDispatch, CanSendFirst
  <2>3. Bound'
    BY <1>t, <2>1, <2>2 DEF Sends, Permits, Count
  <2> QED
    BY <2>1, <2>3 DEF Sends, Early
<1>19. CASE Restart
  <2>1. /\ ~up /\ up' /\ create = "done" /\ create' = "done"
        /\ UNCHANGED <<sends, crashes>>
    BY <1>19 DEF Restart, Sends
  <2>2. \A q \in Projects : ~CanDispatch(q) /\ ~CanSendFirst(q) /\ ~CanSendFirst(q)'
    BY <2>1 DEF CanDispatch, CanSendFirst
  <2>3. Bound'
    BY <1>t, <2>1, <2>2 DEF Sends, Permits, Count
  <2> QED
    BY <2>1, <2>3 DEF Sends, Early
<1>20. CASE UNCHANGED vars
  BY <1>20 DEF vars, Sends, Early, Permits, Count, CanDispatch, CanSendFirst
<1> QED
  BY <1>1, <1>2, <1>3, <1>4, <1>5, <1>6, <1>7, <1>8, <1>9, <1>10, <1>11, <1>12, <1>13,
     <1>14, <1>15, <1>16, <1>17, <1>18, <1>19, <1>20
     DEF Next, Handler, Advance, Companies, Environment

\* A project's first message is sent once in every life of the daemon, and once more
\* where a callback may be handled before the request handler ends.
THEOREM SendCorrect == Spec => []SendBound
<1>1. TypeOK /\ Sends => SendBound
  BY BoundsAssumption DEF TypeOK, Sends, Permits, Count, SendBound
<1> QED
  BY <1>1, SendsInit, SendsStep, TypeCorrect, PTL DEF Spec

-----------------------------------------------------------------------------
(* RowsSettle and SettledStaysSettled. *)

\* What both need of the environment: every dispatch is answered, no callback is handled
\* before the request handler ends, and the daemon neither crashes nor fails to write.
\* Callbacks may still get lost.  Without one of the four, an answer that is late, a failure
\* that is not written or a memory that is gone makes rows and projects differ.
Calm ==
  /\ DispatchOutcomes = {"sent"} /\ AckBeforeCallback
  /\ MaxCrashes = 0 /\ MaxDbFaults = 0

\* What is on its way for p: tasks, and callbacks that have not been handled.
Load(p) == tasks[p] + callbacks[p]["completed"] + callbacks[p]["failed"]

\* The request handler is alone until it is done, and only starts projects.
Alone ==
  /\ create # "done" => /\ adv = "idle" /\ callbacks = NoCallbacks
                        /\ dbRun \notin Settled /\ goalRow \notin {"completed", "failed"}
                        /\ \A p \in Projects : proj[p].status \in {"Pending", "Running"}
  /\ Early => \A p \in Projects : tasks[p] = 0 /\ proj[p] = Fresh
  /\ create = "request" => goalRow = "absent"
  /\ create \notin {"request", "rejected"} => goalRow # "absent"
  /\ create \notin {"request", "rejected", "publish"} => known = Projects
  /\ create = "persist" => dbRows \cup createTodo = Projects
  /\ create \in {"dispatch", "ack", "done"} => dbRows = Projects
  /\ create \in {"dispatch", "ack"} => \A p \in createTodo : proj[p].status = "Pending"
  /\ create = "ack" => sending \in createTodo

\* At most one thing is on its way for a project, and only while it runs: nothing can
\* arrive for a project that has settled.
Carried ==
  \A p \in Projects :
    /\ Load(p) \in {0, 1}
    /\ Load(p) = 1 => proj[p].status = "Running" \/ (create = "ack" /\ sending = p)

\* What the callback handler is about to change has not settled.
Turn ==
  /\ adv \in {"assess", "followup"} =>
       advProj \in Projects /\ proj[advProj].status = "Running" /\ Load(advProj) = 0
  /\ adv \in {"cascade", "dispatch"} => \A q \in advTodo : proj[q].status = "Pending"

\* Every change of a status is written, but that to Running.
Written == \A p \in Projects : proj[p].status # "Running" => dbProj[p] = proj[p]

\* The verdict comes last.
Last ==
  /\ adv = "record" => dbRun \in Settled /\ goalRow = "in_progress"
  /\ goalRow \in {"completed", "failed"} => dbRun \in Settled /\ adv = "idle"
  /\ dbRun \in Settled => /\ adv \in {"idle", "record"}
                          /\ \A p \in Projects : proj[p].status \in Settled

CalmInv ==
  /\ Calm /\ up /\ crashes = 0 /\ dbFaults = 0
  /\ Alone /\ Carried /\ Turn /\ Written /\ Last

LEMMA CalmInit == Init /\ Calm => CalmInv
BY DEF Init, CalmInv, Alone, Carried, Turn, Written, Last, Load, NoCallbacks, Early, Fresh,
       Settled, Outcome

\* No write fails and no daemon crashes.
LEMMA NoFaults ==
  ASSUME TypeOK, CalmInv
  PROVE  ~DbFault /\ ~Crash /\ ~Restart
BY BoundsAssumption DEF TypeOK, CalmInv, Calm, DbFault, Crash, Restart

LEMMA CalmSync ==
  ASSUME TypeOK, CalmInv, create = "done", NEW p \in Projects, SyncProject(p)
  PROVE  /\ dbFaults' = dbFaults /\ dbProj'[p] = proj'[p]
         /\ \A q \in Projects : q # p => dbProj'[q] = dbProj[q]
<1>1. dbRows = Projects
  BY DEF CalmInv, Alone
<1> QED
  BY <1>1, NoFaults DEF SyncProject, TypeOK

\* What changes the load of a project.
LEMMA LoadTyped == TypeOK => \A p \in Projects : Load(p) \in Nat
BY DEF TypeOK, Load, Outcome

LEMMA LoadSent ==
  ASSUME TypeOK, NEW p \in Projects, tasks' = [tasks EXCEPT ![p] = @ + 1], UNCHANGED callbacks
  PROVE  \A q \in Projects : Load(q)' = IF q = p THEN Load(q) + 1 ELSE Load(q)
<1>1. ASSUME NEW q \in Projects
      PROVE  tasks'[q] = (IF q = p THEN tasks[q] + 1 ELSE tasks[q]) /\ tasks[q] \in Nat
             /\ callbacks[q]["completed"] \in Nat /\ callbacks[q]["failed"] \in Nat
  BY DEF TypeOK, Outcome
<1> QED
  BY <1>1 DEF Load

LEMMA LoadMoved ==
  ASSUME TypeOK, NEW p \in Projects, NEW o \in Outcome, tasks[p] > 0,
         tasks' = [tasks EXCEPT ![p] = @ - 1], callbacks' = [callbacks EXCEPT ![p][o] = @ + 1]
  PROVE  \A q \in Projects : Load(q)' = Load(q)
<1>1. ASSUME NEW q \in Projects
      PROVE  /\ tasks'[q] = (IF q = p THEN tasks[q] - 1 ELSE tasks[q]) /\ tasks[q] \in Nat
             /\ callbacks[q]["completed"] \in Nat /\ callbacks[q]["failed"] \in Nat
  BY DEF TypeOK, Outcome
<1>2. callbacks[p] \in [Outcome -> Nat] /\ callbacks'[p] = [callbacks[p] EXCEPT ![o] = @ + 1]
      /\ \A q \in Projects : q # p => callbacks'[q] = callbacks[q]
  BY DEF TypeOK
<1>3. callbacks'[p]["completed"] + callbacks'[p]["failed"]
        = callbacks[p]["completed"] + callbacks[p]["failed"] + 1
  <2>1. CASE o = "completed"
    BY <1>1, <1>2, <2>1 DEF Outcome
  <2>2. CASE o = "failed"
    BY <1>1, <1>2, <2>2 DEF Outcome
  <2> QED
    BY <2>1, <2>2 DEF Outcome
<1>4. callbacks'[p]["completed"] \in Nat /\ callbacks'[p]["failed"] \in Nat
  BY <1>1, <1>2 DEF Outcome
<1> QED
  BY <1>1, <1>2, <1>3, <1>4 DEF Load

LEMMA LoadTaken ==
  ASSUME TypeOK, NEW p \in Projects, NEW o \in Outcome, TakeCallback(p, o), UNCHANGED tasks
  PROVE  /\ Load(p) > 0
         /\ \A q \in Projects : Load(q)' = IF q = p THEN Load(q) - 1 ELSE Load(q)
<1>1. /\ \A q \in Projects : /\ tasks'[q] = tasks[q] /\ tasks[q] \in Nat
                             /\ callbacks[q]["completed"] \in Nat /\ callbacks[q]["failed"] \in Nat
      /\ callbacks[p][o] > 0
  BY DEF TypeOK, Outcome, TakeCallback
<1>2. callbacks[p] \in [Outcome -> Nat] /\ callbacks'[p] = [callbacks[p] EXCEPT ![o] = @ - 1]
      /\ \A q \in Projects : q # p => callbacks'[q] = callbacks[q]
  BY DEF TypeOK, TakeCallback
<1>3. /\ callbacks'[p]["completed"] + callbacks'[p]["failed"]
             + 1 = callbacks[p]["completed"] + callbacks[p]["failed"]
      /\ callbacks[p]["completed"] + callbacks[p]["failed"] > 0
  <2>1. CASE o = "completed"
    BY <1>1, <1>2, <2>1 DEF Outcome
  <2>2. CASE o = "failed"
    BY <1>1, <1>2, <2>2 DEF Outcome
  <2> QED
    BY <2>1, <2>2 DEF Outcome
<1>4. callbacks'[p]["completed"] \in Nat /\ callbacks'[p]["failed"] \in Nat
  BY <1>1, <1>2 DEF Outcome
<1>5. Load(p) > 0
  <2>1. tasks[p] \in Nat /\ callbacks[p]["completed"] \in Nat /\ callbacks[p]["failed"] \in Nat
    BY <1>1
  <2> QED
    BY <1>3, <2>1 DEF Load
<1>6. Load(p)' = Load(p) - 1
  <2>1. tasks[p] \in Nat /\ callbacks[p]["completed"] \in Nat /\ callbacks[p]["failed"] \in Nat
        /\ tasks'[p] = tasks[p]
    BY <1>1
  <2> QED
    BY <1>3, <1>4, <2>1 DEF Load
<1> QED
  BY <1>1, <1>2, <1>5, <1>6 DEF Load

LEMMA LoadLost ==
  ASSUME TypeOK, NEW p \in Projects, tasks[p] > 0,
         tasks' = [tasks EXCEPT ![p] = @ - 1], UNCHANGED callbacks
  PROVE  Load(p) > 0 /\ \A q \in Projects : Load(q)' = IF q = p THEN Load(q) - 1 ELSE Load(q)
<1>1. ASSUME NEW q \in Projects
      PROVE  tasks'[q] = (IF q = p THEN tasks[q] - 1 ELSE tasks[q]) /\ tasks[q] \in Nat
             /\ callbacks[q]["completed"] \in Nat /\ callbacks[q]["failed"] \in Nat
  BY DEF TypeOK, Outcome
<1> QED
  BY <1>1 DEF Load

\* A step of the callback handler finds the request handler done.
LEMMA AdvanceIsAfter ==
  ASSUME CalmInv, adv # "idle" \/ callbacks # NoCallbacks
  PROVE  create = "done" /\ known = Projects /\ dbRows = Projects /\ goalRow # "absent"
BY DEF CalmInv, Alone

LEMMA StaysAlone ==
  ASSUME create = "done", UNCHANGED <<create, known, dbRows>>, known = Projects,
         dbRows = Projects, goalRow' # "absent"
  PROVE  Alone'
BY DEF Alone, Early

LEMMA CalmStep == TypeOK /\ CalmInv /\ [Next]_vars => CalmInv'
<1> SUFFICES ASSUME TypeOK, CalmInv, [Next]_vars PROVE CalmInv'
  OBVIOUS
<1> USE DEF reqVars, memVars, advVars, netVars, dbVars, history
<1>t. /\ proj \in Rows /\ dbProj \in Rows /\ tasks \in [Projects -> Nat]
      /\ createTodo \subseteq Projects /\ advTodo \subseteq Projects
      /\ \A p \in Projects : proj[p] \in ProjectRecord /\ Load(p) \in Nat
  BY LoadTyped DEF TypeOK, Rows
<1>c. /\ Calm /\ up /\ crashes = 0 /\ dbFaults = 0 /\ ~DbFault /\ ~Crash /\ ~Restart
      /\ Alone /\ Carried /\ Turn /\ Written /\ Last
      /\ "timeout" \notin DispatchOutcomes /\ "refused" \notin DispatchOutcomes
  BY NoFaults DEF CalmInv, Calm
\* A goal that is not over stays so, as long as its rows and its end are left alone.
<1>o. ASSUME dbRun \notin Settled, UNCHANGED <<dbRun, goalRow>>, adv' # "record"
      PROVE  Last'
  BY <1>c, <1>o DEF Last
<1>1. CASE CreateGoal
  <2>1. /\ create = "request" /\ create' \in {"publish", "rejected"} /\ up' = up
        /\ dbFaults' = dbFaults /\ crashes' = crashes
        /\ goalRow' \in {"absent", "in_progress"} /\ (create' = "publish" => goalRow' # "absent")
        /\ UNCHANGED <<memVars, advVars, netVars, dbRun, dbRows, dbProj>>
    BY <1>1, <1>c DEF CreateGoal, SaveGoal, Alone
  <2>2. Alone'
    BY <1>c, <2>1 DEF Alone, Early
  <2>3. Carried' /\ Turn' /\ Written' /\ Last'
    BY <1>c, <2>1 DEF Carried, Turn, Written, Last, Load, Alone
  <2> QED
    BY <1>c, <2>1, <2>2, <2>3 DEF CalmInv
<1>2. CASE PublishRun
  <2>1. /\ create = "publish" /\ create' = "persist" /\ createTodo' = Projects /\ up' = up
        /\ dbFaults' = dbFaults /\ crashes' = crashes /\ dbRun' = "InProgress"
        /\ known' = Projects /\ \A p \in Projects : proj'[p] = Fresh
        /\ UNCHANGED <<advVars, netVars, dbRows, dbProj, goalRow>>
    BY <1>2, <1>c DEF PublishRun, SaveRun
  <2>2. \A p \in Projects : proj'[p] = proj[p]
    BY <1>c, <2>1 DEF Alone, Early
  <2>3. Alone'
    BY <1>c, <1>t, <2>1 DEF Alone, Early, Fresh, Settled, TypeOK
  <2>4. Carried' /\ Turn' /\ Written'
    BY <1>c, <2>1, <2>2 DEF Carried, Turn, Written, Load, Alone
  <2>5. Last'
    BY <1>c, <2>1 DEF Last, Settled, Alone
  <2> QED
    BY <1>c, <2>1, <2>3, <2>4, <2>5 DEF CalmInv
<1>3. ASSUME NEW p \in Projects, PersistProject(p) PROVE CalmInv'
  <2>1. /\ create = "persist" /\ p \in createTodo /\ dbRows' = dbRows \cup {p}
        /\ dbFaults' = dbFaults /\ crashes' = crashes /\ up' = up
        /\ \A q \in Projects : dbProj'[q] = IF q = p THEN proj[q] ELSE dbProj[q]
        /\ UNCHANGED <<sending, memVars, advVars, netVars, dbRun, goalRow>>
    BY <1>3, <1>c, <1>t DEF PersistProject, Rows
  <2>2. \/ create' = "persist" /\ createTodo' = createTodo \ {p}
        \/ create' = "dispatch" /\ createTodo = {p}
    BY <1>3 DEF PersistProject
  <2>3. dbRows \cup createTodo = Projects /\ \A q \in Projects : proj[q].status = "Pending"
    BY <1>c, <2>1 DEF Alone, Early, Fresh
  <2>4. createTodo' \subseteq Projects
    BY <1>3, TypeStep DEF TypeOK
  <2>5. Alone'
    BY <1>c, <1>t, <2>1, <2>2, <2>3, <2>4 DEF Alone, Early
  <2>6. Carried' /\ Turn' /\ Written' /\ Last'
    BY <1>c, <2>1, <2>2 DEF Carried, Turn, Written, Load, Alone, Last
  <2> QED
    BY <1>c, <2>1, <2>5, <2>6 DEF CalmInv
<1>4. ASSUME NEW p \in Projects PROVE ~RefuseFirst(p)
  BY <1>c DEF RefuseFirst
<1>5. ASSUME NEW p \in Projects, SendFirst(p) PROVE CalmInv'
  <2>1. /\ create = "dispatch" /\ create' = "ack" /\ sending' = p /\ p \in createTodo /\ up' = up
        /\ dbFaults' = dbFaults /\ crashes' = crashes
        /\ UNCHANGED <<createTodo, memVars, advVars, callbacks, dbVars>>
    BY <1>5 DEF SendFirst
  <2>2. \A q \in Projects : Load(q)' = IF q = p THEN Load(q) + 1 ELSE Load(q)
    BY <1>5, LoadSent DEF SendFirst
  <2>3. proj[p].status = "Pending" /\ Load(p) = 0
    BY <1>c, <2>1 DEF Alone, Carried
  <2>4. Alone'
    BY <1>c, <2>1 DEF Alone, Early
  <2>5. Carried'
    BY <1>c, <2>1, <2>2, <2>3 DEF Carried
  <2>6. Turn' /\ Written' /\ Last'
    BY <1>c, <2>1 DEF Turn, Written, Last, Alone
  <2> QED
    BY <1>c, <2>1, <2>4, <2>5, <2>6 DEF CalmInv
<1>6. ASSUME NEW p \in Projects, FirstAnswered(p) PROVE CalmInv'
  <2>1. /\ create = "ack" /\ sending = p /\ create' \in {"dispatch", "done"} /\ up' = up
        /\ createTodo' = createTodo \ {p} /\ proj' = Mark(p, "Running")
        /\ dbFaults' = dbFaults /\ crashes' = crashes
        /\ UNCHANGED <<known, advVars, netVars, dbVars>>
    BY <1>6, <1>c DEF FirstAnswered, AfterFirst
  <2>2. \A q \in Projects : /\ proj'[q].status = IF q = p THEN "Running" ELSE proj[q].status
                            /\ q # p => proj'[q] = proj[q]
    <3>1. \A q \in Projects : q # p => proj'[q] = proj[q]
      BY <1>t, <2>1 DEF Mark, Rows
    <3> QED
      BY <1>t, <2>1, <3>1, MarkStatus
  <2>3. \A q \in Projects : Load(q)' = Load(q)
    BY <2>1 DEF Load
  <2>4. Alone'
    BY <1>c, <1>t, <2>1, <2>2 DEF Alone, Early
  <2>5. Carried'
    BY <1>c, <2>1, <2>2, <2>3 DEF Carried
  <2>6. Turn' /\ Written' /\ Last'
    BY <1>c, <2>1, <2>2 DEF Turn, Written, Last, Alone
  <2> QED
    BY <1>c, <2>1, <2>4, <2>5, <2>6 DEF CalmInv
<1>7. ASSUME NEW p \in Projects, NEW o \in Outcome, TakeCallback(p, o), UNCHANGED tasks
      PROVE  /\ create = "done" /\ known = Projects /\ dbRows = Projects /\ goalRow # "absent"
             /\ adv = "idle" /\ proj[p].status = "Running" /\ Load(p)' = 0
             /\ \A q \in Projects : q # p => Load(q)' = Load(q)
             /\ dbRun \notin Settled
  <2>1. adv = "idle" /\ callbacks # NoCallbacks
    BY <1>7, Taken
  <2>2. create = "done" /\ known = Projects /\ dbRows = Projects /\ goalRow # "absent"
    BY <2>1, AdvanceIsAfter
  <2>3. Load(p) > 0 /\ \A q \in Projects : Load(q)' = IF q = p THEN Load(q) - 1 ELSE Load(q)
    BY <1>7, LoadTaken
  <2>4. Load(p) = 1 /\ proj[p].status = "Running"
    BY <1>c, <2>2, <2>3 DEF Carried
  <2>5. dbRun \notin Settled
    BY <1>c, <2>4 DEF Last, Settled
  <2> QED
    BY <2>1, <2>2, <2>3, <2>4, <2>5
<1>8. ASSUME NEW p \in Projects, NEW o \in Outcome, IgnoreCallback(p, o) PROVE CalmInv'
  <2>1. /\ create = "done" /\ known = Projects /\ dbRows = Projects /\ goalRow # "absent"
        /\ Load(p)' = 0 /\ \A q \in Projects : q # p => Load(q)' = Load(q)
    BY <1>7, <1>8 DEF IgnoreCallback
  <2>2. /\ up' = up /\ dbFaults' = dbFaults /\ crashes' = crashes /\ adv' = adv /\ adv = "idle"
        /\ UNCHANGED <<reqVars, memVars, advVars, dbVars>>
    BY <1>8 DEF IgnoreCallback, TakeCallback
  <2>3. Alone'
    BY <2>1, <2>2, StaysAlone
  <2>4. Carried' /\ Turn' /\ Written' /\ Last'
    BY <1>c, <2>1, <2>2 DEF Carried, Turn, Written, Last
  <2> QED
    BY <1>c, <2>2, <2>3, <2>4 DEF CalmInv
<1>9. ASSUME NEW p \in Projects, ProjectFailed(p) PROVE CalmInv'
  <2>1. /\ create = "done" /\ known = Projects /\ dbRows = Projects /\ goalRow # "absent"
        /\ Load(p)' = 0 /\ \A q \in Projects : q # p => Load(q)' = Load(q)
        /\ dbRun \notin Settled /\ proj[p].status = "Running"
    BY <1>7, <1>9 DEF ProjectFailed, Outcome
  <2>2. /\ up' = up /\ crashes' = crashes /\ adv' = "cascade" /\ advTodo' = Dependents(p)
        /\ proj' = [proj EXCEPT ![p].status = "Failed", ![p].output = TRUE]
        /\ SyncProject(p) /\ UNCHANGED <<reqVars, known, dbRun, dbRows, goalRow>>
    BY <1>9 DEF ProjectFailed
  <2>3. \A q \in Projects : q # p => proj'[q] = proj[q]
    BY <1>t, <2>2 DEF Rows
  <2>4. proj'[p].status = "Failed"
    BY <1>t, <2>2 DEF Rows, ProjectRecord
  <2>5. /\ dbFaults' = dbFaults /\ dbProj'[p] = proj'[p]
        /\ \A q \in Projects : q # p => dbProj'[q] = dbProj[q]
    BY <2>1, <2>2, CalmSync
  <2>6. Alone'
    BY <2>1, <2>2, StaysAlone
  <2>7. Carried'
    <3>1. create' = "done"
      BY <2>1, <2>2
    <3> QED
      BY <1>c, <2>1, <2>3, <3>1 DEF Carried
  <2>8. Turn'
    BY <2>1, <2>2, <2>3 DEF Turn, Dependents
  <2>9. Written'
    BY <1>c, <2>3, <2>5 DEF Written
  <2>10. Last'
    BY <1>o, <2>1, <2>2
  <2> QED
    BY <1>c, <2>2, <2>5, <2>6, <2>7, <2>8, <2>9, <2>10 DEF CalmInv
<1>10. ASSUME NEW p \in Projects, ProjectCompleted(p) PROVE CalmInv'
  <2>1. /\ create = "done" /\ known = Projects /\ dbRows = Projects /\ goalRow # "absent"
        /\ Load(p)' = 0 /\ \A q \in Projects : q # p => Load(q)' = Load(q)
        /\ dbRun \notin Settled /\ proj[p].status = "Running"
    BY <1>7, <1>10 DEF ProjectCompleted, Outcome
  <2>2. /\ up' = up /\ crashes' = crashes /\ dbFaults' = dbFaults /\ adv' = "assess" /\ advProj' = p
        /\ proj' = [proj EXCEPT ![p].round = @ + 1]
        /\ UNCHANGED <<reqVars, known, dbRun, dbRows, dbProj, goalRow>>
    BY <1>10 DEF ProjectCompleted
  <2>3. \A q \in Projects : q # p => proj'[q] = proj[q]
    BY <1>t, <2>2 DEF Rows
  <2>4. proj'[p].status = "Running"
    BY <1>t, <2>1, <2>2 DEF Rows, ProjectRecord
  <2>5. Alone'
    BY <2>1, <2>2, StaysAlone
  <2>6. Carried' /\ Turn' /\ Written'
    BY <1>c, <2>1, <2>2, <2>3, <2>4 DEF Carried, Turn, Written
  <2>7. Last'
    BY <1>o, <2>1, <2>2
  <2> QED
    BY <1>c, <2>2, <2>5, <2>6, <2>7 DEF CalmInv
\* The other steps of the callback handler.
<1>11. ASSUME adv # "idle", UNCHANGED <<create, known, dbRows>>, goalRow' # "absent" PROVE Alone'
  BY <1>11, AdvanceIsAfter, StaysAlone
<1>12. ASSUME NEW p \in Projects, CascadeFailure(p) PROVE CalmInv'
  <2>1. /\ adv = "cascade" /\ adv' = adv /\ p \in advTodo /\ advTodo' = advTodo \ {p}
        /\ proj' = [proj EXCEPT ![p].status = "Failed", ![p].output = TRUE]
        /\ up' = up /\ crashes' = crashes /\ SyncProject(p)
        /\ UNCHANGED <<reqVars, known, netVars, dbRun, dbRows, goalRow>>
    BY <1>12 DEF CascadeFailure
  <2>2. create = "done" /\ known = Projects /\ dbRows = Projects /\ goalRow # "absent"
    BY <2>1, AdvanceIsAfter
  <2>3. /\ \A q \in Projects : q # p => proj'[q] = proj[q]
        /\ proj'[p].status = "Failed" /\ proj[p].status = "Pending"
    <3>1. \A q \in Projects : q # p => proj'[q] = proj[q]
      BY <1>t, <2>1 DEF Rows
    <3>2. proj'[p].status = "Failed"
      BY <1>t, <2>1 DEF Rows, ProjectRecord
    <3> QED
      BY <1>c, <2>1, <3>1, <3>2 DEF Turn
  <2>4. /\ dbFaults' = dbFaults /\ dbProj'[p] = proj'[p]
        /\ \A q \in Projects : q # p => dbProj'[q] = dbProj[q]
    BY <2>1, <2>2, CalmSync
  <2>5. \A q \in Projects : Load(q)' = Load(q)
    BY <2>1 DEF Load
  <2>6. Alone'
    BY <1>11, <2>1, <2>2
  <2>7. Carried' /\ Turn' /\ Written'
    <3>1. create' = "done"
      BY <2>1, <2>2
    <3>2. Carried'
      BY <1>c, <2>2, <2>3, <2>5, <3>1 DEF Carried
    <3>3. Turn'
      BY <1>c, <1>t, <2>1, <2>3 DEF Turn
    <3>4. Written'
      BY <1>c, <2>3, <2>4 DEF Written
    <3> QED
      BY <3>2, <3>3, <3>4
  <2>8. Last'
    BY <1>c, <2>1, <2>3 DEF Last, Settled
  <2> QED
    BY <1>c, <2>1, <2>4, <2>6, <2>7, <2>8 DEF CalmInv
<1>13. ASSUME NEW p \in Projects, NEW v \in Verdicts, RejectResult(p, v) PROVE CalmInv'
  <2>1. /\ adv = "assess" /\ adv' = "followup" /\ advProj = p /\ advProj' = p
        /\ proj' = [proj EXCEPT ![p].status = "Running", ![p].output = HasOutput(v)]
        /\ up' = up /\ crashes' = crashes /\ SyncProject(p)
        /\ UNCHANGED <<reqVars, known, netVars, dbRun, dbRows, goalRow>>
    BY <1>13 DEF RejectResult
  <2>2. create = "done" /\ known = Projects /\ dbRows = Projects /\ goalRow # "absent"
    BY <2>1, AdvanceIsAfter
  <2>3. \A q \in Projects : q # p => proj'[q] = proj[q]
    BY <1>t, <2>1 DEF Rows
  <2>4. proj'[p].status = "Running"
    BY <1>t, <2>1 DEF Rows, ProjectRecord
  <2>5. /\ dbFaults' = dbFaults /\ \A q \in Projects : q # p => dbProj'[q] = dbProj[q]
    BY <2>1, <2>2, CalmSync
  <2>6. \A q \in Projects : Load(q)' = Load(q)
    BY <2>1 DEF Load
  <2>7. Alone'
    BY <1>11, <2>1, <2>2
  <2>8. Carried' /\ Turn' /\ Written'
    <3>1. create' = "done" /\ adv' = "followup" /\ advProj' = p
      BY <2>1, <2>2
    <3>2. Load(p) = 0
      BY <1>c, <2>1 DEF Turn
    <3>3. Carried'
      BY <1>c, <2>2, <2>3, <2>4, <2>6, <3>1 DEF Carried
    <3>4. Turn'
      BY <2>4, <2>6, <3>1, <3>2 DEF Turn
    <3>5. Written'
      BY <1>c, <2>3, <2>4, <2>5 DEF Written
    <3> QED
      BY <3>3, <3>4, <3>5
  <2>9. Last'
    BY <1>c, <1>o, <2>1 DEF Last
  <2> QED
    BY <1>c, <2>1, <2>5, <2>7, <2>8, <2>9 DEF CalmInv
<1>14. ASSUME NEW p \in Projects, NEW v \in Verdicts, AcceptResult(p, v) PROVE CalmInv'
  <2>1. /\ adv = "assess" /\ adv' = "scan" /\ advProj = p
        /\ proj' = [proj EXCEPT ![p].status = "Completed", ![p].output = HasOutput(v)]
        /\ up' = up /\ crashes' = crashes /\ SyncProject(p)
        /\ UNCHANGED <<reqVars, known, netVars, dbRun, dbRows, goalRow>>
    BY <1>14 DEF AcceptResult
  <2>2. create = "done" /\ known = Projects /\ dbRows = Projects /\ goalRow # "absent"
    BY <2>1, AdvanceIsAfter
  <2>3. \A q \in Projects : q # p => proj'[q] = proj[q]
    BY <1>t, <2>1 DEF Rows
  <2>4. Load(p) = 0
    BY <1>c, <2>1 DEF Turn
  <2>5. /\ dbFaults' = dbFaults /\ dbProj'[p] = proj'[p]
        /\ \A q \in Projects : q # p => dbProj'[q] = dbProj[q]
    BY <2>1, <2>2, CalmSync
  <2>6. \A q \in Projects : Load(q)' = Load(q)
    BY <2>1 DEF Load
  <2>7. Alone'
    BY <1>11, <2>1, <2>2
  <2>8. Carried' /\ Turn' /\ Written'
    <3>1. create' = "done" /\ adv' = "scan"
      BY <2>1, <2>2
    <3>2. Carried'
      BY <1>c, <2>2, <2>3, <2>4, <2>6, <3>1 DEF Carried
    <3>3. Turn'
      BY <3>1 DEF Turn
    <3>4. Written'
      BY <1>c, <2>3, <2>5 DEF Written
    <3> QED
      BY <3>2, <3>3, <3>4
  <2>9. Last'
    BY <1>c, <1>o, <2>1 DEF Last
  <2> QED
    BY <1>c, <2>1, <2>5, <2>7, <2>8, <2>9 DEF CalmInv
<1>15. ASSUME NEW p \in Projects, SendFollowUp(p) PROVE CalmInv'
  <2>1. /\ adv = "followup" /\ adv' = "idle" /\ advProj = p
        /\ up' = up /\ crashes' = crashes /\ dbFaults' = dbFaults
        /\ UNCHANGED <<reqVars, memVars, callbacks, dbVars>>
    BY <1>15 DEF SendFollowUp
  <2>2. create = "done" /\ known = Projects /\ dbRows = Projects /\ goalRow # "absent"
    BY <2>1, AdvanceIsAfter
  <2>3. \A q \in Projects : Load(q)' = IF q = p THEN Load(q) + 1 ELSE Load(q)
    BY <1>15, LoadSent DEF SendFollowUp
  <2>4. proj[p].status = "Running" /\ Load(p) = 0
    BY <1>c, <2>1 DEF Turn
  <2>5. Alone'
    BY <1>11, <2>1, <2>2
  <2>6. Carried' /\ Turn' /\ Written'
    BY <1>c, <2>1, <2>2, <2>3, <2>4 DEF Carried, Turn, Written
  <2>7. Last'
    BY <1>c, <1>o, <2>1 DEF Last
  <2> QED
    BY <1>c, <2>1, <2>5, <2>6, <2>7 DEF CalmInv
<1>16. ASSUME NEW p \in Projects PROVE ~FollowUpFails(p)
  BY <1>c DEF FollowUpFails
<1>17. CASE ScanReady
  <2>1. /\ adv \in {"scan", "cascade"} /\ adv' = "dispatch" /\ advTodo' = {q \in known : Ready(q)}
        /\ up' = up /\ crashes' = crashes /\ dbFaults' = dbFaults
        /\ UNCHANGED <<reqVars, memVars, netVars, dbVars>>
    BY <1>17 DEF ScanReady
  <2>2. create = "done" /\ known = Projects /\ dbRows = Projects /\ goalRow # "absent"
    BY <2>1, AdvanceIsAfter
  <2>3. Alone'
    BY <1>11, <2>1, <2>2
  <2>4. Carried' /\ Written'
    BY <1>c, <2>1 DEF Carried, Written, Load
  <2>5. Turn'
    BY <2>1 DEF Turn, Ready
  <2>6. Last'
    BY <1>c, <1>o, <2>1 DEF Last
  <2> QED
    BY <1>c, <2>1, <2>3, <2>4, <2>5, <2>6 DEF CalmInv
<1>18. ASSUME NEW p \in Projects, DispatchReady(p) PROVE CalmInv'
  <2>1. /\ adv = "dispatch" /\ adv' = adv /\ p \in advTodo /\ advTodo' = advTodo \ {p}
        /\ proj' = Mark(p, "Running")
        /\ up' = up /\ crashes' = crashes /\ dbFaults' = dbFaults
        /\ UNCHANGED <<reqVars, known, callbacks, dbVars>>
    BY <1>18, <1>c DEF DispatchReady
  <2>2. create = "done" /\ known = Projects /\ dbRows = Projects /\ goalRow # "absent"
    BY <2>1, AdvanceIsAfter
  <2>3. /\ \A q \in Projects : q # p => proj'[q] = proj[q]
        /\ proj'[p].status = "Running"
    <3>1. \A q \in Projects : q # p => proj'[q] = proj[q]
      BY <1>t, <2>1 DEF Mark, Rows
    <3> QED
      BY <1>t, <2>1, <3>1, MarkStatus
  <2>4. \A q \in Projects : Load(q)' = IF q = p THEN Load(q) + 1 ELSE Load(q)
    BY <1>18, <1>c, LoadSent DEF DispatchReady
  <2>5. proj[p].status = "Pending" /\ Load(p) = 0
    BY <1>c, <2>1, <2>2 DEF Turn, Carried
  <2>6. Alone'
    BY <1>11, <2>1, <2>2
  <2>7. Carried' /\ Turn' /\ Written'
    BY <1>c, <1>t, <2>1, <2>2, <2>3, <2>4, <2>5 DEF Carried, Turn, Written
  <2>8. Last'
    BY <1>c, <1>o, <2>1 DEF Last
  <2> QED
    BY <1>c, <2>1, <2>6, <2>7, <2>8 DEF CalmInv
<1>19. CASE LeaveOpen
  <2>1. /\ adv = "dispatch" /\ adv' = "idle"
        /\ up' = up /\ crashes' = crashes /\ dbFaults' = dbFaults
        /\ UNCHANGED <<reqVars, memVars, netVars, dbVars>>
    BY <1>19 DEF LeaveOpen
  <2>2. create = "done" /\ known = Projects /\ dbRows = Projects /\ goalRow # "absent"
    BY <2>1, AdvanceIsAfter
  <2>3. Alone'
    BY <1>11, <2>1, <2>2
  <2>4. Carried' /\ Turn' /\ Written'
    BY <1>c, <2>1 DEF Carried, Turn, Written, Load
  <2>5. Last'
    BY <1>c, <1>o, <2>1 DEF Last
  <2> QED
    BY <1>c, <2>1, <2>3, <2>4, <2>5 DEF CalmInv
<1>20. CASE CloseRun
  <2>1. /\ adv = "dispatch" /\ adv' = "record" /\ AllDone /\ dbRun' \in Settled
        /\ up' = up /\ crashes' = crashes /\ dbFaults' = dbFaults
        /\ UNCHANGED <<reqVars, known, proj, netVars, dbRows, dbProj, goalRow>>
    BY <1>20, <1>c DEF CloseRun, SaveRun, Settled
  <2>2. create = "done" /\ known = Projects /\ dbRows = Projects /\ goalRow # "absent"
    BY <2>1, AdvanceIsAfter
  <2>3. Alone'
    BY <1>11, <2>1, <2>2
  <2>4. Carried' /\ Turn' /\ Written'
    BY <1>c, <2>1 DEF Carried, Turn, Written, Load
  <2>5. goalRow = "in_progress"
    BY <1>c, <2>1, <2>2 DEF Last, TypeOK
  <2>6. Last'
    BY <2>1, <2>2, <2>5 DEF Last, AllDone, Settled
  <2> QED
    BY <1>c, <2>1, <2>3, <2>4, <2>6 DEF CalmInv
<1>21. CASE RecordGoal
  <2>1. /\ adv = "record" /\ adv' = "idle" /\ (goalRow # "absent" => goalRow' # "absent")
        /\ up' = up /\ crashes' = crashes /\ dbFaults' = dbFaults
        /\ UNCHANGED <<reqVars, memVars, netVars, dbRun, dbRows, dbProj>>
    BY <1>21, <1>c DEF RecordGoal, SaveGoal
  <2>2. create = "done" /\ known = Projects /\ dbRows = Projects /\ goalRow # "absent"
    BY <2>1, AdvanceIsAfter
  <2>3. Alone'
    BY <1>11, <2>1, <2>2
  <2>4. Carried' /\ Turn' /\ Written'
    BY <1>c, <2>1 DEF Carried, Turn, Written, Load
  <2>5. Last'
    BY <1>c, <2>1 DEF Last
  <2> QED
    BY <1>c, <2>1, <2>3, <2>4, <2>5 DEF CalmInv
<1>22. ASSUME NEW p \in Projects, tasks[p] > 0
       PROVE  create \in {"ack", "dispatch", "done"}
  BY <1>22, <1>c DEF Alone, Early, TypeOK
<1>23. ASSUME NEW p \in Projects, NEW o \in Outcome, RemoteFinish(p, o) PROVE CalmInv'
  <2>1. /\ UNCHANGED <<reqVars, up, memVars, advVars, dbVars, crashes, dbFaults>>
        /\ tasks[p] > 0 /\ create = "done"
    BY <1>22, <1>23, <1>c DEF RemoteFinish, Calm
  <2>2. \A q \in Projects : Load(q)' = Load(q)
    BY <1>23, <1>c, LoadMoved DEF RemoteFinish
  <2>3. create = "done" /\ known = Projects /\ dbRows = Projects /\ goalRow # "absent"
    BY <1>c, <2>1 DEF Alone
  <2>4. Alone'
    BY <2>1, <2>3, StaysAlone
  <2>5. Carried' /\ Turn' /\ Written' /\ Last'
    BY <1>c, <1>t, <2>1, <2>2 DEF Carried, Turn, Written, Last, TypeOK
  <2> QED
    BY <1>c, <2>1, <2>4, <2>5 DEF CalmInv
<1>24. ASSUME NEW p \in Projects, RemoteLost(p) PROVE CalmInv'
  <2>1. /\ UNCHANGED <<reqVars, up, memVars, advVars, callbacks, dbVars, crashes, dbFaults>>
        /\ tasks[p] > 0 /\ ~Early
    BY <1>22, <1>24 DEF RemoteLost, Early
  <2>2. /\ Load(p) > 0
        /\ \A q \in Projects : Load(q)' = IF q = p THEN Load(q) - 1 ELSE Load(q)
    BY <1>24, LoadLost DEF RemoteLost
  <2>3. Alone'
    BY <1>c, <2>1 DEF Alone, Early
  <2>4. Carried'
    BY <1>c, <2>1, <2>2 DEF Carried
  <2>5. adv \in {"assess", "followup"} => advProj # p
    BY <1>c, <2>2 DEF Turn
  <2>6. Turn'
    BY <1>c, <2>1, <2>2, <2>5 DEF Turn
  <2>7. Written' /\ Last'
    BY <1>c, <2>1 DEF Written, Last
  <2> QED
    BY <1>c, <2>1, <2>3, <2>4, <2>6, <2>7 DEF CalmInv
<1>25. CASE UNCHANGED vars
  BY <1>25, <1>c DEF vars, CalmInv, Alone, Carried, Turn, Written, Last, Load, Early
<1> QED
  BY <1>1, <1>2, <1>3, <1>4, <1>5, <1>6, <1>8, <1>9, <1>10, <1>12, <1>13, <1>14, <1>15, <1>16,
     <1>17, <1>18, <1>19, <1>20, <1>21, <1>23, <1>24, <1>25, <1>c
     DEF Next, Handler, Advance, Companies, Environment

LEMMA CalmCorrect == Spec /\ Calm => []CalmInv
BY CalmInit, CalmStep, TypeCorrect, PTL DEF Spec

\* In a calm environment, when the rows say that the goal is over, they agree with the
\* memory: advanceFederatedGoal has written every status but that of running projects.
THEOREM RowsCorrect == Spec /\ Calm => []RowsSettle
<1>1. CalmInv => RowsSettle
  BY DEF CalmInv, Last, Written, RowsSettle, Settled
<1> QED
  BY <1>1, CalmCorrect, PTL

\* What the steps do to what has settled.
LEMMA CalmSettled ==
  ASSUME TypeOK, CalmInv, [Next]_vars
  PROVE  /\ \A p \in Projects : proj[p].status \in Settled => proj'[p].status = proj[p].status
         /\ goalRow \in {"completed", "failed"} => goalRow' = goalRow
<1> USE DEF reqVars, memVars, advVars, netVars, dbVars, history
<1> DEFINE Kept == \A p \in Projects : proj[p].status \in Settled => proj'[p].status = proj[p].status
           Final == goalRow \in {"completed", "failed"} => goalRow' = goalRow
<1>t. proj \in Rows
  BY DEF TypeOK, Rows
<1>c. ~Crash /\ ~Restart /\ "timeout" \notin DispatchOutcomes /\ "refused" \notin DispatchOutcomes
      /\ Alone /\ Carried /\ Turn /\ Last
  BY NoFaults DEF CalmInv, Calm
\* A project that changes has not settled.
<1>k. ASSUME NEW p \in Projects, proj[p].status \notin Settled,
             \A q \in Projects : q # p => proj'[q] = proj[q]
      PROVE  Kept
  BY <1>k
<1>1. CASE CreateGoal
  BY <1>1, <1>c DEF CreateGoal, Alone
<1>2. CASE PublishRun
  <2>1. \A p \in Projects : proj[p] = Fresh /\ proj'[p] = Fresh
    BY <1>2, <1>c DEF PublishRun, Alone, Early
  <2> QED
    BY <1>2, <2>1 DEF PublishRun
<1>3. ASSUME NEW p \in Projects, FirstAnswered(p) PROVE Kept /\ Final
  <2>1. proj[p].status \notin Settled
    BY <1>3, <1>c DEF FirstAnswered, Alone, Settled
  <2>2. \A q \in Projects : q # p => proj'[q] = proj[q]
    BY <1>3, <1>t DEF FirstAnswered, Mark, Rows
  <2> QED
    BY <1>3, <1>k, <2>1, <2>2 DEF FirstAnswered
<1>4. ASSUME NEW p \in Projects, NEW o \in Outcome, TakeCallback(p, o), UNCHANGED <<tasks, goalRow>>,
             \A q \in Projects : q # p => proj'[q] = proj[q]
      PROVE  Kept /\ Final
  <2>1. create = "done" /\ Load(p) > 0
    BY <1>4, Taken, AdvanceIsAfter, LoadTaken
  <2>2. proj[p].status = "Running"
    BY <1>c, <2>1 DEF Carried
  <2> QED
    BY <1>4, <1>k, <2>2 DEF Settled
<1>5. ASSUME NEW p \in Projects, ProjectFailed(p) PROVE Kept /\ Final
  BY <1>4, <1>5, <1>t DEF ProjectFailed, Rows, Outcome
<1>6. ASSUME NEW p \in Projects, ProjectCompleted(p) PROVE Kept /\ Final
  BY <1>4, <1>6, <1>t DEF ProjectCompleted, Rows, Outcome
<1>7. ASSUME NEW p \in Projects, CascadeFailure(p) PROVE Kept /\ Final
  <2>1. proj[p].status \notin Settled
    BY <1>7, <1>c DEF CascadeFailure, Turn, Settled
  <2> QED
    BY <1>7, <1>k, <1>t, <2>1 DEF CascadeFailure, Rows
<1>8. ASSUME NEW p \in Projects, NEW v \in Verdicts, RejectResult(p, v) \/ AcceptResult(p, v)
      PROVE  Kept /\ Final
  <2>1. proj[p].status \notin Settled
    BY <1>8, <1>c DEF RejectResult, AcceptResult, Turn, Settled
  <2> QED
    BY <1>8, <1>k, <1>t, <2>1 DEF RejectResult, AcceptResult, Rows
<1>9. ASSUME NEW p \in Projects, DispatchReady(p) PROVE Kept /\ Final
  <2>1. proj[p].status \notin Settled
    BY <1>9, <1>c DEF DispatchReady, Turn, Settled
  <2>2. \A q \in Projects : q # p => proj'[q] = proj[q]
    BY <1>9, <1>t DEF DispatchReady, Mark, Rows
  <2> QED
    BY <1>9, <1>k, <2>1, <2>2 DEF DispatchReady
<1>10. CASE RecordGoal
  BY <1>10, <1>c DEF RecordGoal, Last
<1>11. ASSUME NEW p \in Projects PROVE ~RefuseFirst(p) /\ ~FollowUpFails(p)
  BY <1>c DEF RefuseFirst, FollowUpFails
<1>12. CASE UNCHANGED <<proj, goalRow>>
  BY <1>12
<1>13. CASE \/ \E p \in Projects : \/ PersistProject(p) \/ SendFirst(p) \/ SendFollowUp(p)
                                  \/ RemoteLost(p)
            \/ \E p \in Projects, o \in Outcome : IgnoreCallback(p, o) \/ RemoteFinish(p, o)
            \/ ScanReady \/ LeaveOpen \/ CloseRun \/ UNCHANGED vars
  BY <1>12, <1>13 DEF PersistProject, SendFirst, SendFollowUp, RemoteLost, IgnoreCallback,
                      RemoteFinish, ScanReady, LeaveOpen, CloseRun, vars
<1> QED
  BY <1>1, <1>2, <1>3, <1>5, <1>6, <1>7, <1>8, <1>9, <1>10, <1>11, <1>13, <1>c
     DEF Next, Handler, Advance, Companies, Environment

\* In a calm environment a verdict is final: nothing arrives for a project that has
\* completed or failed, and nothing is done for a goal that has.
THEOREM SettledCorrect == Spec /\ Calm => SettledStaysSettled
<1>1. TypeOK /\ CalmInv /\ [Next]_vars =>
        [/\ \A p \in known : proj[p].status \in Settled /\ p \in known'
                               => proj'[p].status = proj[p].status
         /\ goalRow \in {"completed", "failed"} => goalRow' = goalRow]_vars
  BY CalmSettled DEF TypeOK
<1> QED
  BY <1>1, CalmCorrect, TypeCorrect, PTL DEF Spec, SettledStaysSettled
=============================================================================
