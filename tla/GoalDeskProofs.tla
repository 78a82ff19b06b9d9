--------------------------- MODULE GoalDeskProofs ---------------------------
(***************************************************************************)
(* Of GoalDesk, for any requests, plans, clocks and mishaps: no work is    *)
(* done twice and none is reported that was not done (WorkCorrect), the    *)
(* rows refer to rows (TreeCorrect), and the types (DeskTypeCorrect).  The *)
(* second rests on the IDs: no UUID is in two places.                      *)
(***************************************************************************)
EXTENDS GoalDesk, TLAPS

\* UPDATE and DELETE, as what they do to the keys and to the rows of a table.
LEMMA Update ==
  ASSUME NEW table, NEW k, NEW row
  PROVE  /\ DOMAIN Updated(table, k, row) = DOMAIN table
         /\ \A x \in DOMAIN table :
              Updated(table, k, row)[x] = IF x = k THEN row ELSE table[x]
  BY DEF Updated

LEMMA Deletion ==
  ASSUME NEW table, NEW k
  PROVE  /\ DOMAIN Deleted(table, k) = DOMAIN table \ {k}
         /\ \A x \in DOMAIN table \ {k} : Deleted(table, k)[x] = table[x]
  BY DEF Deleted, Restrict

-----------------------------------------------------------------------------
IsGoalRow(r) == r = [phase |-> r.phase, status |-> r.status]
IsTaskRow(r) == r = [goal |-> r.goal, project |-> r.project, issue |-> r.issue, status |-> r.status]

\* Rows, goroutines and the requests of Editors are records.
Shapes ==
  /\ \A g \in DOMAIN goalRows : IsGoalRow(goalRows[g])
  /\ \A t \in DOMAIN taskRows : IsTaskRow(taskRows[t])
  /\ \A w \in work : w = [task |-> w.task, kind |-> w.kind, goal |-> w.goal, at |-> w.at]
  /\ DOMAIN editor = Editors
  /\ \A e \in Editors : editor[e].at = "revise" => IsGoalRow(editor[e].row)

\* A goroutine has executed a task only once its row was there.
RowFirst ==
  /\ runs \in [Ticks -> {0, 1}]
  /\ \A t \in Ticks : runs[t] = 1 => t \in DOMAIN taskRows

\* A task of g was executed, and succeeded.
Ran(g) == \E t \in DOMAIN taskRows : taskRows[t].goal = g /\ t \in worked

\* What is in a row of goals, on its way there, or in the copy of one.
Honest ==
  /\ \A g \in DOMAIN goalRows : goalRows[g].status = "completed" => Ran(g)
  /\ \A w \in work :
       /\ w.task \in DOMAIN taskRows /\ taskRows[w.task].goal = w.goal
       /\ w.at \in {"read", "write"} => w.task \in worked
  /\ \A e \in Editors :
       editor[e].at = "revise" /\ editor[e].row.status = "completed" => Ran(editor[e].goal)

WorkInv == Shapes /\ RowFirst /\ Honest

\* Some requests of Editors are done.
EditsEnd ==
  DOMAIN editor' = DOMAIN editor /\ \A e \in Editors : editor'[e] \in {editor[e], NoEdit}

\* A step that changes goals, and may end goroutines and edits.
LEMMA GoalStep ==
  ASSUME WorkInv, UNCHANGED <<taskRows, runs, worked>>, work' \subseteq work, EditsEnd,
         \A g \in DOMAIN goalRows' :
           IsGoalRow(goalRows'[g]) /\ (goalRows'[g].status = "completed" => Ran(g))
  PROVE  WorkInv'
  <1>1. \A e \in Editors : editor'[e].at = "revise" => editor'[e] = editor[e]
    BY DEF EditsEnd, NoEdit
  <1>2. QED
    BY <1>1 DEF WorkInv, Shapes, RowFirst, Honest, Ran, IsTaskRow, IsGoalRow, EditsEnd

\* One that writes one row of a goal.
LEMMA GoalUpdate ==
  ASSUME WorkInv, UNCHANGED <<taskRows, runs, worked>>, work' \subseteq work, EditsEnd,
         NEW g, NEW row, IsGoalRow(row), row.status = "completed" => Ran(g),
         UpdateGoal(g, row)
  PROVE  WorkInv'
  <1>1. \A h \in DOMAIN goalRows :
          IsGoalRow(goalRows[h]) /\ (goalRows[h].status = "completed" => Ran(h))
    BY DEF WorkInv, Shapes, Honest
  <1>2. /\ DOMAIN goalRows' = DOMAIN goalRows
        /\ \A h \in DOMAIN goalRows : goalRows'[h] = IF h = g THEN row ELSE goalRows[h]
    BY Update DEF UpdateGoal
  <1>3. \A h \in DOMAIN goalRows' :
          IsGoalRow(goalRows'[h]) /\ (goalRows'[h].status = "completed" => Ran(h))
    BY <1>1, <1>2
  <1>4. QED  BY <1>3, GoalStep

\* One that creates a task and its goroutine, or does not.
LEMMA TaskStep ==
  ASSUME WorkInv, NEW c, NEW t, UNCHANGED <<goalRows, editor, worked>>,
         Dispatch(c, t) \/ NotDispatched(c, t)
  PROVE  WorkInv'
  <1> USE DEF WorkInv
  <1>1. CASE NotDispatched(c, t)
    BY <1>1 DEF NotDispatched, Shapes, RowFirst, Honest, Ran, IsTaskRow, IsGoalRow
  <1>2. CASE Dispatch(c, t)
    <2> DEFINE w == [task |-> t, kind |-> caller[c].kind, goal |-> caller[c].goal, at |-> "run"]
    <2>1. /\ t \notin DOMAIN taskRows /\ taskRows' = Inserted(taskRows, t, TaskRow(caller[c]))
          /\ work' = work \cup {w} /\ runs' = [runs EXCEPT ![t] = @ + 1]
      BY <1>2 DEF Dispatch, CreateTask
    <2>2. /\ DOMAIN taskRows' = DOMAIN taskRows \cup {t}
          /\ taskRows'[t] = TaskRow(caller[c])
          /\ \A x \in DOMAIN taskRows : taskRows'[x] = taskRows[x]
      <3> DEFINE row == TaskRow(caller[c])
      <3>1. t \notin DOMAIN taskRows /\ taskRows' = Inserted(taskRows, t, row)  BY <2>1
      <3> HIDE DEF row
      <3>2. /\ DOMAIN taskRows' = DOMAIN taskRows \cup {t}
            /\ taskRows'[t] = row
            /\ \A x \in DOMAIN taskRows : taskRows'[x] = taskRows[x]
        BY <3>1 DEF Inserted
      <3>3. QED  BY <3>2 DEF row
    <2>3. RowFirst'
      <3>1. \A x \in Ticks : runs'[x] = IF x = t THEN runs[t] + 1 ELSE runs[x]
        BY <2>1 DEF RowFirst
      <3>2. t \in Ticks => runs[t] = 0  BY <2>1 DEF RowFirst
      <3>3. \A x \in Ticks : runs'[x] \in {0, 1}  BY <3>1, <3>2 DEF RowFirst
      <3>4. QED  BY <2>1, <2>2, <3>1, <3>3 DEF RowFirst
    <2>4. \A g : Ran(g) => Ran(g)'  BY <2>2 DEF Ran
    <2>5. IsTaskRow(taskRows'[t]) /\ taskRows'[t].goal = w.goal
      BY <2>2 DEF TaskRow, IsTaskRow
    <2>6. Shapes'
      BY <2>1, <2>2, <2>5 DEF Shapes, IsTaskRow, IsGoalRow
    <2>7. Honest'
      BY <2>1, <2>2, <2>4, <2>5 DEF Honest
    <2>8. QED  BY <2>3, <2>6, <2>7
  <1>3. QED  BY <1>1, <1>2

\* ExecuteTask in the goroutine.
LEMMA ExecutionStep ==
  ASSUME WorkInv, NEW w \in work, Execute(w) PROVE WorkInv'
  <1>1. PICK s \in {"Completed", "Failed"} :
          /\ TaskEnds(w, s)
          /\ work' = (work \ {w}) \cup
               (IF w.kind = "create" /\ s = "Completed" THEN {[w EXCEPT !.at = "read"]} ELSE {})
    BY DEF Execute
  <1>2. w.task \in DOMAIN taskRows /\ taskRows[w.task].goal = w.goal
    BY DEF WorkInv, Honest
  <1>3. /\ DOMAIN taskRows' = DOMAIN taskRows
        /\ \A x \in DOMAIN taskRows :
             taskRows'[x] = taskRows[x]
               \/ (x = w.task /\ taskRows'[x] = [taskRows[w.task] EXCEPT !.status = s])
    <2>1. CASE UNCHANGED taskRows  BY <2>1
    <2>2. CASE UpdateTask(w.task, [taskRows[w.task] EXCEPT !.status = s])
      <3> DEFINE row == [taskRows[w.task] EXCEPT !.status = s]
      <3>1. taskRows' = Updated(taskRows, w.task, row)  BY <2>2 DEF UpdateTask
      <3> HIDE DEF row
      <3>2. /\ DOMAIN taskRows' = DOMAIN taskRows
            /\ \A x \in DOMAIN taskRows : taskRows'[x] = IF x = w.task THEN row ELSE taskRows[x]
        BY <3>1, Update
      <3>3. QED  BY <3>2 DEF row
    <2>3. QED  BY <1>1, <2>1, <2>2 DEF TaskEnds
  <1>4. \A x \in DOMAIN taskRows :
          IsTaskRow(taskRows'[x]) /\ taskRows'[x].goal = taskRows[x].goal
    BY <1>3 DEF WorkInv, Shapes, IsTaskRow
  <1>5. /\ worked' = IF s = "Completed" THEN worked \cup {w.task} ELSE worked
        /\ UNCHANGED <<goalRows, editor, runs>>
    BY <1>1 DEF TaskEnds
  <1>6. \A g : Ran(g) => Ran(g)'  BY <1>3, <1>4, <1>5 DEF Ran
  <1>7. RowFirst'  BY <1>3, <1>5 DEF WorkInv, RowFirst
  <1>8. \A v \in work' :
          /\ v = [task |-> v.task, kind |-> v.kind, goal |-> v.goal, at |-> v.at]
          /\ v \in work \/ (s = "Completed" /\ v.task = w.task /\ v.goal = w.goal)
    BY <1>1 DEF WorkInv, Shapes
  <1>9. Shapes'  BY <1>3, <1>4, <1>5, <1>8 DEF WorkInv, Shapes, IsGoalRow
  <1>10. \A v \in work' :
           /\ v.task \in DOMAIN taskRows' /\ taskRows'[v.task].goal = v.goal
           /\ v.at \in {"read", "write"} => v.task \in worked'
    BY <1>2, <1>3, <1>4, <1>5, <1>8 DEF WorkInv, Honest
  <1>11. Honest'  BY <1>5, <1>6, <1>10 DEF WorkInv, Honest
  <1>12. QED  BY <1>7, <1>9, <1>11 DEF WorkInv

\* The requests that run tasks.
LEMMA ServeStep == ASSUME WorkInv, NEW c \in Callers, Serve(c) PROVE WorkInv'
  <1>1. CASE NewGoal(c)
    <2>1. UNCHANGED <<taskRows, editor, runs, worked, work>>
      BY <1>1 DEF NewGoal, NoWork, Others
    <2>2. CASE CreateGoal(Uuid(c))
      <3>1. /\ DOMAIN goalRows' = DOMAIN goalRows \cup {Uuid(c)}
            /\ goalRows'[Uuid(c)] = [phase |-> "active", status |-> "active"]
            /\ \A g \in DOMAIN goalRows : goalRows'[g] = goalRows[g]
        BY <2>2 DEF CreateGoal, Inserted
      <3>2. \A g \in DOMAIN goalRows' :
              IsGoalRow(goalRows'[g]) /\ (goalRows'[g].status = "completed" => Ran(g))
        BY <3>1 DEF WorkInv, Shapes, Honest, IsGoalRow
      <3>3. QED  BY <2>1, <3>2, GoalStep DEF EditsEnd
    <2>3. CASE UNCHANGED goalRows
      <3>1. \A g \in DOMAIN goalRows' :
              IsGoalRow(goalRows'[g]) /\ (goalRows'[g].status = "completed" => Ran(g))
        BY <2>3 DEF WorkInv, Shapes, Honest
      <3>2. QED  BY <2>1, <3>1, GoalStep DEF EditsEnd
    <2>4. QED  BY <1>1, <2>2, <2>3 DEF NewGoal
  <1>2. CASE CreateGoalTask(c) \/ ApplyTask(c) \/ RunTaskCreate(c)
    BY <1>2, TaskStep DEF CreateGoalTask, ApplyTask, RunTaskCreate, Others
  <1>3. CASE CreateGoalFinish(c)
    <2>1. UNCHANGED <<taskRows, editor, runs, worked, work>>
      BY <1>3 DEF CreateGoalFinish, NoWork, Others
    <2>2. CASE UpdateGoal(caller[c].goal, [phase |-> "in_progress", status |-> "in_progress"])
      <3> DEFINE row == [phase |-> "in_progress", status |-> "in_progress"]
      <3>1. IsGoalRow(row) /\ row.status # "completed"  BY DEF IsGoalRow
      <3>2. UpdateGoal(caller[c].goal, row)  BY <2>2
      <3> HIDE DEF row
      <3>3. QED  BY <2>1, <3>1, <3>2, GoalUpdate DEF EditsEnd
    <2>3. CASE UNCHANGED goalRows
      BY <2>1, <2>3 DEF WorkInv, Shapes, RowFirst, Honest, Ran, IsTaskRow, IsGoalRow
    <2>4. QED  BY <1>3, <2>2, <2>3 DEF CreateGoalFinish
  <1>4. CASE \/ CreateGoalProject(c) \/ CreateGoalIssue(c) \/ ApplyProject(c) \/ ApplyIssue(c)
             \/ ApplySubIssue(c) \/ RunTask(c) \/ MakeSureOfAgent(c) \/ HangUp(c)
    <2>1. UNCHANGED <<goalRows, taskRows, editor, runs, worked, work>>
      BY <1>4 DEF CreateGoalProject, CreateGoalIssue, ApplyProject, ApplyIssue, ApplySubIssue,
                  RunTask, MakeSureOfAgent, HangUp, NoWork, Others, rows
    <2>2. QED  BY <2>1 DEF WorkInv, Shapes, RowFirst, Honest, Ran, IsTaskRow, IsGoalRow
  <1>5. QED  BY <1>1, <1>2, <1>3, <1>4 DEF Serve

\* What createGoal does with the result of its task.
LEMMA CompletionStep ==
  ASSUME WorkInv, NEW w \in work, ReadForCost(w) \/ WriteCompleted(w) PROVE WorkInv'
  <1>1. CASE ReadForCost(w)
    <2>1. UNCHANGED <<goalRows, taskRows, editor, runs, worked>>
      BY <1>1 DEF ReadForCost, rows
    <2>2. /\ w.at = "read"
          /\ \A v \in work' : v \in work \/ v = [w EXCEPT !.at = "write"]
      BY <1>1 DEF ReadForCost
    <2>3. \A v \in work' :
            /\ v = [task |-> v.task, kind |-> v.kind, goal |-> v.goal, at |-> v.at]
            /\ v.task \in DOMAIN taskRows /\ taskRows[v.task].goal = v.goal
            /\ v.at \in {"read", "write"} => v.task \in worked
      BY <2>2 DEF WorkInv, Shapes, Honest
    <2>4. QED
      BY <2>1, <2>3 DEF WorkInv, Shapes, RowFirst, Honest, Ran, IsTaskRow, IsGoalRow
  <1>2. CASE WriteCompleted(w)
    <2>1. UNCHANGED <<taskRows, editor, runs, worked>> /\ work' \subseteq work
      BY <1>2 DEF WriteCompleted
    <2>2. Ran(w.goal)  BY <1>2 DEF WriteCompleted, WorkInv, Honest, Ran
    <2>3. CASE UpdateGoal(w.goal, [phase |-> "completed", status |-> "completed"])
      <3> DEFINE row == [phase |-> "completed", status |-> "completed"]
      <3>1. IsGoalRow(row) /\ UpdateGoal(w.goal, row)  BY <2>3 DEF IsGoalRow
      <3> HIDE DEF row
      <3>2. QED  BY <2>1, <2>2, <3>1, GoalUpdate DEF EditsEnd
    <2>4. CASE UNCHANGED goalRows
      BY <2>1, <2>4 DEF WorkInv, Shapes, RowFirst, Honest, Ran, IsTaskRow, IsGoalRow
    <2>5. QED  BY <1>2, <2>3, <2>4 DEF WriteCompleted
  <1>3. QED  BY <1>1, <1>2

\* Approve and revise.
LEMMA EditStep ==
  ASSUME WorkInv, NEW e \in Editors, ReadForEdit(e) \/ WriteEdit(e) PROVE WorkInv'
  <1>1. CASE ReadForEdit(e)
    <2>1. UNCHANGED <<goalRows, taskRows, runs, worked, work>>
      BY <1>1 DEF ReadForEdit, rows
    <2>2. PICK g \in DOMAIN goalRows, edit \in {"approve", "revise"} :
            editor' = [editor EXCEPT ![e] = [at |-> edit, goal |-> g, row |-> goalRows[g]]]
      BY <1>1 DEF ReadForEdit
    <2>3. /\ DOMAIN editor' = Editors
          /\ \A d \in Editors : \/ editor'[d] = editor[d]
                                \/ editor'[d] = [at |-> edit, goal |-> g, row |-> goalRows[g]]
      BY <2>2 DEF WorkInv, Shapes
    <2>4. QED
      BY <2>1, <2>3 DEF WorkInv, Shapes, RowFirst, Honest, Ran, IsTaskRow, IsGoalRow
  <1>2. CASE WriteEdit(e)
    <2>1. UNCHANGED <<taskRows, runs, worked, work>> /\ EditsEnd
      BY <1>2 DEF WriteEdit, EditsEnd, WorkInv, Shapes
    <2>2. CASE UpdateGoal(editor[e].goal, [phase |-> "approved", status |-> "approved"])
      <3> DEFINE row == [phase |-> "approved", status |-> "approved"]
      <3>1. /\ IsGoalRow(row) /\ row.status # "completed"
            /\ UpdateGoal(editor[e].goal, row)
        BY <2>2 DEF IsGoalRow
      <3> HIDE DEF row
      <3>2. QED  BY <2>1, <3>1, GoalUpdate
    <2>3. CASE /\ editor[e].at = "revise"
               /\ UpdateGoal(editor[e].goal, [editor[e].row EXCEPT !.phase = "planned"])
      <3> DEFINE row == [editor[e].row EXCEPT !.phase = "planned"]
      <3>1. IsGoalRow(editor[e].row)  BY <2>3 DEF WorkInv, Shapes
      <3>2. IsGoalRow(row) /\ row.status = editor[e].row.status  BY <3>1 DEF IsGoalRow
      <3>3. row.status = "completed" => Ran(editor[e].goal)
        BY <2>3, <3>2 DEF WorkInv, Honest
      <3>4. UpdateGoal(editor[e].goal, row)  BY <2>3
      <3> HIDE DEF row
      <3>5. QED  BY <2>1, <3>2, <3>3, <3>4, GoalUpdate
    <2>4. QED  BY <1>2, <2>2, <2>3 DEF WriteEdit
  <1>3. QED  BY <1>1, <1>2

\* The other requests.
LEMMA OtherStep == ASSUME WorkInv, OtherRequest PROVE WorkInv'
  <1>1. CASE PutGoal
    <2>1. PICK g \in DOMAIN goalRows, s \in {"active", "in_progress"} :
            UpdateGoal(g, [phase |-> "", status |-> s])
      BY <1>1 DEF PutGoal
    <2>2. UNCHANGED <<taskRows, editor, runs, worked, work>>
      BY <1>1 DEF PutGoal, OtherRequestFrame
    <2> DEFINE row == [phase |-> "", status |-> s]
    <2>3. IsGoalRow(row) /\ row.status # "completed" /\ UpdateGoal(g, row)
      BY <2>1 DEF IsGoalRow
    <2> HIDE DEF row
    <2>4. QED  BY <2>2, <2>3, GoalUpdate DEF EditsEnd
  <1>2. CASE RemoveGoal
    <2>1. UNCHANGED <<taskRows, editor, runs, worked, work>>
      BY <1>2 DEF RemoveGoal, OtherRequestFrame
    <2>2. PICK g \in DOMAIN goalRows : goalRows' = Deleted(goalRows, g)
      BY <1>2 DEF RemoveGoal, DeleteGoal
    <2>3. \A h \in DOMAIN goalRows' : h \in DOMAIN goalRows /\ goalRows'[h] = goalRows[h]
      <3>1. /\ DOMAIN Deleted(goalRows, g) = DOMAIN goalRows \ {g}
            /\ \A h \in DOMAIN goalRows \ {g} : Deleted(goalRows, g)[h] = goalRows[h]
        BY Deletion
      <3>2. QED  BY <2>2, <3>1
    <2>4. \A h \in DOMAIN goalRows' :
            IsGoalRow(goalRows'[h]) /\ (goalRows'[h].status = "completed" => Ran(h))
      BY <2>3 DEF WorkInv, Shapes, Honest
    <2>5. QED  BY <2>1, <2>4, GoalStep DEF EditsEnd
  <1>3. CASE PostProject \/ RemoveProject \/ PostIssue \/ RemoveIssue \/ RemoveAgent
    <2>1. UNCHANGED <<goalRows, taskRows, editor, runs, worked, work>>
      BY <1>3 DEF PostProject, RemoveProject, PostIssue, RemoveIssue, RemoveAgent,
                  OtherRequestFrame
    <2>2. QED  BY <2>1 DEF WorkInv, Shapes, RowFirst, Honest, Ran, IsTaskRow, IsGoalRow
  <1>4. QED  BY <1>1, <1>2, <1>3 DEF OtherRequest

LEMMA WorkInvariant == DeskSpec => []WorkInv
  <1>1. DeskInit => WorkInv
    BY DEF DeskInit, StoreInit, Empty, WorkInv, Shapes, RowFirst, Honest, Ran
  <1>2. WorkInv /\ [DeskNext]_deskVars => WorkInv'
    <2> SUFFICES ASSUME WorkInv, [DeskNext]_deskVars PROVE WorkInv'  OBVIOUS
    <2>1. CASE \E c \in Callers : Serve(c)  BY <2>1, ServeStep
    <2>2. CASE \E w \in work : Execute(w) \/ ReadForCost(w) \/ WriteCompleted(w)
      BY <2>2, ExecutionStep, CompletionStep
    <2>3. CASE \E e \in Editors : ReadForEdit(e) \/ WriteEdit(e)  BY <2>3, EditStep
    <2>4. CASE OtherRequest  BY <2>4, OtherStep
    <2>5. CASE Crash
      <3>1. /\ UNCHANGED <<goalRows, taskRows, runs, worked>> /\ work' \subseteq work
            /\ DOMAIN editor' = Editors
            /\ \A e \in Editors : editor'[e] \in {editor[e], NoEdit}
        BY <2>5 DEF Crash, rows
      <3>2. \A g \in DOMAIN goalRows' :
              IsGoalRow(goalRows'[g]) /\ (goalRows'[g].status = "completed" => Ran(g))
        BY <3>1 DEF WorkInv, Shapes, Honest
      <3>3. QED  BY <3>1, <3>2, GoalStep DEF EditsEnd, WorkInv, Shapes
    <2>6. CASE Tick \/ UNCHANGED deskVars
      BY <2>6 DEF Tick, deskVars, rows, WorkInv, Shapes, RowFirst, Honest, Ran, IsTaskRow,
                  IsGoalRow
    <2>7. QED  BY <2>1, <2>2, <2>3, <2>4, <2>5, <2>6 DEF DeskNext
  <1>3. QED  BY <1>1, <1>2, PTL DEF DeskSpec

\* However requests, goroutines, mishaps and crashes interleave, a task is executed at most
\* once, and a goal is completed only by a task of its own that succeeded.
THEOREM WorkCorrect == DeskSpec => []WorkIsReal
  <1>1. WorkInv => TaskRunsOnce  BY DEF WorkInv, RowFirst, TaskRunsOnce
  <1>2. WorkInv => CompletedGoalRan  BY DEF WorkInv, Honest, Ran, CompletedGoalRan
  <1>3. WorkInv => WorkIsReal  BY <1>1, <1>2 DEF WorkIsReal
  <1>4. QED  BY <1>3, WorkInvariant, PTL

-----------------------------------------------------------------------------
Goals    == DOMAIN goalRows
Projects == DOMAIN projectRows
Issues   == DOMAIN issueRows
InUse    == Goals \cup Projects \cup Issues \cup lost

IsJob(j) ==
  j \in [at : {j.at}, kind : {j.kind}, gone : {j.gone}, made : {j.made}, goal : {j.goal},
         project : {j.project}, issue : {j.issue}, task : {j.task}, left : {j.left}]

\* What the IDs that a job has made refer to, as far as it has come.  POST /run makes none.
RefsIn(j, goals, projects, issues) ==
  /\ j.kind = "run" => j.issue = NoID
  /\ j.kind \in {"create", "apply"} =>
       /\ j.goal \in goals
       /\ j.at \notin {"project", "done"} => j.project \in projects
       /\ j.at \notin {"project", "issue", "done"} => j.issue \in issues
JobRefs(j)     == RefsIn(j, Goals \cup lost, Projects \cup lost, Issues \cup lost)
NextJobRefs(j) == RefsIn(j, Goals' \cup lost', Projects' \cup lost', Issues' \cup lost')

\* And what the row of a task refers to.
TaskRefs(r) ==
  r.issue # NoID =>
    r.issue \in Issues \cup lost /\ r.project \in Projects \cup lost /\ r.goal \in Goals \cup lost

Jobs ==
  /\ DOMAIN caller = Callers /\ mishaps \in Nat
  /\ \A c \in Callers :
       /\ IsJob(caller[c]) /\ caller[c].made \in Nat /\ JobRefs(caller[c])
       /\ caller[c].at = "new" => caller[c].made = 0

\* A UUID is in one place.
Apart ==
  /\ lost \cap (Goals \cup Projects \cup Issues) = {}
  /\ Goals \cap Projects = {} /\ Goals \cap Issues = {} /\ Projects \cap Issues = {}

\* A UUID that has not been made is in none.
Fresh ==
  /\ \A c \in Callers : caller[c].at # "done" =>
       \A n \in Nat : n > caller[c].made => <<c, n>> \notin InUse
  /\ \A n \in Nat : n >= mishaps => <<"post", n>> \notin InUse

Refs ==
  /\ \A p \in Projects : p[1] \in Callers => projectRows[p] \in Goals \cup lost
  /\ \A i \in Issues : i[1] \in Callers => issueRows[i] \in Projects \cup lost
  /\ \A t \in DOMAIN taskRows : IsTaskRow(taskRows[t]) /\ TaskRefs(taskRows[t])

TreeInv == Jobs /\ Apart /\ Fresh /\ Refs

\* mishaps, as every step leaves it.
MishapsGrow == mishaps' \in {mishaps, mishaps + 1}

\* A job goes on without a new ID.
JobStays(c) ==
  /\ IsJob(caller'[c]) /\ JobRefs(caller'[c])
  /\ \/ caller'[c] = [NoJob EXCEPT !.at = "done"]
     \/ caller'[c] = caller[c]
     \/ /\ caller[c].at # "done" /\ caller'[c].at # "new"
        /\ caller'[c].made = caller[c].made

TasksStay == \A t \in DOMAIN taskRows' : IsTaskRow(taskRows'[t]) /\ TaskRefs(taskRows'[t])

\* The job of a handler that has answered.
LEMMA DoneJob ==
  ASSUME NEW j, j = [NoJob EXCEPT !.at = "done"]
  PROVE  IsJob(j) /\ j.at = "done" /\ j.made = 0 /\ JobRefs(j) /\ NextJobRefs(j)
  <1>1. IsJob(j) /\ j.at = "done" /\ j.made = 0 /\ j.kind = "none"  BY DEF NoJob, IsJob
  <1>2. QED  BY <1>1 DEF JobRefs, NextJobRefs, RefsIn

\* A step that makes no ID and deletes no row.
LEMMA QuietStep ==
  ASSUME TreeInv, Goals' = Goals, UNCHANGED <<projectRows, issueRows, lost>>, MishapsGrow,
         DOMAIN caller' = Callers, \A c \in Callers : JobStays(c), TasksStay
  PROVE  TreeInv'
  <1> USE DEF TreeInv
  <1>1. Projects' = Projects /\ Issues' = Issues /\ InUse' = InUse  BY DEF Projects, Issues, InUse
  <1>2. ASSUME NEW c \in Callers
        PROVE  /\ IsJob(caller'[c]) /\ caller'[c].made \in Nat /\ JobRefs(caller'[c])
               /\ caller'[c].at = "new" => caller'[c].made = 0
               /\ caller'[c].at # "done" =>
                    caller[c].at # "done" /\ caller'[c].made = caller[c].made
    <2>1. CASE caller'[c] = [NoJob EXCEPT !.at = "done"]
      <3>1. caller'[c].at = "done" /\ caller'[c].made = 0  BY <2>1, DoneJob
      <3>2. QED  BY <3>1 DEF JobStays
    <2>2. CASE caller'[c] # [NoJob EXCEPT !.at = "done"]  BY <2>2 DEF JobStays, Jobs
    <2>3. QED  BY <2>1, <2>2
  <1>3. Jobs'
    <2>1. mishaps' \in Nat  BY DEF Jobs, MishapsGrow
    <2>2. \A c \in Callers : JobRefs(caller[c])'  BY <1>1, <1>2 DEF JobRefs, RefsIn
    <2>3. QED  BY <1>2, <2>1, <2>2 DEF Jobs, IsJob
  <1>4. Apart'  BY <1>1 DEF Apart
  <1>5. Fresh'
    <2>1. ASSUME NEW n \in Nat, n >= mishaps' PROVE n >= mishaps
      BY <2>1 DEF MishapsGrow, Jobs
    <2>2. QED  BY <1>1, <1>2, <2>1 DEF Fresh
  <1>6. Refs'
    <2>1. ASSUME NEW t \in DOMAIN taskRows' PROVE IsTaskRow(taskRows'[t]) /\ TaskRefs(taskRows[t])'
      BY <1>1 DEF TasksStay, TaskRefs
    <2>2. QED  BY <1>1, <2>1 DEF Refs, Projects, Issues, IsTaskRow
  <1>7. QED  BY <1>3, <1>4, <1>5, <1>6

\* x becomes the key of a row, or is lost at once, or forgotten.
Gains(x) ==
  \/ Goals' = Goals \cup {x} /\ UNCHANGED <<projectRows, issueRows, lost>>
  \/ /\ Projects' = Projects \cup {x} /\ Goals' = Goals /\ UNCHANGED <<issueRows, lost>>
     /\ x[1] \in Callers => projectRows'[x] \in Goals \cup lost
     /\ \A p \in Projects : projectRows'[p] = projectRows[p]
  \/ /\ Issues' = Issues \cup {x} /\ Goals' = Goals /\ UNCHANGED <<projectRows, lost>>
     /\ x[1] \in Callers => issueRows'[x] \in Projects \cup lost
     /\ \A i \in Issues : issueRows'[i] = issueRows[i]
  \/ Goals' = Goals /\ lost' \in {lost, lost \cup {x}} /\ UNCHANGED <<projectRows, issueRows>>

\* c has made x, and may refer to it from now on.
MakesID(c, x) ==
  /\ x = Uuid(c) /\ caller[c].at # "done"
  /\ IsJob(caller'[c]) /\ NextJobRefs(caller'[c])
  /\ \/ caller'[c] = [NoJob EXCEPT !.at = "done"]
     \/ caller'[c].at # "new" /\ caller'[c].made = caller[c].made + 1

\* A step that makes an ID.
LEMMA GainStep ==
  ASSUME TreeInv, NEW x, x \notin InUse, Gains(x), MishapsGrow, UNCHANGED taskRows,
         DOMAIN caller' = Callers,
         \A c \in Callers :
           MakesID(c, x) \/ (JobStays(c) /\ \A n \in Nat : x # <<c, n>>),
         \A n \in Nat : n >= mishaps' => x # <<"post", n>>
  PROVE  TreeInv'
  <1> USE DEF TreeInv
  <1>1. /\ Goals \cup lost \subseteq Goals' \cup lost'
        /\ Projects \cup lost \subseteq Projects' \cup lost'
        /\ Issues \cup lost \subseteq Issues' \cup lost'
        /\ InUse' \subseteq InUse \cup {x}
    BY DEF Gains, Projects, Issues, InUse
  <1>2. Jobs'
    <2>1. mishaps' \in Nat  BY DEF Jobs, MishapsGrow
    <2>2. ASSUME NEW c \in Callers
          PROVE  /\ IsJob(caller'[c]) /\ caller'[c].made \in Nat /\ JobRefs(caller[c])'
                 /\ caller'[c].at = "new" => caller'[c].made = 0
      <3>1. IsJob(caller'[c])  BY DEF MakesID, JobStays
      <3>2. JobRefs(caller[c])'
        <4>1. CASE NextJobRefs(caller'[c])  BY <4>1 DEF NextJobRefs, JobRefs
        <4>2. CASE JobRefs(caller'[c])  BY <1>1, <4>2 DEF JobRefs, RefsIn
        <4>3. QED  BY <4>1, <4>2 DEF MakesID, JobStays
      <3>3. caller'[c].made \in Nat /\ (caller'[c].at = "new" => caller'[c].made = 0)
        <4>1. CASE caller'[c] = [NoJob EXCEPT !.at = "done"]
          <5>1. caller'[c].made = 0  BY <4>1, DoneJob
          <5>2. QED  BY <5>1
        <4>2. CASE caller'[c] # [NoJob EXCEPT !.at = "done"]
          BY <4>2 DEF MakesID, JobStays, Jobs
        <4>3. QED  BY <4>1, <4>2
      <3>4. QED  BY <3>1, <3>2, <3>3
    <2>3. QED  BY <2>1, <2>2 DEF Jobs, IsJob
  <1>3. Apart'  BY DEF Gains, Apart, Projects, Issues, InUse
  <1>4. Fresh'
    <2>1. ASSUME NEW c \in Callers, caller'[c].at # "done", NEW n \in Nat, n > caller'[c].made
          PROVE  <<c, n>> \notin InUse'
      <3>1. CASE MakesID(c, x)
        <4>1. caller'[c].made = caller[c].made + 1 /\ caller[c].at # "done"
          BY <2>1, <3>1 DEF MakesID, NoJob
        <4>2. caller[c].made \in Nat  BY DEF Jobs
        <4>3. n > caller[c].made /\ n # caller[c].made + 1  BY <2>1, <4>1, <4>2
        <4>4. <<c, n>> \notin InUse /\ <<c, n>> # Uuid(c)  BY <4>1, <4>3 DEF Fresh, Uuid
        <4>5. QED  BY <1>1, <3>1, <4>4 DEF MakesID
      <3>2. CASE JobStays(c) /\ x # <<c, n>>
        <4>1. caller[c].at # "done" /\ caller'[c].made = caller[c].made
          BY <2>1, <3>2 DEF JobStays, NoJob
        <4>2. QED  BY <1>1, <2>1, <3>2, <4>1 DEF Fresh
      <3>3. QED  BY <3>1, <3>2
    <2>2. ASSUME NEW n \in Nat, n >= mishaps' PROVE <<"post", n>> \notin InUse'
      <3>1. n >= mishaps  BY <2>2 DEF MishapsGrow, Jobs
      <3>2. QED  BY <1>1, <2>2, <3>1 DEF Fresh
    <2>3. QED  BY <2>1, <2>2 DEF Fresh
  <1>5. Refs'
    <2>1. \A p \in Projects' : p[1] \in Callers => projectRows'[p] \in Goals' \cup lost'
      BY <1>1 DEF Gains, Refs, Projects
    <2>2. \A i \in Issues' : i[1] \in Callers => issueRows'[i] \in Projects' \cup lost'
      BY <1>1 DEF Gains, Refs, Issues
    <2>3. \A t \in DOMAIN taskRows' : IsTaskRow(taskRows'[t]) /\ TaskRefs(taskRows[t])'
      BY <1>1 DEF Refs, TaskRefs
    <2>4. QED  BY <2>1, <2>2, <2>3 DEF Refs, IsTaskRow
  <1>6. QED  BY <1>2, <1>3, <1>4, <1>5

\* A step that deletes a row.
LEMMA LossStep ==
  ASSUME TreeInv, NEW x, UNCHANGED <<taskRows, caller>>, MishapsGrow, lost' = lost \cup {x},
         \/ x \in Goals /\ Goals' = Goals \ {x} /\ UNCHANGED <<projectRows, issueRows>>
         \/ /\ x \in Projects /\ projectRows' = Deleted(projectRows, x)
            /\ UNCHANGED <<goalRows, issueRows>>
         \/ /\ x \in Issues /\ issueRows' = Deleted(issueRows, x)
            /\ UNCHANGED <<goalRows, projectRows>>
  PROVE  TreeInv'
  <1> USE DEF TreeInv
  <1>1. /\ Projects' \subseteq Projects /\ \A p \in Projects' : projectRows'[p] = projectRows[p]
        /\ Issues' \subseteq Issues /\ \A i \in Issues' : issueRows'[i] = issueRows[i]
    BY DEF Projects, Issues, Deleted, Restrict
  <1>2. /\ Goals \cup lost \subseteq Goals' \cup lost'
        /\ Projects \cup lost \subseteq Projects' \cup lost'
        /\ Issues \cup lost \subseteq Issues' \cup lost'
        /\ InUse' = InUse
    BY DEF Goals, Projects, Issues, InUse, Deleted, Restrict
  <1>3. Jobs'  BY <1>2 DEF Jobs, MishapsGrow, JobRefs, RefsIn, IsJob
  <1>4. Apart'  BY DEF Apart, Goals, Projects, Issues, Deleted, Restrict
  <1>5. Fresh'  BY <1>2 DEF Fresh, MishapsGrow, Jobs
  <1>6. Refs'
    <2>1. \A t \in DOMAIN taskRows' : IsTaskRow(taskRows'[t]) /\ TaskRefs(taskRows[t])'
      BY <1>2 DEF Refs, TaskRefs
    <2>2. QED  BY <1>1, <1>2, <2>1 DEF Refs, IsTaskRow
  <1>7. QED  BY <1>3, <1>4, <1>5, <1>6

\* A handler goes on without a new ID ...
LEMMA GoesOn ==
  ASSUME TreeInv, NEW c \in Callers, caller[c].at # "done", NEW job, Goes(c, job),
         IsJob(job), job.at # "new", job.made = caller[c].made, JobRefs(job)
  PROVE  DOMAIN caller' = Callers /\ \A d \in Callers : JobStays(d)
  <1>1. /\ DOMAIN caller = Callers
        /\ \A d \in Callers : IsJob(caller[d]) /\ JobRefs(caller[d])
    BY DEF TreeInv, Jobs
  <1>2. /\ DOMAIN caller' = Callers
        /\ \A d \in Callers : d # c => caller'[d] = caller[d]
        /\ caller'[c] = IF job.at = "done" THEN [NoJob EXCEPT !.at = "done"] ELSE job
    BY <1>1 DEF Goes
  <1>3. JobStays(c)
    <2>1. CASE job.at = "done"  BY <1>2, <2>1, DoneJob DEF JobStays
    <2>2. CASE job.at # "done"  BY <1>2, <2>2 DEF JobStays
    <2>3. QED  BY <2>1, <2>2
  <1>4. \A d \in Callers : d # c => JobStays(d)  BY <1>1, <1>2 DEF JobStays
  <1>5. QED  BY <1>2, <1>3, <1>4

\* ... or with one, which no one has.
LEMMA GoesOnWith ==
  ASSUME TreeInv, NEW c \in Callers, caller[c].at # "done", NEW job, Goes(c, job),
         IsJob(job), job.at # "new", job.made = caller[c].made + 1, NextJobRefs(job)
  PROVE  /\ DOMAIN caller' = Callers
         /\ \A d \in Callers :
              MakesID(d, Uuid(c)) \/ (JobStays(d) /\ \A n \in Nat : Uuid(c) # <<d, n>>)
  <1>1. /\ DOMAIN caller = Callers
        /\ \A d \in Callers : IsJob(caller[d]) /\ JobRefs(caller[d])
    BY DEF TreeInv, Jobs
  <1>2. /\ DOMAIN caller' = Callers
        /\ \A d \in Callers : d # c => caller'[d] = caller[d]
        /\ caller'[c] = IF job.at = "done" THEN [NoJob EXCEPT !.at = "done"] ELSE job
    BY <1>1 DEF Goes
  <1>3. MakesID(c, Uuid(c))
    <2>1. CASE job.at = "done"  BY <1>2, <2>1, DoneJob DEF MakesID
    <2>2. CASE job.at # "done"  BY <1>2, <2>2 DEF MakesID
    <2>3. QED  BY <2>1, <2>2
  <1>4. \A d \in Callers : d # c => JobStays(d) /\ \A n \in Nat : Uuid(c) # <<d, n>>
    BY <1>1, <1>2 DEF JobStays, Uuid
  <1>5. QED  BY <1>2, <1>3, <1>4

LEMMA NewUuid ==
  ASSUME TreeInv, NEW c \in Callers, caller[c].at # "done"
  PROVE  Uuid(c) \notin InUse /\ \A n \in Nat : Uuid(c) # <<"post", n>>
  <1>1. caller[c].made \in Nat  BY DEF TreeInv, Jobs
  <1>2. caller[c].made + 1 \in Nat /\ caller[c].made + 1 > caller[c].made  BY <1>1
  <1>3. QED  BY <1>2, DeskAssumption DEF TreeInv, Fresh, Uuid

\* The rest of the plan: the project that it goes on with is there, unless it has it yet to create.
LEMMA PlanJobs ==
  ASSUME NEW job, IsJob(job), job.kind = "apply", NEW next \in {AfterProject(job), AfterTask(job)},
         NEW goals, NEW projects, NEW issues, job.goal \in goals,
         next = AfterProject(job) \/ job.project \in projects
  PROVE  /\ IsJob(next) /\ next.at # "new" /\ next.made = job.made
         /\ RefsIn(next, goals, projects, issues)
  <1>1. CASE next = AfterProject(job)
    <2>1. /\ IsJob(next) /\ next.at \in {"project", "done"} /\ next.made = job.made
          /\ next.kind = job.kind /\ next.goal = job.goal
      BY <1>1 DEF AfterProject, IsJob
    <2>2. QED  BY <2>1 DEF RefsIn
  <1>2. CASE job.project \in projects /\ next = AfterTask(job) /\ Head(job.left) > 1
    <2>1. /\ IsJob(next) /\ next.at = "issue" /\ next.made = job.made
          /\ next.kind = job.kind /\ next.goal = job.goal /\ next.project = job.project
      BY <1>2 DEF AfterTask, IsJob
    <2>2. QED  BY <1>2, <2>1 DEF RefsIn
  <1>3. CASE next = AfterTask(job) /\ ~(Head(job.left) > 1)  BY <1>1, <1>3 DEF AfterTask
  <1>4. QED  BY <1>1, <1>2, <1>3

\* Statements and mishaps.
LEMMA Statement ==
  ASSUME TreeInv, NEW c, Runs(c) \/ Fails(c) PROVE MishapsGrow
  BY DEF Runs, Fails, Mishap, MishapsGrow

\* A handler moves on.
LEMMA MovesOn ==
  ASSUME TreeInv, NEW c \in Callers, NEW l, l # "new", caller[c].at # "done", Moves(c, l),
         l = "done" \/ caller[c].at \notin {"project", "issue"}
  PROVE  DOMAIN caller' = Callers /\ \A d \in Callers : JobStays(d)
  <1> DEFINE job == [caller[c] EXCEPT !.at = l]
  <1>1. IsJob(caller[c]) /\ JobRefs(caller[c])  BY DEF TreeInv, Jobs
  <1>2. /\ IsJob(job) /\ job.at = l /\ job.made = caller[c].made /\ job.kind = caller[c].kind
        /\ job.goal = caller[c].goal /\ job.project = caller[c].project
        /\ job.issue = caller[c].issue
    BY <1>1 DEF IsJob
  <1>3. Goes(c, job)  BY DEF Moves
  <1> HIDE DEF job
  <1>4. JobRefs(job)  BY <1>1, <1>2 DEF JobRefs, RefsIn
  <1>5. QED  BY <1>2, <1>3, <1>4, GoesOn

\* The rows of tasks, when one is inserted.
LEMMA TasksInserted ==
  ASSUME TreeInv, NEW c \in Callers, caller[c].kind \in {"create", "apply", "run"},
         caller[c].at = "task", NEW k, Dispatch(c, k) \/ NotDispatched(c, k)
  PROVE  TasksStay /\ MishapsGrow
  <1>0. /\ \A x \in DOMAIN taskRows : IsTaskRow(taskRows[x]) /\ TaskRefs(taskRows[x])
        /\ JobRefs(caller[c])
    BY DEF TreeInv, Jobs, Refs
  <1>1. MishapsGrow
    BY Statement DEF Dispatch, NotDispatched
  <1>2. CASE NotDispatched(c, k)
    <2>1. UNCHANGED taskRows  BY <1>2 DEF NotDispatched
    <2>2. QED  BY <1>0, <1>1, <2>1 DEF TasksStay
  <1>3. CASE Dispatch(c, k)
    <2>1. /\ DOMAIN taskRows' = DOMAIN taskRows \cup {k}
          /\ taskRows'[k] = TaskRow(caller[c])
          /\ \A x \in DOMAIN taskRows : taskRows'[x] = taskRows[x]
      <3> DEFINE row == TaskRow(caller[c])
      <3>1. k \notin DOMAIN taskRows /\ taskRows' = Inserted(taskRows, k, row)
        BY <1>3 DEF Dispatch, CreateTask
      <3> HIDE DEF row
      <3>2. /\ DOMAIN taskRows' = DOMAIN taskRows \cup {k}
            /\ taskRows'[k] = row
            /\ \A x \in DOMAIN taskRows : taskRows'[x] = taskRows[x]
        BY <3>1 DEF Inserted
      <3>3. QED  BY <3>2 DEF row
    <2>2. /\ IsTaskRow(taskRows'[k]) /\ taskRows'[k].issue = caller[c].issue
          /\ taskRows'[k].project = caller[c].project /\ taskRows'[k].goal = caller[c].goal
      BY <2>1 DEF TaskRow, IsTaskRow
    <2>3. TaskRefs(taskRows'[k])  BY <1>0, <2>2 DEF TaskRefs, JobRefs, RefsIn
    <2>4. \A x \in DOMAIN taskRows' :
            x = k \/ (x \in DOMAIN taskRows /\ taskRows'[x] = taskRows[x])
      BY <2>1
    <2>5. QED  BY <1>0, <1>1, <2>2, <2>3, <2>4 DEF TasksStay
  <1>4. QED  BY <1>1, <1>2, <1>3

\* What a table looks like when a key is inserted that it did not have.
LEMMA ProjectInserted ==
  ASSUME NEW x, NEW goal, CreateProject(x, goal)
  PROVE  /\ Projects' = Projects \cup {x} /\ projectRows'[x] = goal
         /\ \A p \in Projects : projectRows'[p] = projectRows[p]
  BY DEF CreateProject, Inserted, Projects

LEMMA IssueInserted ==
  ASSUME NEW x, NEW project, CreateIssue(x, project)
  PROVE  /\ Issues' = Issues \cup {x} /\ issueRows'[x] = project
         /\ \A i \in Issues : issueRows'[i] = issueRows[i]
  BY DEF CreateIssue, Inserted, Issues

\* The job of a client that has hung up, and that of POST /run.
LEMMA HungUp == ASSUME NEW j, IsJob(j), NEW b PROVE IsJob([j EXCEPT !.gone = b])
  BY DEF IsJob

LEMMA RunJob ==
  ASSUME NEW j, NEW t, NEW g, NEW p,
         j = [NoJob EXCEPT !.at = "agent", !.kind = "run", !.task = t, !.goal = g, !.project = p]
  PROVE  /\ IsJob(j) /\ j.at = "agent" /\ j.kind = "run" /\ j.task = t /\ j.made = 0
         /\ JobRefs(j)
  <1>1. /\ IsJob(j) /\ j.at = "agent" /\ j.kind = "run" /\ j.task = t /\ j.made = 0
        /\ j.issue = NoID
    BY DEF NoJob, IsJob
  <1>2. QED  BY <1>1 DEF JobRefs, RefsIn

\* The handlers that make no ID, or fail to.
LEMMA ServeWithoutID ==
  ASSUME TreeInv, NEW c \in Callers,
         \/ CreateGoalTask(c) \/ CreateGoalFinish(c) \/ ApplyTask(c) \/ RunTask(c)
         \/ RunTaskCreate(c) \/ MakeSureOfAgent(c) \/ HangUp(c)
  PROVE  TreeInv'
  <1> USE DEF At
  <1>0. /\ IsJob(caller[c]) /\ JobRefs(caller[c])
        /\ \A t \in DOMAIN taskRows : IsTaskRow(taskRows[t]) /\ TaskRefs(taskRows[t])
    BY DEF TreeInv, Jobs, Refs
  <1>1. UNCHANGED <<projectRows, issueRows, lost>>
    BY DEF CreateGoalTask, CreateGoalFinish, ApplyTask, RunTask, RunTaskCreate,
           MakeSureOfAgent, HangUp, rows
  <1>2. Goals' = Goals
    <2>1. UNCHANGED goalRows \/ \E g, row : goalRows' = Updated(goalRows, g, row)
      BY DEF CreateGoalTask, CreateGoalFinish, ApplyTask, RunTask, RunTaskCreate,
             MakeSureOfAgent, HangUp, rows, UpdateGoal
    <2>2. QED  BY <2>1, Update DEF Goals
  <1>3. CASE CreateGoalTask(c) \/ RunTaskCreate(c)
    <2>1. TasksStay /\ MishapsGrow
      BY <1>3, TasksInserted DEF CreateGoalTask, RunTaskCreate
    <2>2. DOMAIN caller' = Callers /\ \A d \in Callers : JobStays(d)
      BY <1>3, MovesOn DEF CreateGoalTask, RunTaskCreate
    <2>3. QED  BY <1>1, <1>2, <2>1, <2>2, QuietStep
  <1>4. CASE CreateGoalFinish(c) \/ MakeSureOfAgent(c)
    <2>1. TasksStay  BY <1>0, <1>4 DEF CreateGoalFinish, MakeSureOfAgent, NoWork, TasksStay
    <2>2. MishapsGrow
      BY <1>4, Statement DEF CreateGoalFinish, MakeSureOfAgent, EnsureAgent
    <2>3. DOMAIN caller' = Callers /\ \A d \in Callers : JobStays(d)
      BY <1>4, MovesOn DEF CreateGoalFinish, MakeSureOfAgent
    <2>4. QED  BY <1>1, <1>2, <2>1, <2>2, <2>3, QuietStep
  <1>5. CASE ApplyTask(c)
    <2>1. TasksStay /\ MishapsGrow  BY <1>5, TasksInserted DEF ApplyTask
    <2> DEFINE next == AfterTask(caller[c])
    <2> DEFINE job  == [next EXCEPT !.task = now]
    <2>2. Goes(c, job) /\ caller[c].at = "task" /\ caller[c].kind = "apply"
      BY <1>5 DEF ApplyTask
    <2>3. IsJob(next) /\ next.at # "new" /\ next.made = caller[c].made /\ JobRefs(next)
      BY <1>0, <2>2, PlanJobs DEF JobRefs, RefsIn
    <2> HIDE DEF next
    <2>4. /\ IsJob(job) /\ job.at = next.at /\ job.made = next.made /\ job.kind = next.kind
          /\ job.goal = next.goal /\ job.project = next.project /\ job.issue = next.issue
      BY <2>3 DEF IsJob
    <2> HIDE DEF job
    <2>5. JobRefs(job)  BY <2>3, <2>4 DEF JobRefs, RefsIn
    <2>6. DOMAIN caller' = Callers /\ \A d \in Callers : JobStays(d)
      BY <2>2, <2>3, <2>4, <2>5, GoesOn
    <2>7. QED  BY <1>1, <1>2, <2>1, <2>6, QuietStep
  <1>6. CASE RunTask(c)
    <2>1. TasksStay /\ MishapsGrow
      BY <1>0, <1>6 DEF RunTask, NoWork, TasksStay, MishapsGrow
    <2>2. PICK g \in Named(DOMAIN goalRows), p \in Named(DOMAIN projectRows) :
            Goes(c, [NoJob EXCEPT !.at = "agent", !.kind = "run", !.task = now, !.goal = g,
                                  !.project = p])
      BY <1>6 DEF RunTask
    <2>3. caller[c].at = "new" /\ caller[c].made = 0  BY <1>6 DEF RunTask, TreeInv, Jobs
    <2> DEFINE job == [NoJob EXCEPT !.at = "agent", !.kind = "run", !.task = now, !.goal = g,
                                    !.project = p]
    <2>4. IsJob(job) /\ job.at = "agent" /\ job.made = 0 /\ JobRefs(job)  BY RunJob
    <2>5. Goes(c, job)  BY <2>2
    <2> HIDE DEF job
    <2>6. DOMAIN caller' = Callers /\ \A d \in Callers : JobStays(d)
      BY <2>3, <2>4, <2>5, GoesOn
    <2>7. QED  BY <1>1, <1>2, <2>1, <2>6, QuietStep
  <1>7. CASE HangUp(c)
    <2>1. TasksStay /\ MishapsGrow
      BY <1>0, <1>7 DEF HangUp, rows, TasksStay, Mishap, MishapsGrow
    <2> DEFINE job == [caller[c] EXCEPT !.gone = TRUE]
    <2>2. Goes(c, job) /\ caller[c].at \notin {"new", "done"}  BY <1>7 DEF HangUp
    <2>3. IsJob(job) /\ job.at # "new" /\ job.made = caller[c].made /\ JobRefs(job)
      <3>1. IsJob(job)  BY <1>0, HungUp
      <3>2. /\ job.at = caller[c].at /\ job.made = caller[c].made /\ job.kind = caller[c].kind
            /\ job.goal = caller[c].goal /\ job.project = caller[c].project
            /\ job.issue = caller[c].issue
        BY <1>0 DEF IsJob
      <3>3. caller[c].at # "new"  BY <2>2
      <3> HIDE DEF job
      <3>4. QED  BY <1>0, <3>1, <3>2, <3>3 DEF JobRefs, RefsIn
    <2> HIDE DEF job
    <2>4. DOMAIN caller' = Callers /\ \A d \in Callers : JobStays(d)  BY <2>2, <2>3, GoesOn
    <2>5. QED  BY <1>1, <1>2, <2>1, <2>4, QuietStep
  <1>8. QED  BY <1>3, <1>4, <1>5, <1>6, <1>7

\* What the rows of tasks and the other tables keep when a handler makes an ID.
LEMMA MadeStep ==
  ASSUME TreeInv, NEW c \in Callers, caller[c].at # "done", NEW job, Goes(c, job),
         IsJob(job), job.at # "new", job.made = caller[c].made + 1, NextJobRefs(job),
         Gains(Uuid(c)), MishapsGrow, UNCHANGED taskRows
  PROVE  TreeInv'
  <1>1. /\ DOMAIN caller' = Callers
        /\ \A d \in Callers :
             MakesID(d, Uuid(c)) \/ (JobStays(d) /\ \A n \in Nat : Uuid(c) # <<d, n>>)
    BY GoesOnWith
  <1>2. Uuid(c) \notin InUse /\ \A n \in Nat : Uuid(c) # <<"post", n>>  BY NewUuid
  <1> DEFINE x == Uuid(c)
  <1>3. /\ x \notin InUse /\ Gains(x) /\ (\A n \in Nat : n >= mishaps' => x # <<"post", n>>)
        /\ \A d \in Callers : MakesID(d, x) \/ (JobStays(d) /\ \A n \in Nat : x # <<d, n>>)
    BY <1>1, <1>2
  <1> HIDE DEF x
  <1>4. QED  BY <1>1, <1>3, GainStep

\* A handler whose statement failed goes on without a new ID.
LEMMA FailedStep ==
  ASSUME TreeInv, NEW c \in Callers, caller[c].at # "done", NEW job, Goes(c, job),
         IsJob(job), job.at # "new", job.made = caller[c].made, JobRefs(job),
         UNCHANGED <<goalRows, projectRows, issueRows, lost, taskRows>>, MishapsGrow
  PROVE  TreeInv'
  <1>1. DOMAIN caller' = Callers /\ \A d \in Callers : JobStays(d)  BY GoesOn
  <1>2. TasksStay  BY DEF TasksStay, TreeInv, Refs
  <1>3. QED  BY <1>1, <1>2, QuietStep DEF Goals

\* POST /goals and POST /apply begin.
LEMMA NewGoalStep == ASSUME TreeInv, NEW c \in Callers, NewGoal(c) PROVE TreeInv'
  <1>1. /\ caller[c].at = "new" /\ caller[c].made = 0 /\ IsJob(caller[c]) /\ MishapsGrow
        /\ UNCHANGED <<projectRows, issueRows, lost, taskRows>>
    BY Statement DEF NewGoal, NoWork, TreeInv, Jobs
  <1>2. CASE Fails(c) /\ UNCHANGED goalRows /\ Moves(c, "done")
    <2>1. DOMAIN caller' = Callers /\ \A d \in Callers : JobStays(d)  BY <1>1, <1>2, MovesOn
    <2>2. TasksStay  BY <1>1 DEF TasksStay, TreeInv, Refs
    <2>3. QED  BY <1>1, <1>2, <2>1, <2>2, QuietStep DEF Goals
  <1>3. ASSUME CreateGoal(Uuid(c)), NEW kind, kind # "run",
               Goes(c, [NoJob EXCEPT !.at = IF kind = "plain" \/ (kind = "apply" /\ Plan = <<>>)
                                              THEN "done" ELSE "project",
                                     !.kind = kind, !.goal = Uuid(c), !.made = 1,
                                     !.left = IF kind = "apply" THEN Plan ELSE <<>>])
        PROVE  TreeInv'
    <2>1. Goals' = Goals \cup {Uuid(c)}  BY <1>3 DEF CreateGoal, Inserted, Goals
    <2>2. Gains(Uuid(c))  BY <1>1, <2>1 DEF Gains
    <2> DEFINE l    == IF kind = "plain" \/ (kind = "apply" /\ Plan = <<>>) THEN "done" ELSE "project"
    <2> DEFINE left == IF kind = "apply" THEN Plan ELSE <<>>
    <2> DEFINE job  == [NoJob EXCEPT !.at = l, !.kind = kind, !.goal = Uuid(c), !.made = 1,
                                     !.left = left]
    <2>3. Goes(c, job) /\ l \in {"project", "done"}  BY <1>3
    <2> HIDE DEF l, left
    <2>4. /\ IsJob(job) /\ job.at = l /\ job.made = 1 /\ job.goal = Uuid(c)
          /\ job.kind = kind
      <3>1. job = [NoJob EXCEPT !.at = l, !.kind = kind, !.goal = Uuid(c), !.made = 1,
                                !.left = left]
        OBVIOUS
      <3> HIDE DEF job
      <3>2. QED  BY <3>1 DEF NoJob, IsJob
    <2> HIDE DEF job
    <2>5. NextJobRefs(job)  BY <1>3, <2>1, <2>3, <2>4 DEF NextJobRefs, RefsIn
    <2>6. QED  BY <1>1, <2>2, <2>3, <2>4, <2>5, MadeStep
  <1>4. QED  BY <1>2, <1>3 DEF NewGoal

\* What is there, or lost, remains so.
LEMMA LostStays ==
  ASSUME NEW x, Gains(x)
  PROVE  /\ Goals \cup lost \subseteq Goals' \cup lost'
         /\ Projects \cup lost \subseteq Projects' \cup lost'
         /\ Issues \cup lost \subseteq Issues' \cup lost'
  BY DEF Gains, Projects, Issues

\* createGoal.
LEMMA CreateGoalStep ==
  ASSUME TreeInv, NEW c \in Callers, CreateGoalProject(c) \/ CreateGoalIssue(c)
  PROVE  TreeInv'
  <1>1. IsJob(caller[c]) /\ JobRefs(caller[c])  BY DEF TreeInv, Jobs
  <1>2. MishapsGrow /\ UNCHANGED <<goalRows, taskRows>>
    BY Statement DEF CreateGoalProject, CreateGoalIssue, NoWork
  <1> DEFINE x == Uuid(c)
  <1>3. CASE CreateGoalProject(c)
    <2> DEFINE job == [caller[c] EXCEPT !.at = "issue", !.project = x, !.made = @ + 1]
    <2>1. Goes(c, job) /\ caller[c].at = "project" /\ caller[c].kind = "create"
      BY <1>3 DEF CreateGoalProject, At
    <2>2. x \in Projects' \cup lost' /\ Gains(x)
      <3>1. CASE CreateProject(x, caller[c].goal) /\ UNCHANGED lost
        BY <1>1, <1>2, <1>3, <2>1, <3>1, ProjectInserted
           DEF CreateGoalProject, Gains, Goals, JobRefs, RefsIn
      <3>2. CASE UNCHANGED projectRows /\ lost' = lost \cup {x}
        BY <1>2, <1>3, <3>2 DEF CreateGoalProject, Gains, Goals
      <3>3. QED  BY <1>3, <3>1, <3>2 DEF CreateGoalProject
    <2>3. /\ IsJob(job) /\ job.at = "issue" /\ job.made = caller[c].made + 1
          /\ job.kind = "create" /\ job.goal = caller[c].goal /\ job.project = x
      BY <1>1, <2>1 DEF IsJob
    <2> HIDE DEF job
    <2>4. NextJobRefs(job)
      BY <1>1, <1>2, <2>1, <2>2, <2>3, LostStays DEF JobRefs, NextJobRefs, RefsIn
    <2>5. QED  BY <1>2, <2>1, <2>2, <2>3, <2>4, MadeStep
  <1>4. CASE CreateGoalIssue(c)
    <2> DEFINE job == [caller[c] EXCEPT !.at = "agent", !.issue = x, !.made = @ + 1]
    <2>1. Goes(c, job) /\ caller[c].at = "issue" /\ caller[c].kind = "create"
      BY <1>4 DEF CreateGoalIssue, At
    <2>2. x \in Issues' \cup lost' /\ Gains(x)
      <3>1. CASE CreateIssue(x, caller[c].project) /\ UNCHANGED lost
        BY <1>1, <1>2, <1>4, <2>1, <3>1, IssueInserted
           DEF CreateGoalIssue, Gains, Goals, JobRefs, RefsIn
      <3>2. CASE UNCHANGED issueRows /\ lost' = lost \cup {x}
        BY <1>2, <1>4, <3>2 DEF CreateGoalIssue, Gains, Goals
      <3>3. QED  BY <1>4, <3>1, <3>2 DEF CreateGoalIssue
    <2>3. /\ IsJob(job) /\ job.at = "agent" /\ job.made = caller[c].made + 1
          /\ job.kind = "create" /\ job.goal = caller[c].goal
          /\ job.project = caller[c].project /\ job.issue = x
      BY <1>1, <2>1 DEF IsJob
    <2> HIDE DEF job
    <2>4. NextJobRefs(job)
      BY <1>1, <2>1, <2>2, <2>3, LostStays DEF JobRefs, NextJobRefs, RefsIn
    <2>5. QED  BY <1>2, <2>1, <2>2, <2>3, <2>4, MadeStep
  <1>5. QED  BY <1>3, <1>4

\* applyResource.
LEMMA ApplyProjectStep == ASSUME TreeInv, NEW c \in Callers, ApplyProject(c) PROVE TreeInv'
  <1>1. /\ IsJob(caller[c]) /\ caller[c].at = "project" /\ caller[c].kind = "apply"
        /\ caller[c].goal \in Goals \cup lost
        /\ MishapsGrow /\ UNCHANGED <<goalRows, issueRows, lost, taskRows>>
    BY Statement DEF ApplyProject, At, NoWork, TreeInv, Jobs, JobRefs, RefsIn
  <1> DEFINE x == Uuid(c)
  <1>2. CASE CreateProject(x, caller[c].goal) /\ Goes(c, WithProject(c))
    <2>1. x \in Projects' /\ Gains(x)
      BY <1>1, <1>2, ProjectInserted DEF Gains, Goals
    <2> DEFINE job == [caller[c] EXCEPT !.project = x, !.made = @ + 1]
    <2>2. /\ IsJob(job) /\ job.made = caller[c].made + 1 /\ job.kind = "apply"
          /\ job.goal \in Goals' \cup lost' /\ job.project \in Projects' \cup lost'
      BY <1>1, <2>1 DEF IsJob, Goals
    <2>3. WithProject(c) = IF Head(job.left) > 0 THEN [job EXCEPT !.at = "issue"]
                                                 ELSE AfterProject(job)
      BY DEF WithProject
    <2> HIDE DEF job
    <2> DEFINE next == WithProject(c)
    <2>4. IsJob(next) /\ next.at # "new" /\ next.made = job.made /\ NextJobRefs(next)
      <3>1. CASE Head(job.left) > 0
        <4>1. /\ IsJob(next) /\ next.at = "issue" /\ next.made = job.made
              /\ next.kind = job.kind /\ next.goal = job.goal /\ next.project = job.project
          BY <2>2, <2>3, <3>1 DEF IsJob
        <4>2. QED  BY <2>2, <4>1 DEF NextJobRefs, RefsIn
      <3>2. CASE ~(Head(job.left) > 0)  BY <2>2, <2>3, <3>2, PlanJobs DEF NextJobRefs
      <3>3. QED  BY <3>1, <3>2
    <2> HIDE DEF next
    <2>5. Goes(c, next)  BY <1>2 DEF next
    <2>6. QED  BY <1>1, <2>1, <2>2, <2>4, <2>5, MadeStep
  <1>3. CASE UNCHANGED projectRows /\ Goes(c, AfterProject(caller[c]))
    <2> DEFINE next == AfterProject(caller[c])
    <2>1. IsJob(next) /\ next.at # "new" /\ next.made = caller[c].made /\ JobRefs(next)
      BY <1>1, PlanJobs DEF JobRefs
    <2>2. Goes(c, next)  BY <1>3
    <2> HIDE DEF next
    <2>3. QED  BY <1>1, <1>3, <2>1, <2>2, FailedStep
  <1>4. QED  BY <1>2, <1>3 DEF ApplyProject

LEMMA ApplyIssueStep == ASSUME TreeInv, NEW c \in Callers, ApplyIssue(c) PROVE TreeInv'
  <1>1. /\ IsJob(caller[c]) /\ caller[c].at = "issue" /\ caller[c].kind = "apply"
        /\ caller[c].goal \in Goals \cup lost /\ caller[c].project \in Projects \cup lost
        /\ MishapsGrow /\ UNCHANGED <<goalRows, projectRows, lost, taskRows>>
    BY Statement DEF ApplyIssue, At, NoWork, TreeInv, Jobs, JobRefs, RefsIn
  <1> DEFINE x == Uuid(c)
  <1>2. CASE /\ CreateIssue(x, caller[c].project)
             /\ Goes(c, [caller[c] EXCEPT !.at = "sub", !.issue = x, !.made = @ + 1])
    <2>1. x \in Issues' /\ Gains(x)
      BY <1>1, <1>2, IssueInserted DEF Gains, Goals
    <2> DEFINE job == [caller[c] EXCEPT !.at = "sub", !.issue = x, !.made = @ + 1]
    <2>2. /\ IsJob(job) /\ job.at = "sub" /\ job.made = caller[c].made + 1
          /\ job.kind = "apply" /\ job.goal = caller[c].goal /\ job.project = caller[c].project /\ job.issue = x
      BY <1>1 DEF IsJob
    <2>3. Goes(c, job)  BY <1>2
    <2> HIDE DEF job
    <2>4. NextJobRefs(job)
      BY <1>1, <2>1, <2>2, LostStays DEF NextJobRefs, RefsIn
    <2>5. QED  BY <1>1, <2>1, <2>2, <2>3, <2>4, MadeStep
  <1>3. CASE UNCHANGED issueRows /\ Goes(c, AfterTask(caller[c]))
    <2> DEFINE next == AfterTask(caller[c])
    <2>1. IsJob(next) /\ next.at # "new" /\ next.made = caller[c].made /\ JobRefs(next)
      BY <1>1, PlanJobs DEF JobRefs
    <2>2. Goes(c, next)  BY <1>3
    <2> HIDE DEF next
    <2>3. QED  BY <1>1, <1>3, <2>1, <2>2, FailedStep
  <1>4. QED  BY <1>2, <1>3 DEF ApplyIssue

\* The ID of a sub-issue that was not created is forgotten.
LEMMA ApplySubIssueStep == ASSUME TreeInv, NEW c \in Callers, ApplySubIssue(c) PROVE TreeInv'
  <1>1. /\ IsJob(caller[c]) /\ caller[c].at = "sub" /\ caller[c].kind = "apply"
        /\ caller[c].goal \in Goals \cup lost /\ caller[c].project \in Projects \cup lost
        /\ caller[c].issue \in Issues \cup lost
        /\ MishapsGrow /\ UNCHANGED <<goalRows, projectRows, lost, taskRows>>
    BY Statement DEF ApplySubIssue, At, NoWork, TreeInv, Jobs, JobRefs, RefsIn
  <1> DEFINE x == Uuid(c)
  <1> DEFINE job == [caller[c] EXCEPT !.made = @ + 1]
  <1>2. /\ IsJob(job) /\ job.made = caller[c].made + 1 /\ job.kind = "apply"
        /\ job.goal = caller[c].goal /\ job.project = caller[c].project
        /\ job.issue = caller[c].issue
    BY <1>1 DEF IsJob
  <1>3. Goes(c, [job EXCEPT !.at = "agent"]) \/ Goes(c, AfterTask(job))
    BY DEF ApplySubIssue
  <1>4. Gains(x)
    <2>1. CASE CreateIssue(x, caller[c].project)
      BY <1>1, <2>1, IssueInserted DEF Gains, Goals
    <2>2. CASE UNCHANGED issueRows  BY <1>1, <2>2 DEF Gains, Goals
    <2>3. QED  BY <2>1, <2>2 DEF ApplySubIssue
  <1> HIDE DEF job
  <1>5. /\ job.goal \in Goals' \cup lost' /\ job.project \in Projects' \cup lost'
        /\ job.issue \in Issues' \cup lost'
    BY <1>1, <1>2, <1>4, LostStays
  <1>6. PICK next : /\ Goes(c, next) /\ IsJob(next) /\ next.at # "new" /\ next.made = job.made
                    /\ NextJobRefs(next)
    <2>1. CASE Goes(c, [job EXCEPT !.at = "agent"])
      <3> DEFINE next == [job EXCEPT !.at = "agent"]
      <3>1. /\ IsJob(next) /\ next.at = "agent" /\ next.made = job.made
            /\ next.kind = job.kind /\ next.goal = job.goal /\ next.project = job.project
            /\ next.issue = job.issue
        BY <1>2 DEF IsJob
      <3>2. Goes(c, next)  BY <2>1
      <3> HIDE DEF next
      <3>3. NextJobRefs(next)  BY <1>2, <1>5, <3>1 DEF NextJobRefs, RefsIn
      <3>4. QED  BY <3>1, <3>2, <3>3
    <2>2. CASE Goes(c, AfterTask(job))
      <3> DEFINE next == AfterTask(job)
      <3>1. IsJob(next) /\ next.at # "new" /\ next.made = job.made /\ NextJobRefs(next)
        BY <1>2, <1>5, PlanJobs DEF NextJobRefs
      <3>2. QED  BY <2>2, <3>1
    <2>3. QED  BY <1>3, <2>1, <2>2
  <1>7. QED  BY <1>1, <1>2, <1>4, <1>6, MadeStep

\* The goroutines and the requests of Editors insert and delete no row.
LEMMA WorkStep ==
  ASSUME TreeInv,
         \/ \E w \in work : Execute(w) \/ ReadForCost(w) \/ WriteCompleted(w)
         \/ \E e \in Editors : ReadForEdit(e) \/ WriteEdit(e)
  PROVE  TreeInv'
  <1>0. \A t \in DOMAIN taskRows : IsTaskRow(taskRows[t]) /\ TaskRefs(taskRows[t])
    BY DEF TreeInv, Refs
  <1>1. UNCHANGED <<projectRows, issueRows, lost, caller>>
    BY DEF Execute, TaskEnds, ReadForCost, WriteCompleted, ReadForEdit, WriteEdit, rows
  <1>2. Goals' = Goals
    <2>1. UNCHANGED goalRows \/ \E g, row : goalRows' = Updated(goalRows, g, row)
      BY DEF Execute, TaskEnds, ReadForCost, WriteCompleted, ReadForEdit, WriteEdit, rows,
             UpdateGoal
    <2>2. QED  BY <2>1, Update DEF Goals
  <1>3. MishapsGrow
    BY DEF Execute, TaskEnds, ReadForCost, WriteCompleted, ReadForEdit, WriteEdit, Mishap,
           MishapsGrow
  <1>4. DOMAIN caller' = Callers /\ \A c \in Callers : JobStays(c)
    BY <1>1 DEF JobStays, TreeInv, Jobs
  <1>5. CASE UNCHANGED taskRows
    <2>1. TasksStay  BY <1>0, <1>5 DEF TasksStay
    <2>2. QED  BY <1>1, <1>2, <1>3, <1>4, <2>1, QuietStep
  <1>6. CASE \E w \in work : \E s : UpdateTask(w.task, [taskRows[w.task] EXCEPT !.status = s])
    <2>0. PICK w \in work : \E s : UpdateTask(w.task, [taskRows[w.task] EXCEPT !.status = s])
      BY <1>6
    <2>1. PICK s : UpdateTask(w.task, [taskRows[w.task] EXCEPT !.status = s])  BY <2>0
    <2> DEFINE row == [taskRows[w.task] EXCEPT !.status = s]
    <2>2. w.task \in DOMAIN taskRows =>
            /\ IsTaskRow(row) /\ row.issue = taskRows[w.task].issue
            /\ row.project = taskRows[w.task].project /\ row.goal = taskRows[w.task].goal
      BY <1>0 DEF IsTaskRow
    <2>3. taskRows' = Updated(taskRows, w.task, row)  BY <2>1 DEF UpdateTask
    <2> HIDE DEF row
    <2>4. /\ DOMAIN taskRows' = DOMAIN taskRows
          /\ \A x \in DOMAIN taskRows : taskRows'[x] = IF x = w.task THEN row ELSE taskRows[x]
      BY <2>3, Update
    <2>5. w.task \in DOMAIN taskRows => TaskRefs(row)  BY <1>0, <2>2 DEF TaskRefs
    <2>6. TasksStay  BY <1>0, <2>2, <2>4, <2>5 DEF TasksStay
    <2>7. QED  BY <1>1, <1>2, <1>3, <1>4, <2>6, QuietStep
  <1>7. QED
    BY <1>5, <1>6 DEF Execute, TaskEnds, ReadForCost, WriteCompleted, ReadForEdit, WriteEdit, rows

\* The other requests.
LEMMA OtherTreeStep == ASSUME TreeInv, OtherRequest PROVE TreeInv'
  <1>0. /\ \A t \in DOMAIN taskRows : IsTaskRow(taskRows[t]) /\ TaskRefs(taskRows[t])
        /\ mishaps \in Nat /\ DOMAIN caller = Callers
        /\ \A c \in Callers : IsJob(caller[c]) /\ JobRefs(caller[c])
    BY DEF TreeInv, Refs, Jobs
  <1>1. UNCHANGED <<caller, taskRows>> /\ mishaps' = mishaps + 1 /\ MishapsGrow
    BY DEF OtherRequest, PutGoal, RemoveGoal, PostProject, RemoveProject, PostIssue,
           RemoveIssue, RemoveAgent, OtherRequestFrame, Mishap, MishapsGrow
  <1>2. DOMAIN caller' = Callers /\ \A c \in Callers : JobStays(c)
    BY <1>0, <1>1 DEF JobStays
  <1>3. TasksStay  BY <1>0, <1>1 DEF TasksStay
  <1>4. CASE PutGoal \/ RemoveAgent
    <2>1. Goals' = Goals  BY <1>4, Update DEF PutGoal, RemoveAgent, UpdateGoal, Goals
    <2>2. UNCHANGED <<projectRows, issueRows, lost>>  BY <1>4 DEF PutGoal, RemoveAgent
    <2>3. QED  BY <1>1, <1>2, <1>3, <2>1, <2>2, QuietStep
  <1>5. CASE RemoveGoal
    <2>1. PICK g \in Goals : DeleteGoal(g) /\ lost' = lost \cup {g}
      BY <1>5 DEF RemoveGoal, Goals
    <2>2. Goals' = Goals \ {g}  BY <2>1, Deletion DEF DeleteGoal, Goals
    <2>3. UNCHANGED <<projectRows, issueRows>>  BY <1>5 DEF RemoveGoal
    <2>4. QED  BY <1>1, <2>1, <2>2, <2>3, LossStep
  <1>6. CASE RemoveProject \/ RemoveIssue
    BY <1>1, <1>6, LossStep
       DEF RemoveProject, RemoveIssue, DeleteProject, DeleteIssue, Projects, Issues
  <1>7. CASE PostProject \/ PostIssue
    <2> DEFINE x == <<"post", mishaps>>
    <2>1. x \notin InUse  BY <1>0 DEF TreeInv, Fresh
    <2>2. \A c \in Callers : JobStays(c) /\ \A n \in Nat : x # <<c, n>>
      BY <1>2, DeskAssumption
    <2>3. \A n \in Nat : n >= mishaps' => x # <<"post", n>>  BY <1>0, <1>1
    <2>4. x[1] \notin Callers  BY DeskAssumption
    <2> HIDE DEF x
    <2>5. Gains(x)
      <3>1. CASE PostProject
        <4>1. PICK g : CreateProject(x, g)  BY <3>1 DEF PostProject, x
        <4>2. QED  BY <2>4, <3>1, <4>1, ProjectInserted DEF PostProject, Gains, Goals
      <3>2. CASE PostIssue
        <4>1. PICK p : CreateIssue(x, p)  BY <3>2 DEF PostIssue, x
        <4>2. QED  BY <2>4, <3>2, <4>1, IssueInserted DEF PostIssue, Gains, Goals
      <3>3. QED  BY <1>7, <3>1, <3>2
    <2>6. QED  BY <1>1, <1>2, <2>1, <2>2, <2>3, <2>5, GainStep
  <1>8. QED  BY <1>4, <1>5, <1>6, <1>7 DEF OtherRequest

LEMMA TreeInvariant == DeskSpec => []TreeInv
  <1>1. DeskInit => TreeInv
    <2> SUFFICES ASSUME DeskInit PROVE TreeInv  OBVIOUS
    <2>1. InUse = {} /\ DOMAIN taskRows = {} /\ mishaps = 0
          /\ DOMAIN projectRows = {} /\ DOMAIN issueRows = {}
      BY DEF DeskInit, StoreInit, Empty, InUse, Goals, Projects, Issues
    <2>2. DOMAIN caller = Callers /\ \A c \in Callers : caller[c] = NoJob  BY DEF DeskInit
    <2>3. IsJob(NoJob) /\ NoJob.made = 0 /\ NoJob.kind = "none"  BY DEF NoJob, IsJob
    <2>4. Jobs
      <3>1. ASSUME NEW c \in Callers
            PROVE  IsJob(caller[c]) /\ caller[c].made = 0 /\ JobRefs(caller[c])
        BY <2>2, <2>3 DEF JobRefs, RefsIn
      <3>2. QED  BY <2>1, <2>2, <3>1 DEF Jobs
    <2>5. QED  BY <2>1, <2>4 DEF TreeInv, Apart, Fresh, Refs, InUse, Projects, Issues
  <1>2. TreeInv /\ [DeskNext]_deskVars => TreeInv'
    <2> SUFFICES ASSUME TreeInv, [DeskNext]_deskVars PROVE TreeInv'  OBVIOUS
    <2>1. ASSUME NEW c \in Callers, Serve(c) PROVE TreeInv'
      BY <2>1, ServeWithoutID, NewGoalStep, CreateGoalStep, ApplyProjectStep, ApplyIssueStep,
         ApplySubIssueStep DEF Serve
    <2>2. CASE \/ \E w \in work : Execute(w) \/ ReadForCost(w) \/ WriteCompleted(w)
               \/ \E e \in Editors : ReadForEdit(e) \/ WriteEdit(e)
      BY <2>2, WorkStep
    <2>3. CASE OtherRequest  BY <2>3, OtherTreeStep
    <2>4. CASE Tick \/ Crash \/ UNCHANGED deskVars
      <3>1. UNCHANGED <<rows, lost, mishaps>>  BY <2>4 DEF Tick, Crash, deskVars
      <3>2. DOMAIN caller' = Callers /\ \A c \in Callers : JobStays(c)
        <4>1. /\ DOMAIN caller = Callers
              /\ \A c \in Callers : IsJob(caller[c]) /\ JobRefs(caller[c])
          BY DEF TreeInv, Jobs
        <4>2. CASE Crash
          <5>1. /\ DOMAIN caller' = Callers
                /\ \A c \in Callers :
                     caller'[c] \in {caller[c], [NoJob EXCEPT !.at = "done"]}
            BY <4>2 DEF Crash
          <5>2. QED  BY <4>1, <5>1, DoneJob DEF JobStays
        <4>3. CASE UNCHANGED caller  BY <4>1, <4>3 DEF JobStays
        <4>4. QED  BY <2>4, <4>2, <4>3 DEF Tick, deskVars
      <3>3. Goals' = Goals /\ UNCHANGED <<projectRows, issueRows, taskRows>>
        BY <3>1 DEF rows, Goals
      <3>4. TasksStay  BY <3>3 DEF TasksStay, TreeInv, Refs
      <3>5. QED  BY <3>1, <3>2, <3>3, <3>4, QuietStep DEF MishapsGrow
    <2>5. QED  BY <2>1, <2>2, <2>3, <2>4 DEF DeskNext
  <1>3. QED  BY <1>1, <1>2, PTL DEF DeskSpec

\* However requests, deletions, mishaps and crashes interleave, what POST /goals and POST
\* /apply create refers to rows that are there, that were deleted, or that createGoal went
\* on without.  What POST /run, /projects and /issues create may refer to anything.
THEOREM TreeCorrect == DeskSpec => []TreeIsConnected
  <1>1. TreeInv => TreeIsConnected
    BY DEF TreeInv, Apart, Refs, TaskRefs, Goals, Projects, Issues, TreeIsConnected
  <1>2. QED  BY <1>1, TreeInvariant, PTL

-----------------------------------------------------------------------------
\* The types, beside what the other two invariants say of them: the rows of goals, and the
\* copies of them that are to be written back ...
GoalsTyped ==
  /\ \A g \in Goals : goalRows[g].phase \in Phases /\ goalRows[g].status \in Phases
  /\ \A e \in Editors : editor[e].at = "revise" =>
       editor[e].row.phase \in Phases /\ editor[e].row.status \in Phases

IsTable(table) == table = [k \in DOMAIN table |-> table[k]]

\* ... the keys that are UUIDs ...
KeysTyped ==
  /\ InUse \subseteq UUIDs /\ IsTable(projectRows) /\ IsTable(issueRows)
  /\ \A p \in Projects : projectRows[p] \in UUIDs
  /\ \A i \in Issues : issueRows[i] \in UUIDs

\* ... the tasks, and the ID that POST /run has made for the one that it will create ...
TasksTyped ==
  /\ now \in Ticks /\ DOMAIN taskRows \subseteq Ticks /\ worked \subseteq Ticks
  /\ \A t \in DOMAIN taskRows : taskRows[t].status \in {"Pending", "Completed", "Failed"}
  /\ \A c \in Callers : caller[c].kind = "run" => caller[c].task \in Ticks

\* ... and the rest.
RestTyped == DOMAIN agentRows \subseteq {"coder"} /\ mishaps \in 0 .. MaxMishaps

DeskInv == GoalsTyped /\ KeysTyped /\ TasksTyped /\ RestTyped

\* A step that writes one row of a goal, with phases.
LEMMA GoalsWritten ==
  ASSUME GoalsTyped, NEW g, NEW row, UpdateGoal(g, row),
         row.phase \in Phases, row.status \in Phases
  PROVE  \A h \in Goals' : goalRows'[h].phase \in Phases /\ goalRows'[h].status \in Phases
  <1>1. /\ Goals' = Goals
        /\ \A h \in Goals : goalRows'[h] = IF h = g THEN row ELSE goalRows[h]
    BY Update DEF UpdateGoal, Goals
  <1>2. QED  BY <1>1 DEF GoalsTyped

\* A step whose rows of goals have phases, and that may end edits.
LEMMA GoalsStay ==
  ASSUME GoalsTyped, UNCHANGED editor \/ EditsEnd,
         \A h \in Goals' : goalRows'[h].phase \in Phases /\ goalRows'[h].status \in Phases
  PROVE  GoalsTyped'
  <1>1. \A e \in Editors : editor'[e].at = "revise" => editor'[e] = editor[e]
    BY DEF EditsEnd, NoEdit
  <1>2. QED  BY <1>1 DEF GoalsTyped

LEMMA GoalsTypedStep == ASSUME WorkInv, GoalsTyped, [DeskNext]_deskVars PROVE GoalsTyped'
  <1> USE DEF Phases
  <1>1. CASE UNCHANGED <<goalRows, editor>>  BY <1>1 DEF GoalsTyped, Goals
  <1>2. ASSUME NEW c \in Callers, Serve(c) PROVE GoalsTyped'
    <2>1. CASE NewGoal(c)
      <3>1. UNCHANGED editor  BY <2>1 DEF NewGoal, Others
      <3>2. CASE CreateGoal(Uuid(c))
        <4> DEFINE x == Uuid(c)
        <4> DEFINE row == [phase |-> "active", status |-> "active"]
        <4>1. row.phase \in Phases /\ row.status \in Phases  OBVIOUS
        <4>2. goalRows' = Inserted(goalRows, x, row)  BY <3>2 DEF CreateGoal
        <4> HIDE DEF row, x
        <4>3. /\ Goals' = Goals \cup {x}
              /\ \A g \in Goals' : goalRows'[g] = row \/ (g \in Goals /\ goalRows'[g] = goalRows[g])
          BY <4>2 DEF Inserted, Goals
        <4>4. QED  BY <3>1, <4>1, <4>3, GoalsStay DEF GoalsTyped
      <3>3. CASE UNCHANGED goalRows  BY <1>1, <3>1, <3>3
      <3>4. QED  BY <2>1, <3>2, <3>3 DEF NewGoal
    <2>2. CASE CreateGoalFinish(c)
      <3>1. UNCHANGED editor  BY <2>2 DEF CreateGoalFinish, Others
      <3>2. CASE UpdateGoal(caller[c].goal, [phase |-> "in_progress", status |-> "in_progress"])
        <4> DEFINE row == [phase |-> "in_progress", status |-> "in_progress"]
        <4>1. UpdateGoal(caller[c].goal, row) /\ row.phase \in Phases /\ row.status \in Phases
          BY <3>2
        <4> HIDE DEF row
        <4>2. QED  BY <3>1, <4>1, GoalsWritten, GoalsStay
      <3>3. CASE UNCHANGED goalRows  BY <1>1, <3>1, <3>3
      <3>4. QED  BY <2>2, <3>2, <3>3 DEF CreateGoalFinish
    <2>3. CASE ~NewGoal(c) /\ ~CreateGoalFinish(c)
      <3>1. UNCHANGED <<goalRows, editor>>
        BY <1>2, <2>3 DEF Serve, CreateGoalProject, CreateGoalIssue, CreateGoalTask,
             ApplyProject, ApplyIssue, ApplySubIssue, ApplyTask, RunTask, RunTaskCreate,
             MakeSureOfAgent, HangUp, Others, rows
      <3>2. QED  BY <1>1, <3>1
    <2>4. QED  BY <2>1, <2>2, <2>3
  <1>3. ASSUME NEW w \in work, Execute(w) \/ ReadForCost(w) \/ WriteCompleted(w)
        PROVE  GoalsTyped'
    <2>1. UNCHANGED editor
      BY <1>3 DEF Execute, TaskEnds, ReadForCost, WriteCompleted
    <2>2. CASE UNCHANGED goalRows  BY <1>1, <2>1, <2>2
    <2>3. CASE UpdateGoal(w.goal, [phase |-> "completed", status |-> "completed"])
      <3> DEFINE row == [phase |-> "completed", status |-> "completed"]
      <3>1. UpdateGoal(w.goal, row) /\ row.phase \in Phases /\ row.status \in Phases  BY <2>3
      <3> HIDE DEF row
      <3>2. QED  BY <2>1, <3>1, GoalsWritten, GoalsStay
    <2>4. QED  BY <1>3, <2>2, <2>3 DEF Execute, TaskEnds, ReadForCost, WriteCompleted, rows
  <1>4. ASSUME NEW e \in Editors, ReadForEdit(e) PROVE GoalsTyped'
    <2>1. UNCHANGED goalRows  BY <1>4 DEF ReadForEdit, rows
    <2>2. PICK g \in Goals, edit \in {"approve", "revise"} :
            editor' = [editor EXCEPT ![e] = [at |-> edit, goal |-> g, row |-> goalRows[g]]]
      BY <1>4 DEF ReadForEdit, Goals
    <2>3. \A d \in Editors : editor'[d] = editor[d] \/ editor'[d].row = goalRows[g]
      BY <2>2 DEF WorkInv, Shapes
    <2>4. QED  BY <2>1, <2>3 DEF GoalsTyped, Goals
  <1>5. ASSUME NEW e \in Editors, WriteEdit(e) PROVE GoalsTyped'
    <2>1. EditsEnd  BY <1>5 DEF WriteEdit, EditsEnd, WorkInv, Shapes
    <2>2. CASE UpdateGoal(editor[e].goal, [phase |-> "approved", status |-> "approved"])
      <3> DEFINE row == [phase |-> "approved", status |-> "approved"]
      <3>1. UpdateGoal(editor[e].goal, row) /\ row.phase \in Phases /\ row.status \in Phases
        BY <2>2
      <3> HIDE DEF row
      <3>2. QED  BY <2>1, <3>1, GoalsWritten, GoalsStay
    <2>3. CASE /\ editor[e].at = "revise"
               /\ UpdateGoal(editor[e].goal, [editor[e].row EXCEPT !.phase = "planned"])
      <3> DEFINE row == [editor[e].row EXCEPT !.phase = "planned"]
      <3>1. IsGoalRow(editor[e].row) /\ editor[e].row.status \in Phases
        BY <2>3 DEF WorkInv, Shapes, GoalsTyped
      <3>2. row.phase = "planned" /\ row.status = editor[e].row.status  BY <3>1 DEF IsGoalRow
      <3>3. UpdateGoal(editor[e].goal, row) /\ row.phase \in Phases /\ row.status \in Phases
        BY <2>3, <3>1, <3>2
      <3> HIDE DEF row
      <3>4. QED  BY <2>1, <3>3, GoalsWritten, GoalsStay
    <2>4. QED  BY <1>5, <2>2, <2>3 DEF WriteEdit
  <1>6. CASE OtherRequest
    <2>1. UNCHANGED editor
      BY <1>6 DEF OtherRequest, PutGoal, RemoveGoal, PostProject, RemoveProject, PostIssue,
                  RemoveIssue, RemoveAgent, OtherRequestFrame
    <2>2. CASE UNCHANGED goalRows  BY <1>1, <2>1, <2>2
    <2>3. CASE PutGoal
      <3>1. PICK g \in DOMAIN goalRows, s \in {"active", "in_progress"} :
              UpdateGoal(g, [phase |-> "", status |-> s])
        BY <2>3 DEF PutGoal
      <3> DEFINE row == [phase |-> "", status |-> s]
      <3>2. UpdateGoal(g, row) /\ row.phase \in Phases /\ row.status \in Phases  BY <3>1
      <3> HIDE DEF row
      <3>3. QED  BY <2>1, <3>2, GoalsWritten, GoalsStay
    <2>4. CASE RemoveGoal
      <3>1. PICK g \in DOMAIN goalRows : goalRows' = Deleted(goalRows, g)
        BY <2>4 DEF RemoveGoal, DeleteGoal
      <3>2. \A h \in Goals' : h \in Goals /\ goalRows'[h] = goalRows[h]
        BY <3>1, Deletion DEF Goals
      <3>3. QED  BY <2>1, <3>2, GoalsStay DEF GoalsTyped
    <2>5. QED
      BY <1>6, <2>2, <2>3, <2>4 DEF OtherRequest, PostProject, RemoveProject, PostIssue,
           RemoveIssue, RemoveAgent
  <1>7. CASE Crash
    <2>1. UNCHANGED goalRows /\ EditsEnd
      BY <1>7 DEF Crash, rows, EditsEnd, WorkInv, Shapes
    <2>2. QED  BY <2>1, GoalsStay DEF GoalsTyped, Goals
  <1>8. CASE Tick \/ UNCHANGED deskVars
    <2>1. UNCHANGED <<goalRows, editor>>  BY <1>8 DEF Tick, deskVars, rows
    <2>2. QED  BY <1>1, <2>1
  <1>9. QED  BY <1>2, <1>3, <1>4, <1>5, <1>6, <1>7, <1>8 DEF DeskNext

\* A table whose rows are inserted and deleted.
LEMMA TableStep ==
  ASSUME NEW table, NEW table1, IsTable(table), NEW k,
         table1 = table \/ table1 = Deleted(table, k)
           \/ \E row : table1 = Inserted(table, k, row)
  PROVE  IsTable(table1)
  BY DEF IsTable, Deleted, Restrict, Inserted

\* The IDs that are made.
LEMMA MadeIDs ==
  ASSUME TreeInv
  PROVE  (\A c \in Callers : Uuid(c) \in UUIDs) /\ <<"post", mishaps>> \in UUIDs
           /\ ForeignID \in UUIDs
  BY DEF TreeInv, Jobs, Uuid, UUIDs, ForeignID

LEMMA KeysTypedStep == ASSUME TreeInv, KeysTyped, [DeskNext]_deskVars PROVE KeysTyped'
  <1>1. ASSUME NEW x \in UUIDs,
               UNCHANGED projectRows \/ \E row \in UUIDs : projectRows' = Inserted(projectRows, x, row),
               UNCHANGED issueRows \/ \E row \in UUIDs : issueRows' = Inserted(issueRows, x, row),
               Goals' \subseteq Goals \cup {x}, lost' \subseteq lost \cup {x}
        PROVE  KeysTyped'
    <2>1. IsTable(projectRows') /\ IsTable(issueRows')  BY <1>1, TableStep DEF KeysTyped
    <2>2. Projects' \subseteq Projects \cup {x} /\ Issues' \subseteq Issues \cup {x}
      BY <1>1 DEF Inserted, Projects, Issues
    <2>3. /\ \A p \in Projects' : projectRows'[p] \in UUIDs
          /\ \A i \in Issues' : issueRows'[i] \in UUIDs
      BY <1>1 DEF Inserted, Projects, Issues, KeysTyped
    <2>4. QED  BY <1>1, <2>1, <2>2, <2>3 DEF KeysTyped, InUse, IsTable
  <1>2. ASSUME UNCHANGED <<projectRows, issueRows, lost>>, Goals' = Goals PROVE KeysTyped'
    BY <1>2 DEF KeysTyped, InUse, IsTable, Projects, Issues
  <1>3. ASSUME NEW c \in Callers, Serve(c) PROVE KeysTyped'
    <2>1. Uuid(c) \in UUIDs  BY MadeIDs
    <2>2. /\ UNCHANGED projectRows
             \/ (caller[c].at = "project" /\ CreateProject(Uuid(c), caller[c].goal))
          /\ UNCHANGED issueRows
             \/ (caller[c].at \in {"issue", "sub"} /\ CreateIssue(Uuid(c), caller[c].project))
          /\ UNCHANGED <<projectRows, issueRows>> \/ caller[c].kind \in {"create", "apply"}
          /\ lost' \subseteq lost \cup {Uuid(c)}
      BY <1>3 DEF Serve, NewGoal, CreateGoalProject, CreateGoalIssue, CreateGoalTask,
           CreateGoalFinish, ApplyProject, ApplyIssue, ApplySubIssue, ApplyTask, RunTask,
           RunTaskCreate, MakeSureOfAgent, HangUp, At, rows
    <2>3. /\ UNCHANGED projectRows
             \/ \E row \in UUIDs : projectRows' = Inserted(projectRows, Uuid(c), row)
          /\ UNCHANGED issueRows
             \/ \E row \in UUIDs : issueRows' = Inserted(issueRows, Uuid(c), row)
      BY <2>2 DEF TreeInv, Jobs, JobRefs, RefsIn, KeysTyped, InUse, CreateProject, CreateIssue
    <2>4. Goals' \subseteq Goals \cup {Uuid(c)}
      <3>1. \/ UNCHANGED goalRows \/ CreateGoal(Uuid(c))
            \/ \E g, row : goalRows' = Updated(goalRows, g, row)
        BY <1>3 DEF Serve, NewGoal, CreateGoalProject, CreateGoalIssue, CreateGoalTask,
             CreateGoalFinish, ApplyProject, ApplyIssue, ApplySubIssue, ApplyTask, RunTask,
             RunTaskCreate, MakeSureOfAgent, HangUp, rows, UpdateGoal
      <3>2. QED  BY <3>1, Update DEF CreateGoal, Inserted, Goals
    <2>5. QED  BY <1>1, <2>1, <2>2, <2>3, <2>4
  <1>4. CASE \/ \E w \in work : Execute(w) \/ ReadForCost(w) \/ WriteCompleted(w)
             \/ \E e \in Editors : ReadForEdit(e) \/ WriteEdit(e)
    <2>1. UNCHANGED <<projectRows, issueRows, lost>>
      BY <1>4 DEF Execute, TaskEnds, ReadForCost, WriteCompleted, ReadForEdit, WriteEdit, rows
    <2>2. Goals' = Goals
      <3>1. UNCHANGED goalRows \/ \E g, row : goalRows' = Updated(goalRows, g, row)
        BY <1>4 DEF Execute, TaskEnds, ReadForCost, WriteCompleted, ReadForEdit, WriteEdit,
             rows, UpdateGoal
      <3>2. QED  BY <3>1, Update DEF Goals
    <2>3. QED  BY <1>2, <2>1, <2>2
  <1>5. CASE PutGoal \/ RemoveAgent
    <2>1. Goals' = Goals  BY <1>5, Update DEF PutGoal, RemoveAgent, UpdateGoal, Goals
    <2>2. QED  BY <1>2, <1>5, <2>1 DEF PutGoal, RemoveAgent
  <1>6. CASE PostProject \/ PostIssue
    <2>1. <<"post", mishaps>> \in UUIDs /\ ForeignID \in UUIDs  BY MadeIDs
    <2>2. Named(Goals) \subseteq UUIDs /\ Named(Projects) \subseteq UUIDs
      BY <2>1 DEF Named, KeysTyped, InUse
    <2>3. QED
      BY <1>1, <1>6, <2>1, <2>2
         DEF PostProject, PostIssue, CreateProject, CreateIssue, Goals, Projects
  <1>7. CASE RemoveGoal \/ RemoveProject \/ RemoveIssue
    <2>1. PICK x \in InUse :
            /\ lost' = lost \cup {x} /\ Goals' \subseteq Goals
            /\ projectRows' = projectRows \/ projectRows' = Deleted(projectRows, x)
            /\ issueRows' = issueRows \/ issueRows' = Deleted(issueRows, x)
      <3>1. CASE RemoveGoal
        <4>1. PICK x \in Goals : goalRows' = Deleted(goalRows, x) /\ lost' = lost \cup {x}
          BY <3>1 DEF RemoveGoal, DeleteGoal, Goals
        <4>2. Goals' \subseteq Goals  BY <4>1 DEF Deleted, Restrict, Goals
        <4>3. QED  BY <3>1, <4>1, <4>2 DEF RemoveGoal, InUse
      <3>2. CASE RemoveProject
        BY <3>2 DEF RemoveProject, DeleteProject, InUse, Goals, Projects
      <3>3. CASE RemoveIssue
        BY <3>3 DEF RemoveIssue, DeleteIssue, InUse, Goals, Issues
      <3>4. QED  BY <1>7, <3>1, <3>2, <3>3
    <2>2. IsTable(projectRows') /\ IsTable(issueRows')  BY <2>1, TableStep DEF KeysTyped
    <2>3. /\ Projects' \subseteq Projects /\ \A p \in Projects' : projectRows'[p] = projectRows[p]
          /\ Issues' \subseteq Issues /\ \A i \in Issues' : issueRows'[i] = issueRows[i]
      BY <2>1 DEF Deleted, Restrict, Projects, Issues
    <2>4. QED  BY <2>1, <2>2, <2>3 DEF KeysTyped, InUse, IsTable
  <1>8. CASE Tick \/ Crash \/ UNCHANGED deskVars
    BY <1>2, <1>8 DEF Tick, Crash, deskVars, rows, Goals
  <1>9. QED  BY <1>3, <1>4, <1>5, <1>6, <1>7, <1>8 DEF DeskNext, OtherRequest

\* A handler goes on, and what POST /run has made stays what it is.
LEMMA RunStays ==
  ASSUME TreeInv, TasksTyped, NEW c \in Callers, NEW job, Goes(c, job),
         job.kind = "run" => job.task \in Ticks
  PROVE  \A d \in Callers : caller'[d].kind = "run" => caller'[d].task \in Ticks
  <1>1. [NoJob EXCEPT !.at = "done"].kind # "run"  BY DEF NoJob
  <1>2. /\ \A d \in Callers : d # c => caller'[d] = caller[d]
        /\ caller'[c] = IF job.at = "done" THEN [NoJob EXCEPT !.at = "done"] ELSE job
    BY DEF Goes, TreeInv, Jobs
  <1>3. QED  BY <1>1, <1>2 DEF TasksTyped

\* The jobs that a handler goes on with are for the request that it began with.
ForTheSame(job, j) == job.kind = j.kind /\ (job.task = j.task \/ j.kind # "run")

LEMMA PlanOfRequest ==
  ASSUME NEW j, IsJob(j), NEW next \in {AfterProject(j), AfterTask(j)}
  PROVE  IsJob(next) /\ next.kind = j.kind /\ next.task = j.task
  <1>1. /\ IsJob(AfterProject(j)) /\ AfterProject(j).kind = j.kind
        /\ AfterProject(j).task = j.task
    BY DEF AfterProject, IsJob
  <1>2. IsJob(AfterTask(j)) /\ AfterTask(j).kind = j.kind /\ AfterTask(j).task = j.task
    <2>1. CASE Head(j.left) > 1  BY <2>1 DEF AfterTask, IsJob
    <2>2. CASE ~(Head(j.left) > 1)  BY <1>1, <2>2 DEF AfterTask
    <2>3. QED  BY <2>1, <2>2
  <1>3. QED  BY <1>1, <1>2

\* What the handlers of a request have in common: it goes on as the same.
LEMMA RequestStays ==
  ASSUME TreeInv, TasksTyped, NEW c \in Callers, Serve(c)
  PROVE  \A d \in Callers : caller'[d].kind = "run" => caller'[d].task \in Ticks
  <1> DEFINE j == caller[c]
  <1>1. IsJob(j) /\ (j.kind = "run" => j.task \in Ticks) /\ now \in Ticks
    BY DEF TreeInv, Jobs, TasksTyped
  <1>2. ASSUME NEW l, Moves(c, l)
        PROVE  \A d \in Callers : caller'[d].kind = "run" => caller'[d].task \in Ticks
    <2> DEFINE job == [j EXCEPT !.at = l]
    <2>1. Goes(c, job)  BY <1>2 DEF Moves
    <2>2. job.kind = j.kind /\ job.task = j.task  BY <1>1 DEF IsJob
    <2> HIDE DEF job
    <2>3. QED  BY <1>1, <2>1, <2>2, RunStays
  <1>3. ASSUME NEW job, Goes(c, job), ForTheSame(job, j)
        PROVE  \A d \in Callers : caller'[d].kind = "run" => caller'[d].task \in Ticks
    BY <1>1, <1>3, RunStays DEF ForTheSame
  <1>4. CASE NewGoal(c)
    <2>1. CASE Moves(c, "done")  BY <1>2, <2>1
    <2>2. CASE ~Moves(c, "done")
      <3>1. PICK kind \in Asks[c] \ {"run"} :
              Goes(c, [NoJob EXCEPT !.at = IF kind = "plain" \/ (kind = "apply" /\ Plan = <<>>)
                                             THEN "done" ELSE "project",
                                    !.kind = kind, !.goal = Uuid(c), !.made = 1,
                                    !.left = IF kind = "apply" THEN Plan ELSE <<>>])
        BY <1>4, <2>2 DEF NewGoal
      <3> DEFINE job == [NoJob EXCEPT !.at = IF kind = "plain" \/ (kind = "apply" /\ Plan = <<>>)
                                               THEN "done" ELSE "project",
                                      !.kind = kind, !.goal = Uuid(c), !.made = 1,
                                      !.left = IF kind = "apply" THEN Plan ELSE <<>>]
      <3>2. job.kind # "run"  BY DEF NoJob
      <3>3. Goes(c, job)  BY <3>1
      <3> HIDE DEF job
      <3>4. QED  BY <3>2, <3>3, RunStays
    <2>3. QED  BY <2>1, <2>2
  <1>5. CASE CreateGoalProject(c)
    <2> DEFINE job == [j EXCEPT !.at = "issue", !.project = Uuid(c), !.made = @ + 1]
    <2>1. Goes(c, job) /\ ForTheSame(job, j)
      BY <1>1, <1>5 DEF CreateGoalProject, IsJob, ForTheSame
    <2> HIDE DEF job
    <2>2. QED  BY <1>3, <2>1
  <1>6. CASE CreateGoalIssue(c)
    <2> DEFINE job == [j EXCEPT !.at = "agent", !.issue = Uuid(c), !.made = @ + 1]
    <2>1. Goes(c, job) /\ ForTheSame(job, j)
      BY <1>1, <1>6 DEF CreateGoalIssue, IsJob, ForTheSame
    <2> HIDE DEF job
    <2>2. QED  BY <1>3, <2>1
  <1>7. CASE CreateGoalTask(c) \/ CreateGoalFinish(c) \/ RunTaskCreate(c) \/ MakeSureOfAgent(c)
    BY <1>2, <1>7 DEF CreateGoalTask, CreateGoalFinish, RunTaskCreate, MakeSureOfAgent
  <1>8. CASE ApplyProject(c)
    <2>1. CASE Goes(c, AfterProject(j))  BY <1>1, <1>3, <2>1, PlanOfRequest DEF ForTheSame
    <2>2. CASE Goes(c, WithProject(c))
      <3> DEFINE job == [j EXCEPT !.project = Uuid(c), !.made = @ + 1]
      <3> DEFINE next == WithProject(c)
      <3>1. IsJob(job) /\ job.kind = j.kind /\ job.task = j.task  BY <1>1 DEF IsJob
      <3>2. next = IF Head(job.left) > 0 THEN [job EXCEPT !.at = "issue"] ELSE AfterProject(job)
        BY DEF WithProject
      <3>3. Goes(c, next)  BY <2>2
      <3> HIDE DEF job, next
      <3>4. next.kind = job.kind /\ next.task = job.task
        <4>1. CASE next = AfterProject(job)  BY <3>1, <4>1, PlanOfRequest
        <4>2. CASE next = [job EXCEPT !.at = "issue"]  BY <3>1, <4>2 DEF IsJob
        <4>3. QED  BY <3>2, <4>1, <4>2
      <3>5. QED  BY <1>3, <3>1, <3>3, <3>4 DEF ForTheSame
    <2>3. QED  BY <1>8, <2>1, <2>2 DEF ApplyProject
  <1>9. CASE ApplyIssue(c)
    <2> DEFINE job == [j EXCEPT !.at = "sub", !.issue = Uuid(c), !.made = @ + 1]
    <2>1. ForTheSame(job, j)  BY <1>1 DEF IsJob, ForTheSame
    <2>2. Goes(c, job) \/ Goes(c, AfterTask(j))  BY <1>9 DEF ApplyIssue
    <2> HIDE DEF job
    <2>3. QED  BY <1>1, <1>3, <2>1, <2>2, PlanOfRequest DEF ForTheSame
  <1>10. CASE ApplySubIssue(c)
    <2> DEFINE job == [j EXCEPT !.made = @ + 1]
    <2> DEFINE next == [job EXCEPT !.at = "agent"]
    <2>1. IsJob(job) /\ job.kind = j.kind /\ job.task = j.task  BY <1>1 DEF IsJob
    <2>2. Goes(c, next) \/ Goes(c, AfterTask(job))  BY <1>10 DEF ApplySubIssue
    <2> HIDE DEF job
    <2>3. ForTheSame(next, j)  BY <2>1 DEF IsJob, ForTheSame
    <2> HIDE DEF next
    <2>4. QED  BY <1>3, <2>1, <2>2, <2>3, PlanOfRequest DEF ForTheSame
  <1>11. CASE ApplyTask(c)
    <2> DEFINE next == AfterTask(j)
    <2> DEFINE job  == [next EXCEPT !.task = now]
    <2>1. IsJob(next) /\ next.kind = j.kind  BY <1>1, PlanOfRequest
    <2>2. Goes(c, job) /\ j.kind # "run"  BY <1>11 DEF ApplyTask, At
    <2> HIDE DEF next
    <2>3. job.kind = next.kind  BY <2>1 DEF IsJob
    <2> HIDE DEF job
    <2>4. QED  BY <1>3, <2>1, <2>2, <2>3 DEF ForTheSame
  <1>12. CASE RunTask(c)
    <2>1. PICK g \in Named(DOMAIN goalRows), p \in Named(DOMAIN projectRows) :
            Goes(c, [NoJob EXCEPT !.at = "agent", !.kind = "run", !.task = now, !.goal = g,
                                  !.project = p])
      BY <1>12 DEF RunTask
    <2> DEFINE job == [NoJob EXCEPT !.at = "agent", !.kind = "run", !.task = now, !.goal = g,
                                    !.project = p]
    <2>2. job.task = now  BY DEF NoJob
    <2>3. Goes(c, job)  BY <2>1
    <2> HIDE DEF job
    <2>4. QED  BY <1>1, <2>2, <2>3, RunStays
  <1>13. CASE HangUp(c)
    <2> DEFINE job == [j EXCEPT !.gone = TRUE]
    <2>1. Goes(c, job) /\ ForTheSame(job, j)  BY <1>1, <1>13 DEF HangUp, IsJob, ForTheSame
    <2> HIDE DEF job
    <2>2. QED  BY <1>3, <2>1
  <1>14. QED
    BY <1>4, <1>5, <1>6, <1>7, <1>8, <1>9, <1>10, <1>11, <1>12, <1>13 DEF Serve

\* A step that creates a task with an ID that is a millisecond, or does not.
LEMMA TaskCreated ==
  ASSUME TasksTyped, NEW c, NEW t, t \in Ticks, Dispatch(c, t) \/ NotDispatched(c, t)
  PROVE  /\ DOMAIN taskRows' \subseteq Ticks
         /\ \A x \in DOMAIN taskRows' : taskRows'[x].status \in {"Pending", "Completed", "Failed"}
  <1>1. CASE NotDispatched(c, t)  BY <1>1 DEF NotDispatched, TasksTyped
  <1>2. CASE Dispatch(c, t)
    <2> DEFINE row == TaskRow(caller[c])
    <2>1. row.status = "Pending"  BY DEF TaskRow
    <2>2. taskRows' = Inserted(taskRows, t, row)  BY <1>2 DEF Dispatch, CreateTask
    <2> HIDE DEF row
    <2>3. DOMAIN taskRows' = DOMAIN taskRows \cup {t}
          /\ \A x \in DOMAIN taskRows' :
               taskRows'[x] = row \/ (x \in DOMAIN taskRows /\ taskRows'[x] = taskRows[x])
      BY <2>2 DEF Inserted
    <2>4. QED  BY <2>1, <2>3 DEF TasksTyped
  <1>3. QED  BY <1>1, <1>2

LEMMA TasksTypedStep ==
  ASSUME WorkInv, TreeInv, TasksTyped, [DeskNext]_deskVars PROVE TasksTyped'
  <1>1. CASE UNCHANGED <<now, taskRows, worked, caller>>  BY <1>1 DEF TasksTyped
  <1>2. ASSUME NEW c \in Callers, Serve(c) PROVE TasksTyped'
    <2>1. \A d \in Callers : caller'[d].kind = "run" => caller'[d].task \in Ticks
      BY <1>2, RequestStays
    <2>2. UNCHANGED <<now, worked>>
      BY <1>2 DEF Serve, NewGoal, CreateGoalProject, CreateGoalIssue, CreateGoalTask,
           CreateGoalFinish, ApplyProject, ApplyIssue, ApplySubIssue, ApplyTask, RunTask,
           RunTaskCreate, MakeSureOfAgent, HangUp, Others
    <2>3. CASE UNCHANGED taskRows  BY <2>1, <2>2, <2>3 DEF TasksTyped
    <2>4. CASE CreateGoalTask(c) \/ ApplyTask(c) \/ RunTaskCreate(c)
      <3>1. PICK t \in Ticks : Dispatch(c, t) \/ NotDispatched(c, t)
        BY <2>4 DEF CreateGoalTask, ApplyTask, RunTaskCreate, At, TasksTyped
      <3>2. QED  BY <2>1, <2>2, <3>1, TaskCreated DEF TasksTyped
    <2>5. QED
      BY <1>2, <2>3, <2>4 DEF Serve, NewGoal, CreateGoalProject, CreateGoalIssue,
           CreateGoalFinish, ApplyProject, ApplyIssue, ApplySubIssue, RunTask,
           MakeSureOfAgent, HangUp, NoWork, rows
  <1>3. ASSUME NEW w \in work, Execute(w) PROVE TasksTyped'
    <2>1. PICK s \in {"Completed", "Failed"} : TaskEnds(w, s)  BY <1>3 DEF Execute
    <2>2. UNCHANGED <<now, caller>>  BY <2>1 DEF TaskEnds
    <2>3. w.task \in DOMAIN taskRows  BY DEF WorkInv, Honest
    <2>4. worked' \subseteq Ticks  BY <2>1, <2>3 DEF TaskEnds, TasksTyped
    <2>5. CASE UNCHANGED taskRows  BY <2>2, <2>4, <2>5 DEF TasksTyped
    <2>6. CASE UpdateTask(w.task, [taskRows[w.task] EXCEPT !.status = s])
      <3> DEFINE row == [taskRows[w.task] EXCEPT !.status = s]
      <3>1. row.status = s  BY <2>3 DEF WorkInv, Shapes, IsTaskRow
      <3>2. taskRows' = Updated(taskRows, w.task, row)  BY <2>6 DEF UpdateTask
      <3> HIDE DEF row
      <3>3. /\ DOMAIN taskRows' = DOMAIN taskRows
            /\ \A x \in DOMAIN taskRows : taskRows'[x] = IF x = w.task THEN row ELSE taskRows[x]
        BY <3>2, Update
      <3>4. QED  BY <2>2, <2>4, <3>1, <3>3 DEF TasksTyped
    <2>7. QED  BY <2>1, <2>5, <2>6 DEF TaskEnds
  <1>4. CASE \/ \E w \in work : ReadForCost(w) \/ WriteCompleted(w)
             \/ \E e \in Editors : ReadForEdit(e) \/ WriteEdit(e)
    BY <1>1, <1>4 DEF ReadForCost, WriteCompleted, ReadForEdit, WriteEdit, rows
  <1>5. CASE OtherRequest
    BY <1>1, <1>5 DEF OtherRequest, PutGoal, RemoveGoal, PostProject, RemoveProject, PostIssue,
         RemoveIssue, RemoveAgent, OtherRequestFrame
  <1>6. CASE Tick
    <2>1. now' \in Ticks  BY <1>6, DeskAssumption DEF Tick, TasksTyped, Ticks
    <2>2. QED  BY <1>6, <2>1 DEF Tick, rows, TasksTyped
  <1>7. CASE Crash
    <2>1. UNCHANGED <<now, taskRows, worked>>  BY <1>7 DEF Crash, rows
    <2>2. [NoJob EXCEPT !.at = "done"].kind # "run"  BY DEF NoJob
    <2>3. \A c \in Callers : caller'[c] \in {caller[c], [NoJob EXCEPT !.at = "done"]}
      BY <1>7 DEF Crash
    <2>4. QED  BY <2>1, <2>2, <2>3 DEF TasksTyped
  <1>8. CASE UNCHANGED deskVars  BY <1>1, <1>8 DEF deskVars, rows
  <1>9. QED  BY <1>2, <1>3, <1>4, <1>5, <1>6, <1>7, <1>8 DEF DeskNext

LEMMA RestTypedStep == ASSUME RestTyped, [DeskNext]_deskVars PROVE RestTyped'
  <1>1. UNCHANGED mishaps \/ Mishap
    BY DEF DeskNext, Serve, NewGoal, CreateGoalProject, CreateGoalIssue, CreateGoalTask,
         CreateGoalFinish, ApplyProject, ApplyIssue, ApplySubIssue, ApplyTask, RunTask,
         RunTaskCreate, MakeSureOfAgent, EnsureAgent, HangUp, Dispatch, NotDispatched, Runs,
         Fails, Execute, TaskEnds, ReadForCost, WriteCompleted, ReadForEdit, WriteEdit,
         OtherRequest, PutGoal, RemoveGoal, PostProject, RemoveProject, PostIssue, RemoveIssue,
         RemoveAgent, Tick, Crash, deskVars
  <1>2. mishaps' \in 0 .. MaxMishaps  BY <1>1, DeskAssumption DEF Mishap, RestTyped
  <1>3. UNCHANGED agentRows \/ CreateAgent("coder") \/ \E a : DeleteAgent(a)
    BY DEF DeskNext, Serve, NewGoal, CreateGoalProject, CreateGoalIssue, CreateGoalTask,
         CreateGoalFinish, ApplyProject, ApplyIssue, ApplySubIssue, ApplyTask, RunTask,
         RunTaskCreate, MakeSureOfAgent, EnsureAgent, HangUp, NoWork, Others, rows,
         Execute, TaskEnds, ReadForCost, WriteCompleted, ReadForEdit, WriteEdit,
         OtherRequest, PutGoal, RemoveGoal, PostProject, RemoveProject, PostIssue, RemoveIssue,
         RemoveAgent, Tick, Crash, deskVars
  <1>4. DOMAIN agentRows' \subseteq {"coder"}
    BY <1>3 DEF CreateAgent, DeleteAgent, Inserted, Deleted, Restrict, RestTyped
  <1>5. QED  BY <1>2, <1>4 DEF RestTyped

\* The types of the rows, whatever requests, deletions, mishaps and crashes interleave: rows
\* of goals that handlers write back from a copy have phases, what is deleted or gone on
\* without is a UUID, and a task has a millisecond for ID.
THEOREM DeskTypeCorrect == DeskSpec => []DeskTypeOK
  <1>1. DeskInit => DeskInv
    <2> SUFFICES ASSUME DeskInit PROVE DeskInv  OBVIOUS
    <2>1. /\ DOMAIN goalRows = {} /\ DOMAIN taskRows = {} /\ DOMAIN agentRows = {}
          /\ projectRows = Empty /\ issueRows = Empty /\ lost = {} /\ worked = {}
          /\ mishaps = 0 /\ now = 1
      BY DEF DeskInit, StoreInit, Empty
    <2>2. GoalsTyped  BY <2>1 DEF DeskInit, GoalsTyped, Goals
    <2>3. KeysTyped  BY <2>1 DEF KeysTyped, InUse, Goals, Projects, Issues, IsTable, Empty
    <2>4. TasksTyped
      <3>1. \A c \in Callers : caller[c].kind = "none"  BY DEF DeskInit, NoJob
      <3>2. 1 \in Ticks  BY DeskAssumption DEF Ticks
      <3>3. QED  BY <2>1, <3>1, <3>2 DEF TasksTyped
    <2>5. RestTyped  BY <2>1, DeskAssumption DEF RestTyped
    <2>6. QED  BY <2>2, <2>3, <2>4, <2>5 DEF DeskInv
  <1>2. WorkInv /\ TreeInv /\ DeskInv /\ [DeskNext]_deskVars => DeskInv'
    BY GoalsTypedStep, KeysTypedStep, TasksTypedStep, RestTypedStep DEF DeskInv
  <1>3. WorkInv /\ TreeInv /\ DeskInv => DeskTypeOK
    <2> SUFFICES ASSUME WorkInv, TreeInv, DeskInv PROVE DeskTypeOK  OBVIOUS
    <2>1. \A g \in DOMAIN goalRows :
            g \in UUIDs /\ goalRows[g].phase \in Phases /\ goalRows[g].status \in Phases
      BY DEF DeskInv, GoalsTyped, KeysTyped, InUse, Goals
    <2>2. DOMAIN projectRows \subseteq UUIDs /\ DOMAIN issueRows \subseteq UUIDs /\ lost \subseteq UUIDs
      BY DEF DeskInv, KeysTyped, InUse, Projects, Issues
    <2>3. /\ projectRows \in [DOMAIN projectRows -> UUIDs]
          /\ issueRows \in [DOMAIN issueRows -> UUIDs]
      BY DEF DeskInv, KeysTyped, IsTable, Projects, Issues
    <2>4. runs \in [Ticks -> Nat]  BY DEF WorkInv, RowFirst
    <2>5. QED  BY <2>1, <2>2, <2>3, <2>4 DEF DeskInv, TasksTyped, RestTyped, DeskTypeOK
  <1>4. QED  BY <1>1, <1>2, <1>3, WorkInvariant, TreeInvariant, PTL DEF DeskSpec
=============================================================================
