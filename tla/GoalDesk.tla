------------------------------ MODULE GoalDesk ------------------------------
(***************************************************************************)
(* The handlers of the daemon that create goals, and what belongs to them, *)
(* and run tasks (pkg/server): POST /goals, POST /apply with a Goal, POST  *)
(* /run, and the requests that change the rows meanwhile.  A handler is a  *)
(* sequence of statements, each of its own; its client may hang up, which  *)
(* fails all the statements to come; a statement may find the database     *)
(* busy; the daemon may crash between two.  Task IDs are milliseconds.     *)
(*                                                                         *)
(* An ID that is a UUID is named by who makes it; clients give what they   *)
(* create none of their own.  What it belongs to they do name, and nobody  *)
(* looks whether it is there: a master sends its own IDs with every task.  *)
(* How an agent starts and executes is in AgentLifecycle: here a task      *)
(* ends, well or badly.                                                    *)
(***************************************************************************)
EXTENDS Store, Sequences

CONSTANTS
  Callers,   \* requests that run tasks
  Asks,      \* Asks[c]: what c may ask for
  Editors,   \* requests that read a row and write it back
  Plan,      \* what POST /apply decomposes: the number of tasks of each project, each with
             \* one sub-issue
  LastTick,  \* bound on the clock, in milliseconds
  MaxMishaps \* bound on the statements that find the database busy, the clients who hang
             \* up and the requests of others, together

ASSUME DeskAssumption ==
  /\ Asks \in [Callers -> SUBSET {"create", "plain", "apply", "run"}] /\ {"post", "master"} \cap Callers = {}
  /\ Plan \in Seq(Nat) /\ LastTick \in Nat \ {0} /\ MaxMishaps \in Nat

VARIABLES
  now,
  caller,   \* where a request of Callers is, and the IDs that it has made
  editor,   \* where a request of Editors is, and the row that it has read
  work,     \* the goroutines that execute tasks
  runs,     \* history: how many goroutines have executed a task
  worked,   \* history: the tasks whose execution succeeded
  lost,     \* history: the rows that were deleted, and those that createGoal failed
            \* to insert and went on without
  mishaps

deskVars == <<rows, now, caller, editor, work, runs, worked, lost, mishaps>>

Ticks == 1 .. LastTick
NoID  == <<>>
\* What names nothing here: an ID of another daemon or of a row that never was, or none.
ForeignID == <<"master", 1>>
NoJob == [at |-> "new", kind |-> "none", gone |-> FALSE, made |-> 0, goal |-> NoID,
          project |-> NoID, issue |-> NoID, task |-> 0, left |-> <<>>]

DeskInit ==
  /\ StoreInit /\ now = 1
  /\ caller = [c \in Callers |-> NoJob]
  /\ editor = [e \in Editors |-> [at |-> "new", goal |-> NoID, row |-> "none"]]
  /\ work = {} /\ runs = [t \in Ticks |-> 0] /\ worked = {} /\ lost = {}
  /\ mishaps = 0

-----------------------------------------------------------------------------
At(c, kind, l) == caller[c].at = l /\ caller[c].kind = kind

\* The handler goes on as job; one that has answered is done.
Goes(c, job) ==
  caller' = [caller EXCEPT ![c] = IF job.at = "done" THEN [NoJob EXCEPT !.at = "done"] ELSE job]
Moves(c, l) == Goes(c, [caller[c] EXCEPT !.at = l])

\* The next UUID of c.
Uuid(c) == <<c, caller[c].made + 1>>

\* A statement of c may run, or it fails: the client has hung up, which ends the context
\* of the request, or the database stays busy.
Mishap   == mishaps < MaxMishaps /\ mishaps' = mishaps + 1
Runs(c)  == ~caller[c].gone /\ UNCHANGED mishaps
Fails(c) ==
  IF caller[c].gone THEN UNCHANGED mishaps ELSE Mishap

\* The row of the agent is there when ensureAgent is done, unless a statement fails.
EnsureAgent(c) ==
  \/ Runs(c) /\ "coder" \in DOMAIN agentRows /\ UNCHANGED agentRows
  \/ Runs(c) /\ CreateAgent("coder")
  \/ Fails(c) /\ UNCHANGED agentRows

TaskRow(job) == [goal |-> job.goal, project |-> job.project, issue |-> job.issue, status |-> "Pending"]

\* CreateTask and, when it succeeds, the goroutine.
Dispatch(c, t) ==
  /\ Runs(c) /\ CreateTask(t, TaskRow(caller[c]))
  /\ work' = work \cup {[task |-> t, kind |-> caller[c].kind, goal |-> caller[c].goal, at |-> "run"]}
  /\ runs' = [runs EXCEPT ![t] = @ + 1]

NotDispatched(c, t) ==
  /\ (Runs(c) /\ t \in DOMAIN taskRows) \/ Fails(c)
  /\ UNCHANGED <<taskRows, work, runs>>

\* What the handler of a caller leaves alone, and one that has no work to give as well.
Others == UNCHANGED <<now, editor, worked>>
NoWork == UNCHANGED <<taskRows, work, runs>>

-----------------------------------------------------------------------------
\* POST /goals and POST /apply begin with the goal; without it they end.  A goal of
\* POST /goals that is not to be decomposed is done with that.
NewGoal(c) ==
  /\ caller[c].at = "new"
  /\ \/ /\ Runs(c) /\ CreateGoal(Uuid(c))
        /\ \E kind \in Asks[c] \ {"run"} :
             Goes(c, [NoJob EXCEPT !.at = IF kind = "plain" \/ (kind = "apply" /\ Plan = <<>>)
                                            THEN "done" ELSE "project",
                                   !.kind = kind, !.goal = Uuid(c), !.made = 1,
                                   !.left = IF kind = "apply" THEN Plan ELSE <<>>])
     \/ /\ Asks[c] # {"run"} /\ Fails(c)
        /\ UNCHANGED goalRows /\ Moves(c, "done")
  /\ UNCHANGED <<agentRows, projectRows, issueRows, lost>> /\ NoWork /\ Others

\* createGoal with autoDecompose: a project, an issue, an agent and a task, whether the
\* statements succeed or not.
CreateGoalProject(c) ==
  /\ At(c, "create", "project")
  /\ \/ Runs(c) /\ CreateProject(Uuid(c), caller[c].goal) /\ UNCHANGED lost
     \/ Fails(c) /\ UNCHANGED projectRows /\ lost' = lost \cup {Uuid(c)}
  /\ Goes(c, [caller[c] EXCEPT !.at = "issue", !.project = Uuid(c), !.made = @ + 1])
  /\ UNCHANGED <<agentRows, goalRows, issueRows>> /\ NoWork /\ Others

CreateGoalIssue(c) ==
  /\ At(c, "create", "issue")
  /\ \/ Runs(c) /\ CreateIssue(Uuid(c), caller[c].project) /\ UNCHANGED lost
     \/ Fails(c) /\ UNCHANGED issueRows /\ lost' = lost \cup {Uuid(c)}
  /\ Goes(c, [caller[c] EXCEPT !.at = "agent", !.issue = Uuid(c), !.made = @ + 1])
  /\ UNCHANGED <<agentRows, goalRows, projectRows>> /\ NoWork /\ Others

CreateGoalTask(c) ==
  /\ At(c, "create", "task") /\ Moves(c, "finish")
  /\ Dispatch(c, now) \/ NotDispatched(c, now)
  /\ UNCHANGED <<agentRows, goalRows, projectRows, issueRows, lost>> /\ Others

\* The last statement writes the whole row, as the handler knows it.
CreateGoalFinish(c) ==
  /\ At(c, "create", "finish") /\ Moves(c, "done")
  /\ \/ Runs(c) /\ UpdateGoal(caller[c].goal, [phase |-> "in_progress", status |-> "in_progress"])
     \/ Fails(c) /\ UNCHANGED goalRows
  /\ UNCHANGED <<agentRows, projectRows, issueRows, lost>> /\ NoWork /\ Others

-----------------------------------------------------------------------------
\* applyResource goes through the plan.  Done with a task, or with a project, it has the
\* rest of the plan before it.
AfterProject(job) ==
  [job EXCEPT !.left = Tail(@), !.at = IF Len(job.left) > 1 THEN "project" ELSE "done"]
AfterTask(job) ==
  IF Head(job.left) > 1 THEN [job EXCEPT !.left = <<Head(@) - 1>> \o Tail(@), !.at = "issue"]
  ELSE AfterProject(job)
\* The project that c has created may have no tasks.
WithProject(c) ==
  LET job == [caller[c] EXCEPT !.project = Uuid(c), !.made = @ + 1] IN
  IF Head(job.left) > 0 THEN [job EXCEPT !.at = "issue"] ELSE AfterProject(job)

\* As the mutant has it, the tasks of a project that failed are not skipped.
ApplyProjectAnyway(c) ==
  /\ At(c, "apply", "project")
  /\ \/ Runs(c) /\ CreateProject(Uuid(c), caller[c].goal)
     \/ Fails(c) /\ UNCHANGED projectRows
  /\ Goes(c, WithProject(c))
  /\ UNCHANGED <<agentRows, goalRows, issueRows, lost>> /\ NoWork /\ Others

ApplyProject(c) ==
  /\ At(c, "apply", "project")
  /\ \/ /\ Runs(c) /\ CreateProject(Uuid(c), caller[c].goal)
        /\ Goes(c, WithProject(c))
     \/ Fails(c) /\ UNCHANGED projectRows /\ Goes(c, AfterProject(caller[c]))
  /\ UNCHANGED <<agentRows, goalRows, issueRows, lost>> /\ NoWork /\ Others

ApplyIssue(c) ==
  /\ At(c, "apply", "issue")
  /\ \/ /\ Runs(c) /\ CreateIssue(Uuid(c), caller[c].project)
        /\ Goes(c, [caller[c] EXCEPT !.at = "sub", !.issue = Uuid(c), !.made = @ + 1])
     \/ Fails(c) /\ UNCHANGED issueRows /\ Goes(c, AfterTask(caller[c]))
  /\ UNCHANGED <<agentRows, goalRows, projectRows, lost>> /\ NoWork /\ Others

\* A task that names no agent is not dispatched.
ApplySubIssue(c) ==
  /\ At(c, "apply", "sub")
  /\ \/ Runs(c) /\ CreateIssue(Uuid(c), caller[c].project)
     \/ Fails(c) /\ UNCHANGED issueRows
  /\ LET job == [caller[c] EXCEPT !.made = @ + 1] IN
       \/ Goes(c, [job EXCEPT !.at = "agent"])
       \/ Goes(c, AfterTask(job))
  /\ UNCHANGED <<agentRows, goalRows, projectRows, lost>> /\ NoWork /\ Others

\* After the task the handler sleeps for a millisecond.
ApplyTask(c) ==
  /\ At(c, "apply", "task") /\ now > caller[c].task
  /\ Dispatch(c, now) \/ NotDispatched(c, now)
  /\ Goes(c, [AfterTask(caller[c]) EXCEPT !.task = now])
  /\ UNCHANGED <<agentRows, goalRows, projectRows, issueRows, lost>> /\ Others

-----------------------------------------------------------------------------
\* What a client may name as the goal, or the project, of what it creates.
Named(ids) == ids \cup {ForeignID}

\* POST /run makes its ID before it makes sure of the agent.
RunTask(c) ==
  /\ caller[c].at = "new" /\ "run" \in Asks[c]
  /\ \E g \in Named(DOMAIN goalRows), p \in Named(DOMAIN projectRows) :
       Goes(c, [NoJob EXCEPT !.at = "agent", !.kind = "run", !.task = now, !.goal = g, !.project = p])
  /\ UNCHANGED <<agentRows, goalRows, projectRows, issueRows, lost, mishaps>> /\ NoWork /\ Others

\* The mutant starts the goroutine although the ID is taken.
RunTaskAnyway(c) ==
  /\ At(c, "run", "task") /\ Moves(c, "done")
  /\ \/ Dispatch(c, caller[c].task)
     \/ /\ Runs(c) /\ caller[c].task \in DOMAIN taskRows
        /\ runs' = [runs EXCEPT ![caller[c].task] = @ + 1]
        /\ UNCHANGED <<taskRows, work>>
  /\ UNCHANGED <<agentRows, goalRows, projectRows, issueRows, lost>> /\ Others

RunTaskCreate(c) ==
  /\ At(c, "run", "task") /\ Moves(c, "done")
  /\ Dispatch(c, caller[c].task) \/ NotDispatched(c, caller[c].task)
  /\ UNCHANGED <<agentRows, goalRows, projectRows, issueRows, lost>> /\ Others

\* All three make sure of the agent before the task.
MakeSureOfAgent(c) ==
  /\ caller[c].at = "agent" /\ EnsureAgent(c) /\ Moves(c, "task")
  /\ UNCHANGED <<goalRows, projectRows, issueRows, lost>> /\ NoWork /\ Others

HangUp(c) ==
  /\ caller[c].at \notin {"new", "done"} /\ ~caller[c].gone
  /\ Mishap /\ Goes(c, [caller[c] EXCEPT !.gone = TRUE])
  /\ UNCHANGED <<rows, now, editor, work, runs, worked, lost>>

-----------------------------------------------------------------------------
\* ExecuteTask in the goroutine: the row of the task ends as the execution did, unless
\* the database is busy, which is only logged.
TaskEnds(w, s) ==
  /\ \/ UpdateTask(w.task, [taskRows[w.task] EXCEPT !.status = s]) /\ UNCHANGED mishaps
     \/ Mishap /\ UNCHANGED taskRows
  /\ worked' = IF s = "Completed" THEN worked \cup {w.task} ELSE worked
  /\ UNCHANGED <<agentRows, goalRows, projectRows, issueRows, now, caller, editor,
                 runs, lost>>

\* Only createGoal does something with the result.
Execute(w) ==
  /\ w.at = "run"
  /\ \E s \in {"Completed", "Failed"} :
       /\ TaskEnds(w, s)
       /\ work' = (work \ {w}) \cup
            (IF w.kind = "create" /\ s = "Completed" THEN {[w EXCEPT !.at = "read"]} ELSE {})

\* It reads the goal, and writes it back completed.  A goal that is gone, or that cannot
\* be read, is a record without an ID, which updates no row.
ReadForCost(w) ==
  /\ w.at = "read"
  /\ \/ work' = (work \ {w}) \cup
          (IF w.goal \in DOMAIN goalRows THEN {[w EXCEPT !.at = "write"]} ELSE {})
        /\ UNCHANGED mishaps
     \/ Mishap /\ work' = work \ {w}
  /\ UNCHANGED <<rows, now, caller, editor, runs, worked, lost>>

WriteCompleted(w) ==
  /\ w.at = "write" /\ work' = work \ {w}
  /\ \/ UpdateGoal(w.goal, [phase |-> "completed", status |-> "completed"]) /\ UNCHANGED mishaps
     \/ Mishap /\ UNCHANGED goalRows
  /\ UNCHANGED <<agentRows, taskRows, projectRows, issueRows, now, caller, editor,
                 runs, worked, lost>>

-----------------------------------------------------------------------------
NoEdit == [at |-> "done", goal |-> NoID, row |-> "none"]

\* Approve and revise read the row of a goal ...
ReadForEdit(e) ==
  /\ editor[e].at = "new"
  /\ \E g \in DOMAIN goalRows, edit \in {"approve", "revise"} :
       /\ edit = "approve" => goalRows[g].phase = "planned"
       /\ editor' = [editor EXCEPT ![e] = [at |-> edit, goal |-> g, row |-> goalRows[g]]]
  /\ UNCHANGED <<rows, now, caller, work, runs, worked, lost, mishaps>>

\* ... and write it, whatever it has become.
WriteEdit(e) ==
  /\ \/ /\ editor[e].at = "approve"
        /\ UpdateGoal(editor[e].goal, [phase |-> "approved", status |-> "approved"])
     \/ /\ editor[e].at = "revise"
        /\ UpdateGoal(editor[e].goal, [editor[e].row EXCEPT !.phase = "planned"])
  /\ editor' = [editor EXCEPT ![e] = NoEdit]
  /\ UNCHANGED <<agentRows, taskRows, projectRows, issueRows, now, caller,
                 work, runs, worked, lost, mishaps>>

\* The other requests are one statement.  None of them says of a goal that it is completed.
OtherRequestFrame == UNCHANGED <<now, caller, editor, work, runs, worked>>

PutGoal ==
  /\ Mishap
  /\ \E g \in DOMAIN goalRows, s \in {"active", "in_progress"} :
       UpdateGoal(g, [phase |-> "", status |-> s])
  /\ UNCHANGED <<agentRows, taskRows, projectRows, issueRows, lost>>
  /\ OtherRequestFrame

RemoveGoal ==
  /\ Mishap
  /\ \E g \in DOMAIN goalRows : DeleteGoal(g) /\ lost' = lost \cup {g}
  /\ UNCHANGED <<agentRows, taskRows, projectRows, issueRows>>
  /\ OtherRequestFrame

PostProject ==
  /\ Mishap
  /\ \E g \in Named(DOMAIN goalRows) : CreateProject(<<"post", mishaps>>, g)
  /\ UNCHANGED <<agentRows, taskRows, goalRows, issueRows, lost>>
  /\ OtherRequestFrame

RemoveProject ==
  /\ Mishap
  /\ \E p \in DOMAIN projectRows : DeleteProject(p) /\ lost' = lost \cup {p}
  /\ UNCHANGED <<agentRows, taskRows, goalRows, issueRows>>
  /\ OtherRequestFrame

PostIssue ==
  /\ Mishap
  /\ \E p \in Named(DOMAIN projectRows) : CreateIssue(<<"post", mishaps>>, p)
  /\ UNCHANGED <<agentRows, taskRows, goalRows, projectRows, lost>>
  /\ OtherRequestFrame

RemoveIssue ==
  /\ Mishap
  /\ \E i \in DOMAIN issueRows : DeleteIssue(i) /\ lost' = lost \cup {i}
  /\ UNCHANGED <<agentRows, taskRows, goalRows, projectRows>>
  /\ OtherRequestFrame

RemoveAgent ==
  /\ Mishap /\ \E a \in DOMAIN agentRows : DeleteAgent(a)
  /\ UNCHANGED <<taskRows, goalRows, projectRows, issueRows, lost>>
  /\ OtherRequestFrame

-----------------------------------------------------------------------------
Tick ==
  /\ now < LastTick /\ now' = now + 1
  /\ UNCHANGED <<rows, caller, editor, work, runs, worked, lost, mishaps>>

\* The rows are what a crash leaves.  Nothing takes up the work again.
Crash ==
  /\ caller' = [c \in Callers |-> IF caller[c].at = "new" THEN caller[c]
                                                           ELSE [NoJob EXCEPT !.at = "done"]]
  /\ editor' = [e \in Editors |-> IF editor[e].at = "new" THEN editor[e] ELSE NoEdit]
  /\ work' = {}
  /\ UNCHANGED <<rows, now, runs, worked, lost, mishaps>>

Serve(c) ==
  \/ NewGoal(c)
  \/ CreateGoalProject(c) \/ CreateGoalIssue(c) \/ CreateGoalTask(c) \/ CreateGoalFinish(c)
  \/ ApplyProject(c) \/ ApplyIssue(c) \/ ApplySubIssue(c) \/ ApplyTask(c)
  \/ RunTask(c) \/ RunTaskCreate(c)
  \/ MakeSureOfAgent(c) \/ HangUp(c)

OtherRequest ==
  \/ PutGoal \/ RemoveGoal \/ PostProject \/ RemoveProject \/ PostIssue \/ RemoveIssue \/ RemoveAgent

DeskNext ==
  \/ \E c \in Callers : Serve(c)
  \/ \E w \in work : Execute(w) \/ ReadForCost(w) \/ WriteCompleted(w)
  \/ \E e \in Editors : ReadForEdit(e) \/ WriteEdit(e)
  \/ OtherRequest \/ Tick \/ Crash

DeskSpec == DeskInit /\ [][DeskNext]_deskVars

-----------------------------------------------------------------------------
Phases == {"", "active", "in_progress", "planned", "approved", "completed"}

UUIDs == (Callers \cup {"post", "master"}) \X Nat

DeskTypeOK ==
  /\ \A g \in DOMAIN goalRows :
       g \in UUIDs /\ goalRows[g].phase \in Phases /\ goalRows[g].status \in Phases
  /\ projectRows \in [DOMAIN projectRows -> UUIDs] /\ DOMAIN projectRows \subseteq UUIDs
  /\ issueRows \in [DOMAIN issueRows -> UUIDs] /\ DOMAIN issueRows \subseteq UUIDs
  /\ DOMAIN taskRows \subseteq Ticks /\ now \in Ticks
  /\ \A t \in DOMAIN taskRows : taskRows[t].status \in {"Pending", "Completed", "Failed"}
  /\ DOMAIN agentRows \subseteq {"coder"}
  /\ runs \in [Ticks -> Nat] /\ worked \subseteq Ticks /\ lost \subseteq UUIDs
  /\ mishaps \in 0 .. MaxMishaps

\* What POST /goals and POST /apply create refers to what is there, unless it was
\* deleted, or createGoal went on without it: a client that hangs up, a database that is
\* busy and a crash between any two statements of POST /apply leave no project of its
\* goal without the goal, no issue without its project, no task without its issue,
\* project and goal.  No write of a whole row brings one back that was deleted.  Of the
\* rows of POST /run, /projects and /issues nothing is said: they name what the client named.
TreeIsConnected ==
  /\ lost \cap (DOMAIN goalRows \cup DOMAIN projectRows \cup DOMAIN issueRows) = {}
  /\ \A p \in DOMAIN projectRows : p[1] \in Callers => projectRows[p] \in DOMAIN goalRows \cup lost
  /\ \A i \in DOMAIN issueRows : i[1] \in Callers => issueRows[i] \in DOMAIN projectRows \cup lost
  /\ \A t \in DOMAIN taskRows : taskRows[t].issue # NoID =>
       /\ taskRows[t].issue \in DOMAIN issueRows \cup lost
       /\ taskRows[t].project \in DOMAIN projectRows \cup lost
       /\ taskRows[t].goal \in DOMAIN goalRows \cup lost

\* A task is executed at most once, although its ID is a millisecond and two requests
\* may have the same: the second INSERT fails, and with it the second goroutine.
TaskRunsOnce == \A t \in Ticks : runs[t] <= 1

\* A goal that is completed has a task whose execution succeeded, though its row may say
\* otherwise: neither the whole rows that handlers write back, from copies read
\* earlier, nor a task that failed complete it.
CompletedGoalRan ==
  \A g \in DOMAIN goalRows : goalRows[g].status = "completed" =>
    \E t \in DOMAIN taskRows : taskRows[t].goal = g /\ t \in worked

\* Both: no work is done twice, and none is reported that was not done.
WorkIsReal == TaskRunsOnce /\ CompletedGoalRan
=============================================================================
