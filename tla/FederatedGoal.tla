--------------------------- MODULE FederatedGoal ---------------------------
(***************************************************************************)
(* One federated goal from the request to its verdict: pkg/server/server.go*)
(* (createFederatedGoal, dispatchProjectLayer, advanceFederatedGoal and    *)
(* their persistence) with the companies that execute the projects.        *)
(*                                                                         *)
(* Two kinds of goroutines of the master touch the run.  The request       *)
(* handler publishes it, persists it and dispatches the first layer        *)
(* WITHOUT federatedGoalRunsMu; a callback handler does everything under   *)
(* that mutex, so there is at most one (adv names its next step) and the   *)
(* others wait as members of callbacks.  Steps are cut where the other     *)
(* goroutine or a crash of the daemon can come between them; a send and    *)
(* its answer are one step only under the mutex, where no callback can     *)
(* overtake the answer.  Goals share nothing but the mutex: one is enough. *)
(***************************************************************************)
EXTENDS ProjectDag

CONSTANTS
  Projects,           \* names of the projects of the request
  Requests,           \* dependency functions a request may carry
  DispatchOutcomes,   \* what POST /api/run to a company may do, see below
  TaskOutcomes,       \* how a remote task may end
  Verdicts,           \* what AssessResult may answer
  AckBeforeCallback,  \* no callback arrives before the request handler ends
  MaxCrashes,         \* crashes of the master daemon
  MaxDbFaults,        \* database writes that fail (the code logs and goes on)
  MaxLost,            \* remote tasks whose callback never arrives
  None                \* no project

\* "refused": company unknown, not Online, or the request did not reach it.
\* "sent": the company has created the task and said so.
\* "timeout": the company has created the task and the answer was lost.
AllDispatchOutcomes == {"sent", "refused", "timeout"}

\* Outcomes of an assessment.  "unlisted" is a category the LLM made up;
\* "verified_empty" an empty output accepted from a verification task.  An
\* unsatisfied answer of category "satisfied" behaves as "quality_issue".
AllVerdicts == {"satisfied", "verified_empty", "empty_result",
                "execution_error", "quality_issue", "unlisted"}

Outcome == {"completed", "failed"}
Status == {"Pending", "Running", "Completed", "Failed"}

ASSUME RequestsAssumption == Requests \subseteq [Projects -> SUBSET Projects]
ASSUME OutcomesAssumption ==
  /\ DispatchOutcomes \subseteq AllDispatchOutcomes
  /\ TaskOutcomes \subseteq Outcome
  /\ Verdicts \subseteq AllVerdicts
ASSUME BoundsAssumption ==
  /\ MaxCrashes \in Nat /\ MaxDbFaults \in Nat /\ MaxLost \in Nat
  /\ AckBeforeCallback \in BOOLEAN
ASSUME NoneAssumption == None \notin Projects

VARIABLES
  deps,        \* the request: Dependencies of every project
  up,          \* the master daemon runs
  create,      \* next step of the request handler
  createTodo,  \* projects the request handler has still to persist, to send
  sending,     \* project whose POST the request handler waits for
  loaded,      \* the run is in federatedGoalRuns
  known,       \* names in run.Projects
  proj,        \* run.Projects: status, round, whether Result is non-empty
  results,     \* names with a non-empty entry in run.Results
  runStatus,   \* run.Status
  adv,         \* next step of the callback handler that holds the mutex
  advProj,     \* the project its callback is about
  advTodo,     \* projects it has still to cascade to, or to dispatch
  tasks,       \* tasks[p]: tasks for p that companies are executing
  callbacks,   \* callbacks[p][o]: callbacks the master has received
  dbRun,       \* status in table federated_goal_runs
  dbResults,   \* its results_json
  dbRows,      \* projects with a row in federated_goal_projects
  dbProj,      \* those rows
  goalRow,     \* status in table goals
  sends,       \* history: first-message dispatches of each project
  followUps,   \* history: follow-up dispatches of each project
  accepted,    \* history: projects whose result was accepted
  crashes, dbFaults, lost   \* what has been used of the bounds

reqVars == <<deps, create, createTodo, sending>>
memVars == <<loaded, known, proj, results, runStatus>>
advVars == <<adv, advProj, advTodo>>
netVars == <<tasks, callbacks>>
dbVars  == <<dbRun, dbResults, dbRows, dbProj, goalRow>>
history == <<sends, followUps, accepted>>
vars == <<reqVars, up, memVars, advVars, netVars, dbVars, history,
          crashes, dbFaults, lost>>

-----------------------------------------------------------------------------
MaxRounds == 3   \* Project.MaxRounds is never set: the default applies

MaxRetries(v) ==
  CASE v = "empty_result"    -> 1
    [] v = "execution_error" -> 2
    [] v = "quality_issue"   -> 3
    [] OTHER                 -> 0

Satisfied(v) == v \in {"satisfied", "verified_empty"}
HasOutput(v) == v \notin {"empty_result", "verified_empty"}

\* The bound on Round below which an unsatisfying result is sent back.
EffectiveMaxRounds(v) ==
  IF MaxRetries(v) < MaxRounds THEN MaxRetries(v) ELSE MaxRounds

Wanting(v, round) == ~Satisfied(v) /\ round < EffectiveMaxRounds(v)

Fresh == [status |-> "Pending", round |-> 0, output |-> FALSE]

NoCallbacks == [p \in Projects |-> [o \in Outcome |-> 0]]

\* proj with project p set to status s
Mark(p, s) == [proj EXCEPT ![p].status = s]

\* A failing write is logged and otherwise ignored.
DbFault == dbFaults < MaxDbFaults /\ dbFaults' = dbFaults + 1

\* Mutant of SyncProject: an UPDATE without the round column.
SyncWithoutRound(p) ==
  /\ dbProj' = IF p \in dbRows
                 THEN [dbProj EXCEPT ![p] = [proj'[p] EXCEPT !.round = dbProj[p].round]]
                 ELSE dbProj
  /\ UNCHANGED dbFaults

\* Mutant of SyncProject: the row is written before the assignment.
SyncEarly(p) ==
  /\ dbProj' = IF p \in dbRows THEN [dbProj EXCEPT ![p] = proj[p]] ELSE dbProj
  /\ UNCHANGED dbFaults

\* syncFederatedGoalProject: an UPDATE, without effect when the row is missing.
SyncProject(p) ==
  \/ /\ dbProj' = IF p \in dbRows THEN [dbProj EXCEPT ![p] = proj'[p]] ELSE dbProj
     /\ UNCHANGED dbFaults
  \/ DbFault /\ UNCHANGED dbProj

\* SaveFederatedGoalRun: INSERT OR REPLACE of the run's row.
SaveRun(status, outputs) ==
  \/ dbRun' = status /\ dbResults' = outputs /\ UNCHANGED dbFaults
  \/ DbFault /\ UNCHANGED <<dbRun, dbResults>>

SaveGoal(status) ==
  \/ goalRow' = status /\ UNCHANGED dbFaults
  \/ DbFault /\ UNCHANGED goalRow

Init ==
  /\ deps \in Requests
  /\ up = TRUE
  /\ create = "request" /\ createTodo = {} /\ sending = None
  /\ loaded = FALSE /\ known = {} /\ proj = [p \in Projects |-> Fresh]
  /\ results = {} /\ runStatus = "InProgress"
  /\ adv = "idle" /\ advProj = None /\ advTodo = {}
  /\ tasks = [p \in Projects |-> 0] /\ callbacks = NoCallbacks
  /\ dbRun = "absent" /\ dbResults = {} /\ dbRows = {}
  /\ dbProj = [p \in Projects |-> Fresh] /\ goalRow = "absent"
  /\ sends = [p \in Projects |-> 0] /\ followUps = [p \in Projects |-> 0]
  /\ accepted = {}
  /\ crashes = 0 /\ dbFaults = 0 /\ lost = 0

-----------------------------------------------------------------------------
(* The request handler.                                                    *)

\* Validation of the request and the row in table goals.
CreateGoal ==
  /\ up /\ create = "request"
  /\ IF ValidateProjectDAG(deps)
       THEN create' = "publish" /\ SaveGoal("in_progress")
       ELSE create' = "rejected" /\ UNCHANGED <<goalRow, dbFaults>>
  /\ UNCHANGED <<deps, createTodo, sending, up, memVars, advVars, netVars, dbRun,
                 dbResults, dbRows, dbProj, history, crashes, lost>>

\* The run becomes visible to callbacks, then its row is written.
PublishRun ==
  /\ up /\ create = "publish"
  /\ loaded' = TRUE /\ known' = Projects
  /\ proj' = [p \in Projects |-> Fresh]
  /\ results' = {} /\ runStatus' = "InProgress"
  /\ SaveRun("InProgress", {})
  /\ create' = "persist" /\ createTodo' = Projects
  /\ UNCHANGED <<deps, sending, up, advVars, netVars, dbRows, dbProj, goalRow,
                 history, crashes, lost>>

\* One INSERT OR REPLACE of persistFederatedGoalRun; after the last one the
\* handler goes on with the first layer.
PersistProject(p) ==
  /\ up /\ create = "persist" /\ p \in createTodo
  /\ \/ /\ dbRows' = dbRows \cup {p}
        /\ dbProj' = [dbProj EXCEPT ![p] = proj[p]]
        /\ UNCHANGED dbFaults
     \/ DbFault /\ UNCHANGED <<dbRows, dbProj>>
  /\ IF createTodo = {p}
       THEN create' = "dispatch" /\ createTodo' = FirstLayer(deps)
       ELSE UNCHANGED create /\ createTodo' = createTodo \ {p}
  /\ UNCHANGED <<deps, sending, up, memVars, advVars, netVars, dbRun, dbResults,
                 goalRow, history, crashes, lost>>

\* Where the request handler stands when it has dealt with p.
AfterFirst(p) == IF createTodo \subseteq {p} THEN "done" ELSE "dispatch"

\* A project of the first layer cannot be sent.
RefuseFirst(p) ==
  /\ up /\ create = "dispatch" /\ p \in createTodo
  /\ "refused" \in DispatchOutcomes
  /\ proj' = Mark(p, "Failed")
  /\ create' = AfterFirst(p) /\ createTodo' = createTodo \ {p}
  /\ UNCHANGED <<deps, sending, up, loaded, known, results, runStatus, advVars,
                 netVars, dbVars, history, crashes, dbFaults, lost>>

\* The company has the task; the handler waits for the answer.
SendFirst(p) ==
  /\ up /\ create = "dispatch" /\ p \in createTodo
  /\ DispatchOutcomes \cap {"sent", "timeout"} # {}
  /\ tasks' = [tasks EXCEPT ![p] = @ + 1]
  /\ sends' = [sends EXCEPT ![p] = @ + 1]
  /\ create' = "ack" /\ sending' = p
  /\ UNCHANGED <<deps, createTodo, up, memVars, advVars, callbacks, dbVars,
                 followUps, accepted, crashes, dbFaults, lost>>

\* The answer, or the timeout of the client: the status is assigned, without
\* the mutex and whatever a callback has made of it since.
FirstAnswered(p) ==
  /\ up /\ create = "ack" /\ sending = p
  /\ \/ "sent" \in DispatchOutcomes /\ proj' = Mark(p, "Running")
     \/ "timeout" \in DispatchOutcomes /\ proj' = Mark(p, "Failed")
  /\ create' = AfterFirst(p) /\ createTodo' = createTodo \ {p}
  /\ sending' = None
  /\ UNCHANGED <<deps, up, loaded, known, results, runStatus, advVars, netVars,
                 dbVars, history, crashes, dbFaults, lost>>

-----------------------------------------------------------------------------
(* The companies: runTask executes a task and posts one callback.          *)

RemoteFinish(p, o) ==
  /\ o \in TaskOutcomes /\ tasks[p] > 0
  /\ AckBeforeCallback => create \notin {"dispatch", "ack"}
  /\ tasks' = [tasks EXCEPT ![p] = @ - 1]
  /\ callbacks' = IF up THEN [callbacks EXCEPT ![p][o] = @ + 1] ELSE callbacks
  /\ UNCHANGED <<reqVars, up, memVars, advVars, dbVars, history, crashes,
                 dbFaults, lost>>

\* The company crashes, or its single POST of the callback fails.
RemoteLost(p) ==
  /\ lost < MaxLost /\ tasks[p] > 0
  /\ lost' = lost + 1
  /\ tasks' = [tasks EXCEPT ![p] = @ - 1]
  /\ UNCHANGED <<reqVars, up, memVars, advVars, callbacks, dbVars, history,
                 crashes, dbFaults>>

-----------------------------------------------------------------------------
(* The callback handler: advanceFederatedGoal.                             *)

\* The mutex is free and a waiting callback gets it.
TakeCallback(p, o) ==
  /\ up /\ adv = "idle" /\ callbacks[p][o] > 0
  /\ callbacks' = [callbacks EXCEPT ![p][o] = @ - 1]

\* No such run, or no such project in it.
IgnoreCallback(p, o) ==
  /\ TakeCallback(p, o)
  /\ ~(loaded /\ p \in known)
  /\ UNCHANGED <<reqVars, up, memVars, advVars, tasks, dbVars, history, crashes,
                 dbFaults, lost>>

\* Mutant of Dependents: a failure is not cascaded.
NoDependents(p) == {}

\* The pending projects that depend on p directly.
Dependents(p) == {q \in known : p \in deps[q] /\ proj[q].status = "Pending"}

ProjectFailed(p) ==
  /\ TakeCallback(p, "failed")
  /\ loaded /\ p \in known
  /\ proj' = [proj EXCEPT ![p].status = "Failed", ![p].output = TRUE]
  /\ SyncProject(p)
  /\ adv' = "cascade" /\ advTodo' = Dependents(p)
  /\ UNCHANGED <<reqVars, up, loaded, known, results, runStatus, advProj, tasks,
                 dbRun, dbResults, dbRows, goalRow, history, crashes, lost>>

CascadeFailure(q) ==
  /\ up /\ adv = "cascade" /\ q \in advTodo
  /\ proj' = [proj EXCEPT ![q].status = "Failed", ![q].output = TRUE]
  /\ SyncProject(q)
  /\ advTodo' = advTodo \ {q}
  /\ UNCHANGED <<reqVars, up, loaded, known, results, runStatus, adv, advProj,
                 netVars, dbRun, dbResults, dbRows, goalRow, history, crashes, lost>>

\* Round is incremented before the (slow) assessment and not yet persisted.
ProjectCompleted(p) ==
  /\ TakeCallback(p, "completed")
  /\ loaded /\ p \in known
  /\ proj' = [proj EXCEPT ![p].round = @ + 1]
  /\ adv' = "assess" /\ advProj' = p
  /\ UNCHANGED <<reqVars, up, loaded, known, results, runStatus, advTodo, tasks,
                 dbVars, history, crashes, dbFaults, lost>>

\* Not satisfied and rounds left: the round is persisted, a follow-up is due.
RejectResult(p, v) ==
  /\ up /\ adv = "assess" /\ advProj = p
  /\ Wanting(v, proj[p].round)
  /\ proj' = [proj EXCEPT ![p].status = "Running", ![p].output = HasOutput(v)]
  /\ SyncProject(p)
  /\ adv' = "followup"
  /\ UNCHANGED <<reqVars, up, loaded, known, results, runStatus, advProj, advTodo,
                 netVars, dbRun, dbResults, dbRows, goalRow, history, crashes, lost>>

\* Satisfied, or accepted because no round is left.
AcceptResult(p, v) ==
  /\ up /\ adv = "assess" /\ advProj = p
  /\ ~Wanting(v, proj[p].round)
  /\ proj' = [proj EXCEPT ![p].status = "Completed", ![p].output = HasOutput(v)]
  /\ results' = IF HasOutput(v) THEN results \cup {p} ELSE results \ {p}
  /\ SyncProject(p)
  /\ accepted' = accepted \cup {p}
  /\ adv' = "scan" /\ advProj' = None
  /\ UNCHANGED <<reqVars, up, loaded, known, runStatus, advTodo, netVars, dbRun,
                 dbResults, dbRows, goalRow, sends, followUps, crashes, lost>>

\* The follow-up is on its way: the handler returns and waits for a callback.
SendFollowUp(p) ==
  /\ up /\ adv = "followup" /\ advProj = p
  /\ "sent" \in DispatchOutcomes
  /\ tasks' = [tasks EXCEPT ![p] = @ + 1]
  /\ followUps' = [followUps EXCEPT ![p] = @ + 1]
  /\ adv' = "idle" /\ advProj' = None
  /\ UNCHANGED <<reqVars, up, memVars, advTodo, callbacks, dbVars, sends, accepted,
                 crashes, dbFaults, lost>>

\* The follow-up failed, as far as the master can tell: the failure is neither
\* persisted nor cascaded.
FollowUpFails(p) ==
  /\ up /\ adv = "followup" /\ advProj = p
  /\ proj' = Mark(p, "Failed")
  /\ \/ /\ "timeout" \in DispatchOutcomes
        /\ tasks' = [tasks EXCEPT ![p] = @ + 1]
        /\ followUps' = [followUps EXCEPT ![p] = @ + 1]
     \/ "refused" \in DispatchOutcomes /\ UNCHANGED <<tasks, followUps>>
  /\ adv' = "scan" /\ advProj' = None
  /\ UNCHANGED <<reqVars, up, loaded, known, results, runStatus, advTodo, callbacks,
                 dbVars, sends, accepted, crashes, dbFaults, lost>>

\* Mutants of Ready: dependencies that have merely started; any dependency;
\* whatever the status of q.
ReadyOnStart(q) ==
  /\ proj[q].status = "Pending"
  /\ \A d \in deps[q] : d \in known /\ proj[d].status # "Pending"

ReadyOnAny(q) ==
  /\ proj[q].status = "Pending"
  /\ deps[q] # {} => \E d \in deps[q] : d \in known /\ proj[d].status = "Completed"

ReadyAgain(q) == \A d \in deps[q] : d \in known /\ proj[d].status = "Completed"

Ready(q) ==
  /\ proj[q].status = "Pending"
  /\ \A d \in deps[q] : d \in known /\ proj[d].status = "Completed"

ScanReady ==
  /\ up
  /\ adv = "scan" \/ (adv = "cascade" /\ advTodo = {})
  /\ adv' = "dispatch" /\ advTodo' = {q \in known : Ready(q)}
  /\ UNCHANGED <<reqVars, up, memVars, advProj, netVars, dbVars, history, crashes,
                 dbFaults, lost>>

\* dispatchProjectLayer for one ready project; the new status stays in memory.
DispatchReady(q) ==
  /\ up /\ adv = "dispatch" /\ q \in advTodo
  /\ advTodo' = advTodo \ {q}
  /\ \/ /\ \/ "sent" \in DispatchOutcomes /\ proj' = Mark(q, "Running")
           \/ "timeout" \in DispatchOutcomes /\ proj' = Mark(q, "Failed")
        /\ tasks' = [tasks EXCEPT ![q] = @ + 1]
        /\ sends' = [sends EXCEPT ![q] = @ + 1]
     \/ /\ "refused" \in DispatchOutcomes /\ proj' = Mark(q, "Failed")
        /\ UNCHANGED <<tasks, sends>>
  /\ UNCHANGED <<reqVars, up, loaded, known, results, runStatus, adv, advProj,
                 callbacks, dbVars, followUps, accepted, crashes, dbFaults, lost>>

\* Mutant of AllDone: a running project counts as done.
NonePending == \A q \in known : proj[q].status # "Pending"

AllDone == \A q \in known : proj[q].status \in {"Completed", "Failed"}
AllSucceeded == \A q \in known : proj[q].status # "Failed"

\* Projects are left: the handler returns.
LeaveOpen ==
  /\ up /\ adv = "dispatch" /\ advTodo = {} /\ ~AllDone
  /\ adv' = "idle"
  /\ UNCHANGED <<reqVars, up, memVars, advProj, advTodo, netVars, dbVars, history,
                 crashes, dbFaults, lost>>

\* None is left: the verdict goes to the run and its row ...
CloseRun ==
  /\ up /\ adv = "dispatch" /\ advTodo = {} /\ AllDone
  /\ runStatus' = IF AllSucceeded THEN "Completed" ELSE "Failed"
  /\ SaveRun(runStatus', results)
  /\ adv' = "record"
  /\ UNCHANGED <<reqVars, up, loaded, known, proj, results, advProj, advTodo,
                 netVars, dbRows, dbProj, goalRow, history, crashes, lost>>

\* Mutant of RecordGoal: the run's vocabulary ends up in table goals.
RecordRunStatus ==
  /\ up /\ adv = "record"
  /\ IF goalRow = "absent" THEN UNCHANGED <<goalRow, dbFaults>> ELSE SaveGoal(runStatus)
  /\ adv' = "idle"
  /\ UNCHANGED <<reqVars, up, memVars, advProj, advTodo, netVars, dbRun, dbResults,
                 dbRows, dbProj, history, crashes, lost>>

\* ... and then to the row in table goals, if there is one.
RecordGoal ==
  /\ up /\ adv = "record"
  /\ IF goalRow = "absent"
       THEN UNCHANGED <<goalRow, dbFaults>>
       ELSE SaveGoal(IF runStatus = "Completed" THEN "completed" ELSE "failed")
  /\ adv' = "idle"
  /\ UNCHANGED <<reqVars, up, memVars, advProj, advTodo, netVars, dbRun, dbResults,
                 dbRows, dbProj, history, crashes, lost>>

-----------------------------------------------------------------------------
(* A crash loses the memory of the daemon and the callbacks it holds.      *)

Crash ==
  /\ up /\ crashes < MaxCrashes
  /\ create \notin {"request", "rejected"}
  /\ up' = FALSE /\ crashes' = crashes + 1
  /\ create' = "done" /\ createTodo' = {} /\ sending' = None
  /\ loaded' = FALSE /\ known' = {} /\ proj' = [p \in Projects |-> Fresh]
  /\ results' = {} /\ runStatus' = "InProgress"
  /\ adv' = "idle" /\ advProj' = None /\ advTodo' = {}
  /\ callbacks' = NoCallbacks
  /\ UNCHANGED <<deps, tasks, dbVars, history, dbFaults, lost>>

\* reloadActiveFederatedGoalRuns: an open run comes back as its rows have it.
Restart ==
  /\ ~up
  /\ up' = TRUE
  /\ IF dbRun = "InProgress"
       THEN /\ loaded' = TRUE /\ known' = dbRows
            /\ proj' = [p \in Projects |-> IF p \in dbRows THEN dbProj[p] ELSE Fresh]
            /\ results' = dbResults /\ runStatus' = dbRun
       ELSE UNCHANGED memVars
  /\ UNCHANGED <<reqVars, advVars, netVars, dbVars, history, crashes, dbFaults, lost>>

-----------------------------------------------------------------------------
Handler ==
  \/ CreateGoal \/ PublishRun
  \/ \E p \in Projects :
       PersistProject(p) \/ RefuseFirst(p) \/ SendFirst(p) \/ FirstAnswered(p)

Advance ==
  \/ \E p \in Projects, o \in Outcome : IgnoreCallback(p, o)
  \/ \E p \in Projects, v \in Verdicts : RejectResult(p, v) \/ AcceptResult(p, v)
  \/ \E p \in Projects :
       \/ ProjectFailed(p) \/ CascadeFailure(p) \/ ProjectCompleted(p)
       \/ SendFollowUp(p) \/ FollowUpFails(p) \/ DispatchReady(p)
  \/ ScanReady \/ LeaveOpen \/ CloseRun \/ RecordGoal

Companies == \E p \in Projects, o \in Outcome : RemoteFinish(p, o)

Environment == Crash \/ Restart \/ \E p \in Projects : RemoteLost(p)

Next == Handler \/ Advance \/ Companies \/ Environment

Spec == Init /\ [][Next]_vars

\* Goroutines run, and a task ends: runTask gives it 30 minutes.  Crashes and
\* losses need not happen; a crashed daemon is restarted.
Fairness ==
  /\ WF_vars(Handler) /\ WF_vars(Advance) /\ WF_vars(Companies) /\ WF_vars(Restart)

FairSpec == Spec /\ Fairness

-----------------------------------------------------------------------------
(* Properties.                                                             *)

ProjectRecord == [status : Status, round : Nat, output : BOOLEAN]

\* Every variable has its type.
TypeOK ==
  /\ deps \in Requests
  /\ up \in BOOLEAN
  /\ create \in {"request", "rejected", "publish", "persist", "dispatch", "ack",
                 "done"}
  /\ createTodo \subseteq Projects /\ sending \in Projects \cup {None}
  /\ loaded \in BOOLEAN /\ known \subseteq Projects
  /\ proj \in [Projects -> ProjectRecord]
  /\ results \subseteq Projects
  /\ runStatus \in {"InProgress", "Completed", "Failed"}
  /\ adv \in {"idle", "cascade", "assess", "followup", "scan", "dispatch", "record"}
  /\ advProj \in Projects \cup {None} /\ advTodo \subseteq Projects
  /\ tasks \in [Projects -> Nat]
  /\ callbacks \in [Projects -> [Outcome -> Nat]]
  /\ dbRun \in {"absent", "InProgress", "Completed", "Failed"}
  /\ dbResults \subseteq Projects /\ dbRows \subseteq Projects
  /\ dbProj \in [Projects -> ProjectRecord]
  /\ goalRow \in {"absent", "in_progress", "completed", "failed"}
  /\ sends \in [Projects -> Nat] /\ followUps \in [Projects -> Nat]
  /\ accepted \subseteq Projects
  /\ crashes \in Nat /\ dbFaults \in Nat /\ lost \in Nat

\* No project is sent before the results of all its dependencies have been
\* accepted: the order of the DAG survives the race of the two handlers,
\* timeouts, late callbacks, restarts from a stale database and failed writes.
DependencyOrder == \A p \in Projects : sends[p] > 0 => deps[p] \subseteq accepted

\* The A2A dialogue ends: a company gets at most MaxRounds - 1 follow-ups for a
\* project, however often the daemon restarts in between, because the round is
\* persisted before the follow-up is sent.  Each failed write may cost one more.
DialogueBound == \A p \in Projects : followUps[p] <= (MaxRounds - 1) + dbFaults

\* Unless a write has failed, a goal is recorded as completed only when the
\* result of every project of the request has been accepted, also when the run
\* that is closed was reloaded from the database.
CompletedGoalIsComplete ==
  goalRow = "completed" /\ dbFaults = 0 => accepted = Projects

\* A project's first message is sent once per life of the daemon, and once more
\* if a callback is handled while the request handler still dispatches.
SendBound ==
  \A p \in Projects :
    sends[p] <= 1 + crashes + (IF AckBeforeCallback THEN 0 ELSE 1)

\* The run follows the contract of a dependency graph: a project starts with its
\* first dispatch and finishes when a result of it is accepted.
DAG == INSTANCE DagRun WITH
         Nodes <- Projects,
         started <- {p \in Projects : sends[p] > 0},
         finished <- accepted

\* Every behaviour of the federated goal is one of DagRun: refinement, in every
\* environment, of what createFederatedGoal and advanceFederatedGoal promise.
Contract == DAG!Spec

Settled == {"Completed", "Failed"}

\* Once a project has completed or failed its status never changes again, and
\* the run's verdict neither (server.go:1618 and the demo guide call it final).
SettledStaysSettled ==
  [][/\ \A p \in known : proj[p].status \in Settled /\ p \in known'
                           => proj'[p].status = proj[p].status
     /\ goalRow \in {"completed", "failed"} => goalRow' = goalRow]_vars

\* When the run's row says that the goal is over, the rows of its projects say
\* so too, and the same thing as the memory: nothing is left to recover.
RowsSettle ==
  dbRun \in Settled => \A p \in Projects : dbProj[p] = proj[p]

\* A failure that the one-level cascade cannot carry to project r.
DeepFailure ==
  \E p, q, r \in Projects :
    /\ p \in deps[q] /\ q \in deps[r]
    /\ proj[q].status = "Failed" /\ proj[r].status = "Pending"

\* A goal whose dispatch has begun gets its verdict, provided no company is
\* offline or loses a task and no failure has to travel two levels of the DAG.
GoalFinishes ==
  (create = "dispatch") ~> (goalRow \in {"completed", "failed"} \/ DeepFailure)

\* The demo guide: "if the upstream project fails, the downstream that depends on
\* it is marked Failed".  Whenever no handler is at work, nothing is pending
\* that depends on a failed project.
FailureReachesDependents ==
  loaded /\ adv = "idle" /\ create = "done" =>
    \A q \in known : proj[q].status = "Pending" =>
      \A d \in deps[q] \cap known : proj[d].status # "Failed"

\* "Inject upstream dependency results" (server.go:2047): a project is sent with
\* every non-empty output it depends on.
UpstreamInjected ==
  [][\A q \in Projects : sends'[q] > sends[q] =>
       \A d \in deps[q] : proj[d].output => d \in results]_vars
=============================================================================
