# A TLA+ model of the OPC platform

OPC Platform (`src/`, Go) runs teams of AI agents. A daemon (`opctl serve`) keeps
agents alive, gives them tasks, runs workflows, meters cost, and, as the *master*
of a federation, splits a goal into projects that other daemons (*companies*)
execute. This directory holds TLA+ modules of its core logic, TLC configurations
that check them on small instances, and proofs checked by TLAPS.

    tlc -config fg_safety.cfg MCFederatedGoal.tla     # a model-checking run
    tlapm FederatedGoalProofs.tla                     # the proofs of one module

`PROJECT.json` lists the runs, a mutant of the code for every checked property
(each mutant makes its property fail), the source lines of every definition, the
hazards and the findings.

## 1. Inventory

For each component: the state it keeps, what it does, what is hard about it, and what
makes it correct. The last column says which module models it; section 5 says why the
others are not modelled.

| Component (source) | State | Operations | Hard | Correct when | Module |
|---|---|---|---|---|---|
| **Federated goal** (`pkg/server/server.go` 1322-2122, `pkg/goal`) | `federatedGoalRuns` under one mutex; tables `federated_goal_runs`, `federated_goal_projects`, `goals` | create, dispatch a layer, callback, assess, follow up, cascade, close, reload | request handler dispatches without the mutex; callbacks late, lost, repeated; client timeouts; restarts from rows older than the memory; failing writes | dependency order; bounded dialogue and sends; verdict eventually, once, and true; database and memory agree | `FederatedGoal` |
| **Dependency graphs** (`pkg/goal/dag.go`, `pkg/workflow/engine.go` 361-478) | none | validate, layer | repeated, unknown, own names; map order | accepts exactly the acyclic requests; layers as early as possible | `ProjectDag`, `DagSort` |
| **Assessment** (`pkg/goal/assessor.go`) | none | heuristics, one LLM call | category limits against the round counter | limits respected | in `FederatedGoal` |
| **Workflow engine** (`pkg/workflow/engine.go`) | one run in memory | execute layer by layer, substitute outputs | concurrent steps, a failing step among siblings | steps see their dependencies' outputs; statuses tell the truth | `WorkflowEngine` |
| **Agent controller, lifecycle** (`pkg/controller/controller.go`, `lifecycle.go`) | `agents`, `lifecycleStates`, `failCounts`; table `agents` | apply, start, stop, delete, execute, health check, restart with backoff | concurrent starts; stop during a restart; stale record written back; circuit breaker | one owner per adapter; the row agrees with the map; restart limit; a sick agent is dealt with | `AgentLifecycle` |
| **Cost and quotas** (`pkg/cost`, `ExecuteTask`) | events and their file; usage per window | check budget, check quota, record, load | checked before and charged after a task, no lock over both; windows roll over; restarts lose the usage; torn lines | limits hold up to what is in flight; what is counted is on disk | `TaskCost` |
| **Federation registry, heartbeat** (`pkg/federation`) | companies; state file | register, remove, set status, ping, save, load | stale ping results; failed saves; `opctl` writing the same file | no company lost; status converges | `CompanyRegistry` |
| **Stdio agents** (`pkg/adapter/custom`) | process, pipes, a scanner per task | start, stop, health, execute | scanners that read ahead; ends of process and context | each task has its own answer | `CustomAgent` |
| **WebSocket agents** (`pkg/adapter/openclaw`) | connection, `pending`, a channel per request | handshake, send, dispatch responses, clean up | responses against clean-up; repeated responses; two locks | clean-up never blocks, nobody waits for ever | `OpenClawAgent` |
| **Command agents** (`pkg/adapter/claudecode`, `codex`) | one slot for the command | execute, stop | one slot for concurrent tasks; Stop between check and start | Stop leaves no command behind | `CliAgents` |
| **Goals, projects, issues, tasks** (`server.go` 630-1320, 2124 ff.) | five tables | create, decompose, apply, approve, revise, run | a handler is many statements; clients that hang up; goroutines and handlers write the same row; IDs that are milliseconds | rows refer to rows; a task executes once; completed means done | `GoalDesk`, `Store` |
| **Storage** (`pkg/storage`) | SQLite or PostgreSQL | migrate, CRUD | older files; ignored ALTER errors; two backends | every statement fits the schema | `StoreSchema`, `Store` |
| **Chat gateway** (`pkg/gateway`, `runServe`) | channels, polling goroutine, messages | start, stop, command, answer in pieces | open before and after the rest of the daemon; stop during an answer | nothing uncharged, silence after Stop, answers whole | `ChatGateway` |
| Cron (`pkg/workflow/cron.go`), checkpoints and recovery (`pkg/controller/checkpoint.go`, `recovery.go`), retry queue (`pkg/federation/retry.go`), interventions, task dispatcher (`pkg/dispatcher`) | | | never reached in the daemon | | |
| HTTP routing, CLI, dashboard, auth, tenants, audit, cluster, tracing | | | I/O and presentation | | |

Interaction: a handler of the HTTP server calls the controller and the federation
registry and writes through the store. The master posts `/api/run` to a company,
whose `runTask` creates a task, answers at once and executes it in a goroutine
through its own controller and an adapter; at the end it posts one callback to the
master (`sendCallback`), whose handler advances the goal under the mutex. Health
checks and the recovery at start-up call the same controller from other goroutines,
and so do the chat channels. `ExecuteTask` asks the budget and the quota before it calls an
adapter and charges afterwards.

## 2. Modules

| Module | Content |
|---|---|
| `DagRun` | abstract: what an engine for dependency graphs promises. Start only what has its dependencies finished, finish only what was started. |
| `ProjectDag` | what validation and layering compute, as operators on a dependency function |
| `DagSort` | Kahn's algorithm as the code runs it: two passes over in-degree maps |
| `FederatedGoal` | one federated goal with its two kinds of goroutines, the database, the companies, crashes |
| `WorkflowEngine` | one run of a workflow: goroutines of a layer, task records, a caller who leaves |
| `AgentLifecycle` | one agent in the controller: handlers, health loop, restart goroutine, store, crash |
| `TaskCost` | the steps of `ExecuteTask` around budget and quota; the event file; windows, restarts |
| `CompanyRegistry` | the companies, their file, the heartbeat, a second process |
| `CustomAgent` | a stdio agent: process, pipes, scanners |
| `OpenClawAgent` | a WebSocket agent: requests, responses, clean-up |
| `CliAgents` | Claude Code and Codex: a command per task |
| `StoreSchema` | migrations and what the statements of both backends need |
| `Store`, `GoalDesk` | the rows and the effect of statements on them; the handlers that issue them |
| `ChatGateway` | channels, messages, and the order in which `runServe` starts and stops things |
| `MCFederatedGoal` | instances: three projects, five graphs (chain, join, fork, triangle, and a cycle that must be rejected) |
| `MCWorkflowEngine`, `MCAgentLifecycle`, `MCTaskCost` | instances: four workflows of four steps; one handler, one goroutine, two adapters; tasks of one token |
| `MCServices` | the instances of the nine parts that keep a state of their own, see section 3 |
| `FederatedGoalProofs`, `WorkflowEngineProofs`, `AgentLifecycleProofs`, `TaskCostProofs`, `GoalDeskProofs`, `DagSortProofs` | the theorems about the module of that name |
| `AdapterProofs` | those about `CustomAgent`, `OpenClawAgent`, `CliAgents` |
| `ServicesProofs` | those about `CompanyRegistry`, `StoreSchema`, `ChatGateway`, and about the nine parts together |

`FederatedGoal` and `WorkflowEngine` both implement `DagRun`. Both take their layers from
`ProjectDag`'s definitions, which `DagSort` compares with the algorithm in the code; what the
proofs about `WorkflowEngine` need of a layering is its assumption `PlansAssumption`.
`AgentLifecycle` is what the other two see as a task that is refused, fails or never ends: in
`WorkflowEngine`'s `RefuseTask` and `EndTask`, and in `FederatedGoal`'s `RemoteFinish`.
`ExecuteTask` is where several meet, and each models its own part of it: `TaskCost` the budget,
the quota and the charge, `AgentLifecycle` the circuit breaker, `WorkflowEngine` the task's row, the
adapter modules the call that lies between.

### FederatedGoal

The state corresponds to the code as follows: `loaded`, `known`, `proj`, `results`,
`runStatus` are the entry in `federatedGoalRuns` (whether it is there, the keys of
`Projects`, their `Status`/`Round`/whether `Result` is empty, the non-empty keys of
`Results`, `Status`); `dbRun`, `dbResults`, `dbRows`, `dbProj`, `goalRow` are the three
tables. `create` is the program counter of `createFederatedGoal`, `adv` that of the one
callback handler that holds the mutex; `callbacks` are those waiting for it; `tasks`
what the companies are working on. `sends`, `followUps`, `accepted` only record history.

Steps are cut where another goroutine or a crash can come between: each database
write of the request handler; each POST of the request handler in two steps, because
without the mutex a callback can overtake the answer (`SendFirst`, `FirstAnswered`);
in the callback handler the increment of `Round`, the assessment with its write, the
follow-up, each cascaded failure, each dispatch, the run's row, the goal's row. Under
the mutex a POST and its answer are one step: nothing the other goroutines do in
between is visible to the handler or depends on it.

Abstractions. A result is empty or not; the error text of a failed task is never
empty. A verdict is one of six outcomes of `AssessResult` chosen freely; what the
model's category `unlisted` stands for is a string the LLM invents, which
`MaxRetries` sends to its default. Registry look-ups are free choices: any POST may be
refused (unknown company, not Online, no connection). A failing write (`DbFault`)
leaves the old row; reads do not fail. `milestone` callbacks change nothing and are
left out, and so are agents, lineage, trace spans and texts. Edits of the goal's row
through the CRUD API are another component. Goal IDs (milliseconds) are taken to be
unique, and then goals share nothing but the mutex.

### DagSort

`lists` is the request with its order and repetitions. `CheckNames`, `Visit`,
`CheckCycle` are `ValidateProjectDAG` / `validateDAG`, `TakeLayer`, `EndLayers` are
`BuildProjectLayers` / `buildDAG`. The two packages contain the same algorithm. The queue is
a set since Go fills it in random map order. Empty and duplicate names, which the
code rejects first, do not occur.

### WorkflowEngine

`at`, `runStatus`, `steps`, `outputs`, `firstErr` are `layerIdx`, `run.Status`, the statuses in
`run.Steps`, the keys of `outputs`, and `firstErr`; `pc` is where a step's goroutine is, `seen`
its snapshot, `row` its record in the table `tasks`. A goroutine's steps are cut at its
locks, its writes and the call of the adapter: copy the outputs (`TakeSnapshot`), insert
the record (`CreateTask`), be refused by budget, quota or a missing agent (`RefuseTask`)
or be started (`StartTask`), return (`EndTask`), enter the result (`RecordStep`). A write
fails when the context is cancelled or, `MaxFaults` times, for another reason; only a
failing insert fails the step. Agents, cost and the circuit breaker, which ExecuteTask also
serves, are components of their own. The run itself lives in memory only (`CreateWorkflowRun`
has no caller), so a crash leaves nothing of it to recover.

### AgentLifecycle

`row` is the phase in the table `agents`, `agent` the entry in `c.agents`; `inst` says of each
adapter that something refers to how it is. A process `p` has a program counter `pc[p]`, the
operation `op[p]` on whose behalf it is in `StartAgent` or `StopAgent` (what follows an error
there differs), the adapter `held[p]` it is stopping, and in `Apply` the record `rec[p]` it has
read. `check`, `seen`, `failures` are the health loop's; `restartCount` and `backoffOver` are
in `lifecycleState`. Processes are the handlers (`Callers`) and the goroutines that
`checkAndRestart` starts (`Autos`).

Steps are cut at the controller's lock, the calls of the adapter and the statements on the
row: a start reads the row (`StartRead`), starts an adapter and enters it in the map (`Register`)
or writes Failed (`AdapterFails`), writes Running (`WriteRunning`); a stop takes the entry
(`Take`), stops the adapter (`AdapterStop`), writes Stopped (`WriteStopped`). The
health loop copies the map (`Snapshot`), asks the adapter it found (`AskHealth`), and waits,
gives up or restarts.
A read of the row just before a write is part of the write except in `Apply`, the only
operation that writes back the phase it read. A statement may fail (`Fault`), for instance since
the context is the client's. A crash loses all but the row; `RecoverAgents` runs before the
server starts, while the health loop and the gateway, which brings tasks, already run.

Abstractions: of a record only the phase is kept; of the backoff only whether it has passed; of
the counter of failing tasks only that a failure may be the one that trips the breaker, and of
the quota only that it may pause the agent.
The specs enable recovery and name a type that has an adapter. An adapter that nothing refers
to is forgotten, whether or not it still runs, so that a finite set of them suffices.
`failures` goes on growing while an agent that is sick is left alone; past the threshold the code only
compares it, so it is counted up to `FailureCap`.
`StartAgentHealthCheck` and `ResetRestartCount` have no caller, and neither have the functions
of `checkpoint.go` and `recovery.go`.

### TaskCost

A worker is a request that executes one task after the other; `stage[w]` is where it is in
`ExecuteTask`. `counted` and `logged` are, per day, the cost of `Tracker.events` and of the events
that `loadEvents` would find in the file; `usage` is one entry of `QuotaEnforcer.agentUsage`,
four counters with the end of their windows. Steps are cut where a lock is released:
the budget (`PassBudget`), the configuration and the counters (`FindNoConfig`, `ReadUsage`), the
verdict (`AdmitTask`, `RefuseTask`), the adapter, the file (`PersistEvent`, `PersistFails`), the
memory (`AppendEvent`), the counters (`RecordUsage`). `Check` reads the counters and the ends of
their windows at different moments with no lock, hence `seen`. A write that ends early leaves
a line without an end (`torn`), which swallows the next one. The budget is set once,
as `opctl` does; reports and exports only read. Time is a number of hours; of events only
their sum per day is kept, and a month is `DaysPerMonth` days.

### CompanyRegistry

`companies` is `fc.companies` by name, `file` and `fileTorn` what `federation.json` holds. Requests
(`RegisterCompany`, `UnregisterCompany`, `UpdateCompanyStatus`) and the heartbeat's updates hold the
controller's mutex while they change the map, ping and save, and are one step; the heartbeat's
list, its ping and its update are three, so that a request can come between. A save that fails
leaves the change in the map and the old or a torn file. `Reload` is a new daemon: names
from the file, all Offline. `CliStarts`, `CliRegisters` are `opctl federation add-company`, a process
with a map of its own. A name registered again has a new ID: the
heartbeat's list keeps the old one (`gone`), which is pinged still and whose update finds no company.
A request sets any string as the status, of which "other" stands for those that the package does not
know. The parent and the
type of a company and the list of pending issues (no caller outside tests) are left out.

### CustomAgent, OpenClawAgent, CliAgents

`CustomAgent` follows the lines of a stdio agent: from the process into `stdout`, from there into
`buffer[t]`, what the scanner of task `t` has read ahead, and into `output[t]`. A scanner
takes any number of lines at once and is dropped with its buffer when its task ends. A line of more
than 64 KiB ends the task with `bufio.ErrTooLong` and leaves the rest of the answer, perhaps with a
rest of that line, to the next reader (`ScanTooLong`). The process writes only answers, of which one
line may be too long; that two scanners may share the bytes of a line is left out.
`startCtx` is the context that `StartAgent` cancels on return and `exec.CommandContext` watches;
`reaped` says that `cmd.Wait` has returned, which only `Stop` calls.

`OpenClawAgent` follows a response: from `asked` (the gateway) to `message` (`readLoop` has it), to
`popped` (its channel has been taken from `pending`), to `box` (the channel, of capacity one), to the
caller. A request passes the check of the phase, enters `pending`, finds the connection, waits, and is
withdrawn when its context ends. `Stop`, or a `Start` that fails, closes the connection and
drains `pending` in two steps, as the code does: the second needs another lock. A response may
come twice. The connection may break at any moment.

`CliAgents` has both adapters; `tool` says which. `slot` is `activeCmd` or `cancelFn`, of which
there is one whatever the number of tasks. `AdmitCommand` releases the lock that `TakeSlot` takes
again, and between `TakeSlot` and the start of the command `Stop` may come. Claude Code's `Stop` waits
for the process with the lock held (`rival` is the task whose `cmd.Wait` it calls a second time).

### StoreSchema, Store, GoalDesk

`StoreSchema` runs the list of migrations from the top each time a process opens the
database; a table that exists stays as it is, a column that exists is an error that is
ignored, and so is a locked database. What was there before is any older version. Against
it stands, for each statement, the table and the later columns it names (`Needs`). Its
ALTERs are grouped into lists, any part of which may have been done.

`Store` gives the effect of the statements on rows reduced to references and statuses.
`GoalDesk` is the handlers that issue them: `caller[c]` is where a request is and the IDs it has
made. Each statement is a step; it may fail because the client has hung up (then all later
ones do) or the database is busy, and what the handler does then is taken from the code: `createGoal`
goes on, `applyResource` skips what depends on it, `runTask` ends. `work` are the goroutines that
execute tasks; the one of `createGoal` reads the goal's row and writes it back. `editor` are approve
and revise, which read a whole row and write it. The remaining requests are one statement each.
A UUID is its maker and a number; a task's ID is the millisecond `now`. `POST /run`, `/projects` and
`/issues` store the parents that the client names without looking for them: those of any row, or
`ForeignID`, as tasks of a federated project have it, whose goal and project are the master's. Left out:
IDs that clients choose for what they create (the daemon takes them, and makes a UUID otherwise), `PUT` of a project and of an issue (neither changes a reference to another row), an operator
who writes "completed" into a goal by hand, a task's row while it is Running (`WorkflowEngine` has it);
each task of a plan has one sub-issue.

### ChatGateway

`served` is where `runServe` is: the channels are started first, then the cost tracker is set,
then the agents recovered; at the end the contexts are cancelled, then the gateway is stopped.
`online` is each channel's flag, `poller` Telegram's goroutine. A message goes from the poll to
the task to the reply; a reply that is too long is split as `sendLongMessage` does it, on texts of
which only newlines and lengths are told apart. Telegram's handlers have the
daemon's context, Discord's have `context.Background()`; Discord's `Stop` sets the session to nil
while a reply may still be under way (`SendPanics`).

## 3. Runs

| Run | Question | Instance |
|---|---|---|
| `fg_safety` | does the bookkeeping survive crash, failed write and overtaking callbacks? `TypeOK`, `DialogueBound`, `CompletedGoalIsComplete`, `SendBound` | all graphs; POSTs succeed; tasks complete or fail; two verdicts; 1 crash, 1 failed write; 1.2 million states |
| `fg_contract` | is the order kept in every environment? `DependencyOrder`, `Contract` | all graphs; POSTs succeed, are refused or time out; 1 crash, 1 lost callback; 1.1 million states |
| `fg_live` | does a goal end in a calm environment, once and consistently? `RowsSettle`, `SettledStaysSettled`, `GoalFinishes` | all graphs, all verdicts, no faults; 14 thousand states |
| `wf_run` | does a run use complete inputs, tell the truth and end? `TypeOK`, `InputsComplete`, `ReportIsTrue`, `RowsAgree`, `Contract`, `CancelEndsRun` | four workflows of four steps; tasks are refused, fail, complete; 1 failed write; the caller may leave; 53 thousand states |
| `al_run` | does an agent keep one owner, a true row and its limit of restarts, and is it dealt with when sick? `TypeOK`, `SingleOwner`, `RowIsTrue`, `SickIsHandled` | a handler, a goroutine and the health loop; threshold 2, 2 restarts; 1 failed write, 1 crash; 1.6 million states |
| `services` | do the nine parts below keep their promises? fifteen properties | nine parts, one at a time; 800 thousand states |
| `fg_cascade`, `fg_upstream`, `fg_ackrace`, `al_restart`, `cost_day`, `stdio_health` | six disagreements between code and documentation, below | |

The nine parts of `services` do not interact at the level at which they are modelled, and
each would otherwise be a run of its own, most of them of a few thousand states. A behaviour
of `MCServices` is one of one of them, named by `focus`, while the others stay in
an initial state: the state space is the sum of theirs and not the product, and an invariant
of one part has the same meaning as in a run of its own. What the parts are asked:

| Part | Property | Instance |
|---|---|---|
| `TaskCost` | `SpendingIsBounded`: what is checked before and charged after a task exceeds the day's budget, and the hour's tokens, by no more than what the tasks that run at once use (of the tokens, once more for each stop of the agent). `SpendingOnDisk`: a crash at any point loses nothing that was counted, but one event for each failed write. | 2 workers, tokens 2 an hour and 3 a day, budget 2 a day and 3 a month, 2 hours, all three values of `onExceed`, 1 stop and start, 1 bad write, restarts |
| `CompanyRegistry` | `RegistrySurvives`: no company is lost or comes back through heartbeats, failed saves and restarts. `StatusConverges`: who answers is Online in the end, who does not Offline. | 2 companies, 3 requests, 1 failed save, 1 restart, a second process |
| `CustomAgent` | `OwnAnswer`: tasks that follow one another have their own, complete answers, until a line is too long for a scanner | 2 tasks, answers of 2 lines or an error, one line too long; the process may end |
| `OpenClawAgent` | `DrainNeverBlocks`: the clean-up never meets a full channel. `NobodyIsForgotten`: after it nobody waits for an answer that cannot come. | handshake and 2 requests, 1 repeated response |
| `CliAgents` | `SerialStopIsClean`: unless tasks overlap, or one is between check and process, Stop leaves no command behind | 2 tasks, both adapters |
| `StoreSchema` | `StatementsFit`: a store that was opened can run its statements, whatever file it found | 2 opens, 1 ALTER locked out, both backends |
| `GoalDesk` | `TreeIsConnected`: what `POST /goals` and `/apply` create refers to rows, through failures, crashes and deletions. `WorkIsReal`: a task executes once, and a completed goal has a task that succeeded. | one caller with `POST /goals` or `/apply` (a plan of a project with two tasks and an empty one), one with `POST /run`, one editor, 2 milliseconds, 1 mishap or other request, crashes |
| `DagSort` | `SortIsRight`: the verdict is right, layers are as early as possible, the second pass never fails what the first accepted. `SortTerminates`. | all 9261 requests of 3 names and an unknown one with up to 2 entries per list |
| `ChatGateway` | `ChatIsSafe`: nothing executed goes uncharged, nothing is received after Stop, answers are whole | one message per channel, texts of 1 and 5 bytes, 2 to a message |

`ServicesTypeOK` is the type invariants of the parts.

Deadlock checking is off where a system may stop: when the goal is decided and no
callback is under way, or the workflow has ended, nothing more happens, and the same goes
for the parts of `services` when their tasks, requests and faults are used up. `al_run` checks it:
the controller can always be called.

Bounds. Three projects give every shape in which the order or the cascade can go
wrong: two levels, two dependencies, two dependents. Two verdicts are enough for the
safety runs because `quality_issue` leads to the longest dialogue (three rounds) and
`satisfied` ends it; the other four differ only in when they do, and `fg_live` has
them all. `MaxRounds` is the code's value. One crash, failed write or lost callback at
each possible moment: properties that count them (`DialogueBound`, `SendBound`) state
how much each one costs, and the theorems hold for any number.

Four steps in four shapes give layers of one to three goroutines, first, middle and last;
a wider layer adds nothing that three do not, and the theorems hold for any width.

One handler beside the health loop and its goroutine gives every meeting of a stop, a start or a
deletion with an automatic restart. Threshold 2 makes the loop count, two restarts
let it wait for the backoff and reach the limit, two adapters are what an agent and a stop
in progress refer to.
`SingleOwner`, `RowIsTrue` and `TypeOK` are proved for any number of all of these.

In `services` two of a kind meet everywhere: two workers pass a check together, two tasks share
a pipe, a slot or a connection, two requests share a millisecond. Limits of 2 and 3 are below what the
workers can use; two hours are two windows of the hour in one of the day, and with `cost_day`,
limits of 5 and 8 make the 80 % of the hour differ from its limit. A text of 5 bytes with two
newlines is split at a newline, at a leading one and without one. The theorems of section 4
lift most of these bounds.

Fairness (`FairSpec`). In `WorkflowEngine`, goroutines run; an adapter need not answer while the
caller waits (the CLI adapters have no timeout), but does once the context is cancelled,
which it has passed to its process or request. The stdio mode of `pkg/adapter/custom` is the
exception and outside this assumption. In `FederatedGoal`, runnable goroutines run (the request handler and the
callback handlers), a company ends a task it has (`runTask` gives it 30 minutes), a
dead daemon is restarted. Nothing is assumed about crashes, losses or failing writes.
In `AgentLifecycle`, the health loop's ticker ticks, the backoff passes, and the goroutine of a restart
goes on, which includes that an adapter's `Stop` returns; handlers may hang for ever.
In `CompanyRegistry`, the heartbeat's ticker ticks (`WF(CheckAll)`), a ping has a timeout in the
code. In `DagSort`, a loop goes on. The other parts state no fairness and no liveness.
`GoalFinishes` assumes more through its constants (`AckBeforeCallback`, only "sent"),
because without that the goal need not end: see the findings and the hazards.

### What the runs say about the code

Six findings, each a run that TLC must find violated:

* `fg_cascade`: the demo guide says that what depends on a failed project is marked
  Failed. The code marks direct dependents only; a project two levels down stays
  Pending and its goal never ends.
* `fg_upstream`: results are stored in the run's row at the beginning and at the end
  only. After a restart in between, later projects are sent without the output of
  those that completed before.
* `fg_ackrace`: the first layer is dispatched without the mutex and the status
  `Running` assigned after the answer of the POST. If the callback was handled first, it
  overwrites `Completed` and the goal never ends, though everything succeeded.
* `al_restart`: the comment of `RestartAgent` says that a successful restart resets the restart
  counter. If the agent is not in the map, which is how a failed automatic restart leaves it,
  the code starts it and leaves the counter as it was.
* `cost_day`: `Check` says it verifies that a task would not exceed quotas. From 80 % of the hourly
  tokens it returns an alert before it has looked at the day's and the month's counters. At the start
  of an hour, whose count is 0, it goes on to the day and refuses; in the last fifth of an hour it admits
  tasks although the day is used up. The day's limit is exceeded by up to a fifth of one
  hour's tokens and what is in flight; in the run, of a single worker, by one token.
* `stdio_health`: `Health` of a stdio agent is meant to notice that the process is gone.
  `StartAgent` cancels on return the context on which the process was started, which kills it;
  `Health` asks a field that only `cmd.Wait` sets, which only `Stop` calls, and stays healthy.

Observed while modelling, without a run of its own:

* Federated goals: with client timeouts `SettledStaysSettled` fails (the late callback of a
  project that was given up reopens it and may turn the verdict); a first layer that is refused
  entirely leaves the goal in progress, since only a callback closes goals; a crash between the
  run's row and the goal's row leaves the goal `in_progress`; a lost callback leaves a project
  Running, since nothing feeds the retry queue (`sendCallback` never enqueues); an empty result is
  accepted in the first round although `MaxRetries` speaks of one retry, since `Round` is
  incremented before the comparison; one slow company stalls all goals, since the mutex is held
  while it is asked (`server.go:1391`).
* Agents: when operations overlap, a second start replaces the adapter of the first in the map,
  and nobody stops it; a start that writes its Running after an overtaking stop leaves a row that
  is not true; an operator's stop in the middle of a restart is undone by it. `RowIsTrue` is
  therefore about operations that do not overlap. A type without a registered adapter fails
  at start only (`controller.go:145`). In a workflow, a placeholder that names a step of the
  same layer is substituted or not, as the goroutines happen to run (`engine.go:238`).
* Cost: of a task that reports its cost, the event has cost zero and the budget does not see it
  (`controller.go:374`, `cost.go:183`); the day's total excludes a task of midnight sharp
  (`server.go:937`).
* Federation: `opctl federation add-company` and the daemon overwrite each other's companies; a heartbeat
  monitor that is stopped and started again closes a closed channel at the next stop (`heartbeat.go:62`);
  a request may set any string as a company's status (`server.go:1075`), which keeps it from being given work
  until the next heartbeat that it answers.
* Adapters: an OpenClaw connection that breaks during the handshake leaves a Running agent with
  no reader; one that breaks later leaves its callers waiting until their contexts end; two
  goroutines may write the WebSocket at once (`openclaw.go:502`). Output that ends without a "done" is a
  success for stdio agents (`custom.go:360`). A line of more than 64 KiB fails the task (`custom.go:374`) and the
  next one reads the rest of its answer. Claude Code and Codex keep one slot: with
  concurrent tasks, Stop ends only the last.
* Goals: the handler of `POST /goals` may overwrite the "completed" of a task that was quicker
  (`server.go:2195`), and answers 202 when the task could not be created; approving dispatches
  nothing; an update of a row that is gone is no error. The daemon opens SQLite without
  foreign keys; Postgres lacks columns and tables that its statements name. The parents named in `POST /run`,
  `/projects` and `/issues` are stored unchecked (`server.go:657`, `2337`, `2387`), and every task of a federated
  project refers to a goal and a project of the master.
* Chat: a gateway that fails to start cleans up in a fresh random map order, may leave a channel
  running, and is never stopped (`gateway.go:136`); a Discord reply under way when the session is closed
  panics; a reply may be cut inside a UTF-8 character; commands that run at shut-down leave
  their task rows Running.

## 4. Proofs

Every safety property that a passing run checks, invariant or action property, is a theorem; what
is only model-checked is liveness (see the end of this section).

`FederatedGoalProofs` proves for every set of projects, every set of requests and every
bound on crashes, lost callbacks and failed writes (the assumptions are the named
ASSUMEs of `FederatedGoal`, which only say what kind of values the constants are):

* `TypeCorrect`: `Spec => []TypeOK`. Inductive as it stands.
* `OrderCorrect`: `Spec => []DependencyOrder`. Not inductive alone: a dispatch relies on the
  status of the dependencies, that status may come from a row after a restart, and a
  ready list is computed steps before it is used. The invariant `Order` adds that
  "Completed", in memory or in a row, implies acceptance, that everything on the
  callback handler's ready list has accepted dependencies, and that the request handler
  has only projects without dependencies left to send.
* `Refinement`: `Spec => Contract`, that is, each step of the model is a step of `DagRun` or leaves
  it unchanged. A start needs `Order`; a finish needs `Work`: what is executed, reported or
  assessed was once sent.
* `DialogueCorrect`: `Spec => []DialogueBound`. The invariant `Dialogue` accounts for every
  follow-up sent or about to be sent: a round in memory counts it and, but for the writes
  that failed, so does the row; a project not yet dispatched has no rounds, and a daemon
  that is down is handling nothing.
* `CompletionCorrect`: `Spec => []CompletedGoalIsComplete`. The invariant `Whole` adds to
  `Order`, `Work` and `Dialogue` that without failed writes nothing is sent before every row
  of the run exists, so that the run read back after a restart is the whole run.

* `SendCorrect`: `Spec => []SendBound`. The invariant `Sends` counts permissions (`Permits`): each
  life of the daemon brings one for each project, which the callback handler uses up by making the
  project something else than Pending. The request handler, which sends without looking at
  what a callback has done meanwhile, has one of its own unless `AckBeforeCallback`.

* `RowsCorrect` and `SettledCorrect`: `Spec /\ Calm => []RowsSettle`, and
  `Spec /\ Calm => SettledStaysSettled`. `Calm` is the environment of `fg_live`, stated of the constants: every
  dispatch is answered, no callback is handled before the request handler ends, no crash, no
  failed write; callbacks may be lost. Without it both are false (see the findings). The invariant
  `CalmInv` says that the request handler is alone until it ends (`Alone`), that of each project at
  most one task or callback is on its way, and only while it runs (`Carried`), that the
  callback handler changes only what has not settled (`Turn`), and that every status but
  Running is written (`Written`) before the verdict is (`Last`).

`WorkflowEngineProofs` proves for every set of workflows whose layers satisfy
`PlansAssumption` and every number of failed writes:

* `TypeCorrect`, `InputsCorrect`, `ReportCorrect`, `RowsCorrect`: `Spec => []TypeOK`,
  `[]InputsComplete`, `[]ReportIsTrue`, `[]RowsAgree`.
* `Refinement`: `Spec => Contract`.

The invariant `Waves` divides the steps by the current layer: those behind are complete,
those ahead untouched, `firstErr` speaks of the one between. From it a snapshot contains
everything behind, and a report is true when the run ends. `Records` follows each task record
along its goroutine; it needs no layers.

`AgentLifecycleProofs` proves for every set of handlers, goroutines and adapters and all limits,
failed writes and crashes:

* `TypeCorrect`: `Spec => []TypeOK`, whose substance is that `restartCount` keeps to the limit of the spec.
* `OwnerCorrect`: `Spec => []SingleOwner`. The invariant `Owners` adds that what is referred to is
  known (so a new adapter is nobody's) and that exactly the processes which are stopping an
  adapter hold one.
* `RowCorrect`: `Spec => []RowIsTrue`. `RowIsTrue` speaks of agents at rest only; the invariant
  `InTurn` says for an operation that is alone how far row and map may differ at each of
  its steps, and that nothing is in the map until `RecoverAgents` has begun.

`GoalDeskProofs` proves for every set of requests, every plan, clock and bound on mishaps:

* `WorkCorrect`: `DeskSpec => []WorkIsReal`. The invariant `WorkInv` adds `RowFirst` (a task that
  was executed has its row, so the second `INSERT` of its ID fails) and `Honest` (what is in a
  goal's row, on its way there, or in the copy of a handler says "completed" only after a task
  of that goal succeeded).
* `TreeCorrect`: `DeskSpec => []TreeIsConnected`, of what `POST /goals` and `POST /apply` create. Of what other
  requests create it says nothing: their clients name the parents. The invariant `TreeInv` says what each handler
  holds between two statements (`Jobs`), that no UUID is in two places or in `lost` and in a table
  (`Apart`), and that one that has not been made is nowhere (`Fresh`); without the last two a
  delete could be undone by a later insert.

* `DeskTypeCorrect`: `DeskSpec => []DeskTypeOK`. Beside the two invariants above, `DeskInv` says that the
  copies of goals in the hands of editors have phases, and that the ID which `POST /run` makes
  before it looks for the agent is still a millisecond when the task is created.

`TaskCostProofs` proves for every set of workers, all limits, lengths of the windows, failed writes,
restarts and stops:

* `CostTypeCorrect`: `CostSpec => []CostTypeOK`.
* `DiskCorrect`: `CostSpec => []SpendingOnDisk`. `OnDisk` and `InMemory` bound the file by the memory and the
  memory by the file, up to the events which are written and not yet appended, and up to one
  event per failed write, which a torn line may still have to take with it.
* `SpendingCorrect`: `CostSpec => []SpendingIsBounded`. Spending exceeds a limit only by what was in flight:
  `BudgetInv` adds to what is counted one charge of every worker between the check and the
  charge (`Spenders`), `QuotaInv` does the same for the tokens of the hour (`Users`), and allows as much again
  for every stop of the agent.

The sums over workers that these need are written as the cardinality of a set of pairs
(worker, unit), for which the library has theorems, so that no induction over a fold is needed.

`DagSortProofs` proves for every set of names and all lists of dependencies, repetitions, unknown names and
cycles included:

* `SortCorrect`: `SortSpec => []SortIsRight`, that is, both passes of Kahn's algorithm compute `ProjectDag`'s
  verdict and layers whatever the order of Go's maps, and these are right. `SortInv` says that an in-degree
  is the number of times the node's unvisited dependencies are named in its list, that the
  queue is what of degree zero is unvisited (`Visiting`), and that the layers built so far are the
  first passes of `Peeled` (`Layered`).

`ProjectDag` defines layers by a recursive function. Instead of induction over numbers, which these
provers cannot instantiate, the lemmas about it look at the smallest number of passes for which
they would fail (lemma `Smallest`, from the well-foundedness of the naturals), and
refute it.

`AdapterProofs`, for any number of tasks and requests, any length of an answer and any number of repeated responses:

* `StdioTypeCorrect`, and `AnswerIsOwn`: `StdioSpec => []OwnAnswer`. The invariant `Serial` says of tasks that
  follow one another, until a line is too long for a scanner, that at most one has lines anywhere (`Alone`), that they are its own (`Mine`), and that,
  while the process lives, what it has collected, what its scanner holds and what is in the pipe
  make up one answer, so that a task which ends leaves nothing to the next (`InStep`).
* `WsTypeCorrect`, and `AnswerCorrect`, the invariant that an answer is in one place at a time and that who waits can
  still be found; `DrainCorrect` and `NobodyCorrect` (`DrainNeverBlocks`, `NobodyIsForgotten`) follow from it.
* `CliTypeCorrect`, and `StopCorrect`: `CliSpec => []SerialStopIsClean`.

`ServicesProofs`:

* For every set of companies, requests, failed saves and restarts: `RegistryTypeCorrect` (whatever strings are stored as a
  status, what the heartbeat has listed and not dealt with is registered or was removed since), and `RegistryCorrect`:
  `RegistrySpec => []RegistrySurvives`, from an invariant that relates the map to the file as long as the
  daemon was the last to save it.
* For any number of openings, processes that end half-way and locked statements: `SchemaTypeCorrect`, and
  `SchemaCorrect`: `SchemaSpec => []StatementsFit`. The invariant `SchemaInv` says what each migration that has run has
  left behind; that this is all that the statements need is a matter of two lists.
* For any channels, messages, texts and maximal length of a message: `ChatTypeCorrect`, and `ChatCorrect`:
  `ChatSpec => []ChatIsSafe`. The invariant `ChatInv` says that the pieces sent and the rest make up the
  answer, that nothing is sent before a reply, and that a task runs only after `serve` has set the
  tracker. That a piece is never empty, hence the sending ends, is lemma `PieceOf`; what `FlattenSeq`
  makes of one piece more is again shown at the smallest length.
* `ServicesTypeCorrect`: the types of all nine parts, of the specification that `services` runs.

All of these rest on the named ASSUMEs of the modules alone, which only say what kind of
values the constants are (and, for `WorkflowEngine`, that its layers are layers).

Only model-checked: `GoalFinishes`, `CancelEndsRun`, `SickIsHandled`, `StatusConverges` and `SortTerminates`. They are
liveness under fairness, which is out of the prover's reach.

## 5. Not modelled

* Code that the daemon never reaches at this commit: the cron scheduler (`NewCronScheduler` has no
  caller; schedules are stored and shown), checkpoints (`serve.go:158` has the loop commented out, so
  that `opctl recover` finds none), the retry queue (nothing enqueues), interventions (a map of the package that nothing
  reads), the task dispatcher, auth and tenants, `AIDecomposer`, the OpenAI adapter (registered nowhere).
  A model of one of these would say nothing of the program; should a caller be added, the
  retry queue and the checkpoints are what to model first.
* Streams (`opctl run --stream`), whose controller has started no agent, and the cluster manager, of which
  `opctl cluster` makes a new one for every command.
* HTTP routing and parsing, CLI, dashboard, audit, tracing: I/O and presentation. What they do to
  the state above is covered by nondeterministic outcomes.
* Of assessment the heuristics on texts and the LLM call: a verdict is a free choice.
* The HTTP protocol of custom agents, whose requests share nothing but the process.

Left for later: two federated goals whose creation falls into the same millisecond and which then share a
run (`server.go:1879`), which `FederatedGoal` excludes by modelling one goal; a second database client in
`GoalDesk`.
