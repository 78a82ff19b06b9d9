--------------------------- MODULE WorkflowEngine ---------------------------
(***************************************************************************)
(* One run of a workflow: Execute of pkg/workflow/engine.go takes layer    *)
(* after layer, executeLayer starts a goroutine for each step of a layer   *)
(* and waits for all, executeStep makes a task record and has the          *)
(* controller's ExecuteTask carry it out.  The context of the run is the   *)
(* caller's (the HTTP request of runWorkflow, the terminal of opctl, the   *)
(* cron scheduler): when it is cancelled nothing can be written any more.  *)
(*                                                                         *)
(* Runs share nothing but the agents, so one run is modelled.  A layer of  *)
(* one step, which the code executes without a goroutine, is no special    *)
(* case.                                                                   *)
(***************************************************************************)
EXTENDS Naturals, Sequences

CONSTANTS
  Steps,     \* the steps of the workflow
  Plans,     \* workflows to run, with the layers that buildDAG makes of them
  MaxFaults  \* bound on the writes to the store that fail

Before(layers, k) == UNION {layers[j] : j \in 1 .. k - 1}

\* What DagSort shows of every accepted workflow: each step is in one layer, behind
\* the layers of its dependencies.
PlansAssumption ==
  \A p \in Plans :
    /\ p.deps \in [Steps -> SUBSET Steps]
    /\ p.layers \in Seq(SUBSET Steps) /\ p.layers # << >>
    /\ \A s \in Steps : \E k \in DOMAIN p.layers :
         /\ s \in p.layers[k]
         /\ \A j \in DOMAIN p.layers \ {k} : s \notin p.layers[j]
         /\ p.deps[s] \subseteq Before(p.layers, k)

ASSUME ConstantsAssumption == PlansAssumption /\ MaxFaults \in Nat

VARIABLES
  deps, layers,  \* the workflow
  at,            \* layerIdx
  runStatus,     \* run.Status
  steps,         \* steps[s]: run.Steps[s].Status
  outputs,       \* the keys of the map outputs
  firstErr,      \* whether firstErr is set
  pc,            \* where the goroutine of each step is
  seen,          \* seen[s]: the snapshot of outputs from which s has its message
  row,           \* row[s]: status in the table tasks, or "none"
  ctxDone,       \* the context is cancelled
  faults         \* writes that failed otherwise

vars == <<deps, layers, at, runStatus, steps, outputs, firstErr, pc, seen, row, ctxDone,
          faults>>
plan == <<deps, layers>>
run  == <<at, runStatus, steps, outputs, firstErr>>

-----------------------------------------------------------------------------
Init ==
  /\ \E p \in Plans : deps = p.deps /\ layers = p.layers
  /\ at = 1 /\ runStatus = "Running"
  /\ steps = [s \in Steps |-> "Pending"]
  /\ outputs = {} /\ firstErr = FALSE
  /\ pc = [s \in Steps |-> "idle"]
  /\ seen = [s \in Steps |-> {}]
  /\ row = [s \in Steps |-> "none"]
  /\ ctxDone = FALSE /\ faults = 0

Goto(s, l) == pc' = [pc EXCEPT ![s] = l]

\* A write to the row of s.
Written(s, status) == ~ctxDone /\ row' = [row EXCEPT ![s] = status] /\ UNCHANGED faults

NotWritten ==
  /\ \/ ctxDone /\ UNCHANGED faults
     \/ faults < MaxFaults /\ faults' = faults + 1
  /\ UNCHANGED row

\* ExecuteTask logs an update that fails and goes on.
UpdateTask(s, status) == Written(s, status) \/ NotWritten

\* A goroutine copies outputs and puts them into the message.
TakeSnapshot(s) ==
  /\ runStatus = "Running" /\ s \in layers[at] /\ pc[s] = "idle"
  /\ seen' = [seen EXCEPT ![s] = outputs]
  /\ Goto(s, "create")
  /\ UNCHANGED <<plan, run, row, ctxDone, faults>>

CreateTask(s) ==
  /\ pc[s] = "create"
  /\ \/ Written(s, "Pending") /\ Goto(s, "task")
     \/ NotWritten /\ Goto(s, "failed")
  /\ UNCHANGED <<plan, run, seen, ctxDone>>

\* Mutant of RefuseTask: the row is left as it is.
RefuseSilently(s) ==
  /\ pc[s] = "task" /\ Goto(s, "failed")
  /\ UNCHANGED <<plan, run, seen, row, ctxDone, faults>>

\* The budget or the agent's quota is used up, or the agent does not run.
RefuseTask(s) ==
  /\ pc[s] = "task" /\ Goto(s, "failed")
  /\ UpdateTask(s, "Failed")
  /\ UNCHANGED <<plan, run, seen, ctxDone>>

StartTask(s) ==
  /\ pc[s] = "task" /\ Goto(s, "adapter")
  /\ UpdateTask(s, "Running")
  /\ UNCHANGED <<plan, run, seen, ctxDone>>

\* The adapter answers; it may have succeeded just when the context ended.
EndTask(s) ==
  /\ pc[s] = "adapter"
  /\ \/ UpdateTask(s, "Completed") /\ Goto(s, "ok")
     \/ UpdateTask(s, "Failed") /\ Goto(s, "failed")
  /\ UNCHANGED <<plan, run, seen, ctxDone>>

\* Mutant of RecordStep: the status is still the one executeStep began with.
RecordRunning(s) ==
  /\ pc[s] = "ok" /\ Goto(s, "recorded")
  /\ steps' = [steps EXCEPT ![s] = "Running"] /\ outputs' = outputs \cup {s}
  /\ UNCHANGED <<plan, at, runStatus, firstErr, seen, row, ctxDone, faults>>

\* Mutant of RecordStep: the last step of the layer decides on the error.
RecordLast(s) ==
  /\ pc[s] \in {"ok", "failed"} /\ Goto(s, "recorded")
  /\ steps' = [steps EXCEPT ![s] = IF pc[s] = "ok" THEN "Completed" ELSE "Failed"]
  /\ outputs' = IF pc[s] = "ok" THEN outputs \cup {s} ELSE outputs
  /\ firstErr' = (pc[s] = "failed")
  /\ UNCHANGED <<plan, at, runStatus, seen, row, ctxDone, faults>>

\* Mutant of RecordStep: a goroutine that fails does not sign off.
RecordSuccess(s) ==
  /\ pc[s] = "ok" /\ Goto(s, "recorded")
  /\ steps' = [steps EXCEPT ![s] = "Completed"] /\ outputs' = outputs \cup {s}
  /\ UNCHANGED <<plan, at, runStatus, firstErr, seen, row, ctxDone, faults>>

\* The goroutine takes the lock, enters its result and signs off.
RecordStep(s) ==
  /\ Goto(s, "recorded")
  /\ \/ /\ pc[s] = "ok"
        /\ steps' = [steps EXCEPT ![s] = "Completed"]
        /\ outputs' = outputs \cup {s}
        /\ UNCHANGED firstErr
     \/ /\ pc[s] = "failed"
        /\ steps' = [steps EXCEPT ![s] = "Failed"]
        /\ firstErr' = TRUE
        /\ UNCHANGED outputs
  /\ UNCHANGED <<plan, at, runStatus, seen, row, ctxDone, faults>>

\* The next layer, or the end.
Proceed ==
  /\ ~firstErr
  /\ IF at < Len(layers)
       THEN at' = at + 1 /\ UNCHANGED runStatus
       ELSE runStatus' = "Completed" /\ UNCHANGED at
  /\ UNCHANGED steps

\* What has not begun is skipped.
GiveUp ==
  /\ firstErr
  /\ runStatus' = "Failed"
  /\ steps' = [s \in Steps |-> IF steps[s] = "Pending" THEN "Skipped" ELSE steps[s]]
  /\ UNCHANGED at

\* Mutant of EndLayer: the first goroutine that signs off ends the layer.
EndLayerEarly ==
  /\ runStatus = "Running"
  /\ \E s \in layers[at] : pc[s] = "recorded"
  /\ Proceed \/ GiveUp
  /\ UNCHANGED <<plan, outputs, firstErr, pc, seen, row, ctxDone, faults>>

\* wg.Wait returns.
EndLayer ==
  /\ runStatus = "Running"
  /\ \A s \in layers[at] : pc[s] = "recorded"
  /\ Proceed \/ GiveUp
  /\ UNCHANGED <<plan, outputs, firstErr, pc, seen, row, ctxDone, faults>>

\* The client disconnects, or the cron scheduler is stopped.
Cancel ==
  /\ ~ctxDone /\ ctxDone' = TRUE
  /\ UNCHANGED <<plan, run, pc, seen, row, faults>>

Engine ==
  \/ \E s \in Steps : TakeSnapshot(s) \/ CreateTask(s) \/ RefuseTask(s) \/ StartTask(s)
                      \/ RecordStep(s)
  \/ EndLayer

Next == Engine \/ (\E s \in Steps : EndTask(s)) \/ Cancel

Spec == Init /\ [][Next]_vars

\* Goroutines run.  An adapter may take as long as it likes, but it has handed the
\* context to its process or request and answers when that is cancelled (all adapters
\* but the stdio mode of pkg/adapter/custom, which reads on regardless).
FairSpec ==
  Spec /\ WF_vars(Engine) /\ WF_vars(ctxDone /\ \E s \in Steps : EndTask(s))

-----------------------------------------------------------------------------
(* Properties.                                                             *)

\* Every variable has its type; in particular the status Running, with which
\* executeStep begins, never reaches the report.
TypeOK ==
  /\ deps \in [Steps -> SUBSET Steps] /\ layers \in Seq(SUBSET Steps)
  /\ at \in DOMAIN layers
  /\ runStatus \in {"Running", "Completed", "Failed"}
  /\ steps \in [Steps -> {"Pending", "Completed", "Failed", "Skipped"}]
  /\ outputs \subseteq Steps /\ firstErr \in BOOLEAN
  /\ pc \in [Steps -> {"idle", "create", "task", "adapter", "ok", "failed", "recorded"}]
  /\ seen \in [Steps -> SUBSET Steps]
  /\ row \in [Steps -> {"none", "Pending", "Running", "Completed", "Failed"}]
  /\ ctxDone \in BOOLEAN /\ faults \in Nat

\* The message of a step is made when the outputs of everything it depends on, directly
\* or not, are there: whatever it may name of earlier layers is substituted, whichever
\* of its siblings are faster.
InputsComplete ==
  \A s \in Steps : pc[s] # "idle" =>
    /\ deps[s] \subseteq seen[s]
    /\ \A k \in DOMAIN layers : s \in layers[k] => Before(layers, k) \subseteq seen[s]

\* The report that Execute returns tells the truth: the layers before the failing one
\* are complete, the failing one was executed to the end, nothing behind it was begun,
\* and no goroutine is left behind.
ReportIsTrue ==
  runStatus # "Running" =>
    /\ \A s \in Steps : pc[s] \in {"idle", "recorded"}
    /\ \A s \in Before(layers, at) : steps[s] = "Completed"
    /\ \A s \in layers[at] : steps[s] \in {"Completed", "Failed"}
    /\ \A s \in Steps \ Before(layers, at + 1) : steps[s] = "Skipped" /\ row[s] = "none"
    /\ runStatus = "Failed" <=> \E s \in Steps : steps[s] = "Failed"

\* The task records and the report agree: a row never ends with the opposite of what
\* is reported, and says the same when all writes got through.
RowsAgree ==
  \A s \in Steps : pc[s] = "recorded" =>
    /\ row[s] \in {"Completed", "Failed"} => row[s] = steps[s]
    /\ row[s] = "none" => steps[s] = "Failed"
    /\ ~ctxDone /\ faults = 0 => row[s] = steps[s]

DAG == INSTANCE DagRun WITH Nodes <- Steps, started <- {s \in Steps : row[s] # "none"},
                            finished <- outputs

\* A task record is made for a step only when its dependencies have completed.
Contract == DAG!Spec

\* Once its caller has gone, a run comes to its end.
CancelEndsRun == ctxDone ~> runStatus # "Running"
=============================================================================
