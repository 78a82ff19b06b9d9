--------------------------- MODULE AgentLifecycle ---------------------------
(***************************************************************************)
(* The life of one agent in the controller (pkg/controller): its row in    *)
(* the table agents, its entry in the map c.agents, and the instances of   *)
(* its adapter.  Apply, StartAgent, StopAgent, DeleteAgent, RestartAgent   *)
(* and ExecuteTask are called by handlers that nothing serialises; the     *)
(* health loop restarts a sick agent in a goroutine of its own; and the    *)
(* daemon may crash and recover the agents from their rows.                *)
(*                                                                         *)
(* A record is read and written back whole, but of its fields only the     *)
(* phase is modelled.  All operations but Apply set the phase they write,  *)
(* so that reading before writing is a step of its own only there.  The    *)
(* specs applied enable recovery (without it the health loop only counts)  *)
(* and are of a type that has an adapter (of another, StartAgent returns   *)
(* at once and leaves the row as it is).                                   *)
(***************************************************************************)
EXTENDS Naturals, FiniteSets

CONSTANTS
  Callers,           \* handlers that run at the same time
  Autos,             \* goroutines that checkAndRestart starts
  Instances,         \* bound on the adapters that something refers to at once
  NoInstance,
  FailureThreshold,  \* spec.healthCheck.retries
  MaxRestarts,       \* spec.recovery.maxRestarts
  FailureCap,        \* bound on consecutiveFailures, beyond which it is not counted on
  MaxFaults,         \* bound on the writes to the store that fail
  MaxCrashes         \* bound on the crashes of the daemon

ASSUME ConstantsAssumption ==
  /\ Callers \cap Autos = {} /\ NoInstance \notin Instances
  /\ FailureThreshold \in Nat \ {0} /\ MaxRestarts \in Nat \ {0}
  /\ FailureCap \in Nat /\ FailureCap >= FailureThreshold
  /\ MaxFaults \in Nat /\ MaxCrashes \in Nat

Procs  == Callers \cup Autos
Phases == {"Created", "Running", "Stopped", "Failed", "Retrying"}
Rows   == Phases \cup {"absent"}

Operations == {"apply", "start", "stop", "delete", "restart", "freshRestart", "task",
               "pause", "breaker", "auto", "recover"}
Labels == {"idle", "applyWrite", "applyCreate", "startRead", "adapterStart", "writeRunning",
           "take", "adapterStop", "writeStopped", "deleteRow", "resetCount", "autoFailed",
           "execute", "writePaused", "writeTripped"}

VARIABLES
  row,           \* phase of the agent's row, or "absent"
  agent,         \* c.agents[name]
  inst,          \* inst[i]: how the instance is, or "none" if nothing refers to it
  pc, op,        \* where a process is, and in which operation
  held,          \* held[p]: an instance in a local variable of p
  rec,           \* rec[p]: phase of the record that Apply read
  check, seen,   \* health loop: where it is, and the instance of its snapshot
  failures,      \* consecutiveFailures
  restartCount,
  backoffOver,   \* the backoff since lastRestart has passed
  daemon,        \* whether RecoverAgents has returned
  overlap,       \* history: two operations were under way at once
  faults, crashes

store  == <<row, faults>>
procs  == <<pc, op, held, rec>>
health == <<check, seen, failures>>
limits == <<restartCount, backoffOver>>
world  == <<daemon, overlap, crashes>>
vars   == <<row, agent, inst, pc, op, held, rec, check, seen, failures, restartCount,
            backoffOver, daemon, overlap, faults, crashes>>

-----------------------------------------------------------------------------
Init ==
  /\ row = "absent" /\ agent = NoInstance
  /\ inst = [i \in Instances |-> "none"]
  /\ pc = [p \in Procs |-> "idle"] /\ op = [p \in Procs |-> "none"]
  /\ held = [p \in Procs |-> NoInstance] /\ rec = [p \in Procs |-> "absent"]
  /\ check = "idle" /\ seen = NoInstance /\ failures = 0
  /\ restartCount = 0 /\ backoffOver = TRUE
  /\ daemon = "serving" /\ overlap = FALSE /\ faults = 0 /\ crashes = 0

Goto(p, l)  == pc' = [pc EXCEPT ![p] = l]
Hold(p, i)  == held' = [held EXCEPT ![p] = i]
Busy        == {p \in Procs : pc[p] # "idle"}

\* An instance that nothing refers to is forgotten, also one that still runs.
Kept(f, a, s, h) ==
  [i \in Instances |-> IF i \in {a, s} \/ \E p \in Procs : h[p] = i THEN f[i] ELSE "none"]

Finish(p) ==
  /\ pc' = [pc EXCEPT ![p] = "idle"]
  /\ op' = [op EXCEPT ![p] = "none"]
  /\ daemon' = IF op[p] = "recover" THEN "serving" ELSE daemon

Become(p, o, l) ==
  /\ op' = [op EXCEPT ![p] = o] /\ pc' = [pc EXCEPT ![p] = l]

Continue(p, l) == Goto(p, l) /\ UNCHANGED <<op, daemon>>

\* A statement on the row fails, as when the client of a handler hangs up.
Fault == faults < MaxFaults /\ faults' = faults + 1 /\ UNCHANGED row

Write(r) == (row' = r /\ UNCHANGED faults) \/ Fault

\* An UPDATE changes nothing if the row is gone.
Update(phase) == Write(IF row = "absent" THEN row ELSE phase)

-----------------------------------------------------------------------------
\* A handler calls the controller.  Steps that only it can see are no steps here.
Enters(p) ==
  /\ pc[p] = "idle" /\ p \in Callers
  /\ overlap' = (overlap \/ Busy # {})

Called(p) == daemon = "serving" /\ Enters(p)

Apply(p) ==
  /\ Called(p)
  /\ rec' = [rec EXCEPT ![p] = row]
  /\ Become(p, "apply", IF row = "absent" THEN "applyCreate" ELSE "applyWrite")
  /\ UNCHANGED <<store, agent, inst, held, health, limits, daemon, crashes>>

ApplyWrite(p) ==
  /\ pc[p] = "applyWrite"
  /\ Update(rec[p]) /\ Finish(p)
  /\ rec' = [rec EXCEPT ![p] = "absent"]
  /\ UNCHANGED <<agent, inst, held, health, limits, overlap, crashes>>

\* The name is the primary key: an INSERT that comes second fails.
ApplyCreate(p) ==
  /\ pc[p] = "applyCreate"
  /\ Write(IF row = "absent" THEN "Created" ELSE row) /\ Finish(p)
  /\ UNCHANGED <<agent, inst, held, rec, health, limits, overlap, crashes>>

-----------------------------------------------------------------------------
Start(p) ==
  /\ Called(p) /\ Become(p, "start", "startRead")
  /\ UNCHANGED <<store, agent, inst, held, rec, health, limits, daemon, crashes>>

\* Where StartAgent returns to with an error, and without one.
StartFails(p) ==
  IF op[p] = "auto" THEN Continue(p, "autoFailed") ELSE Finish(p)
StartSucceeds(p) ==
  IF op[p] = "restart" THEN Continue(p, "resetCount") ELSE Finish(p)

StartRead(p) ==
  /\ pc[p] = "startRead"
  /\ \/ row # "absent" /\ Continue(p, "adapterStart") /\ UNCHANGED store
     \/ row = "absent" /\ StartFails(p) /\ UNCHANGED store
     \/ StartFails(p) /\ Fault
  /\ UNCHANGED <<agent, inst, held, rec, health, limits, overlap, crashes>>

\* Mutant of AdapterFails: the phase stays what it was.
FailSilently(p) ==
  /\ pc[p] = "adapterStart" /\ StartFails(p)
  /\ UNCHANGED <<store, agent, inst, held, rec, health, limits, overlap, crashes>>

AdapterFails(p) ==
  /\ pc[p] = "adapterStart"
  /\ Update("Failed") /\ StartFails(p)
  /\ UNCHANGED <<agent, inst, held, rec, health, limits, overlap, crashes>>

\* A new instance starts and is entered.  The entry of an agent that already runs is
\* overwritten; its instance is not stopped.
Register(p) ==
  /\ pc[p] = "adapterStart"
  /\ \E i \in Instances : inst[i] = "none"
  /\ agent' = CHOOSE i \in Instances : inst[i] = "none"
  /\ inst' = Kept([inst EXCEPT ![agent'] = "up"], agent', seen, held)
  /\ Goto(p, "writeRunning")
  /\ UNCHANGED <<store, op, held, rec, health, limits, world>>

WriteRunning(p) ==
  /\ pc[p] = "writeRunning"
  /\ Update("Running") /\ StartSucceeds(p)
  /\ UNCHANGED <<agent, inst, held, rec, health, limits, overlap, crashes>>

-----------------------------------------------------------------------------
Stop(p) ==
  /\ Called(p) /\ Become(p, "stop", "take")
  /\ UNCHANGED <<store, agent, inst, held, rec, health, limits, daemon, crashes>>

\* Where StopAgent returns to: most callers do not look at its error.
StopReturns(p, ok) ==
  CASE op[p] \in {"restart", "auto"} -> Continue(p, "startRead")
    [] op[p] = "delete"              -> Continue(p, "deleteRow")
    [] op[p] = "breaker"             -> Continue(p, "writeTripped")
    [] op[p] = "pause" /\ ok         -> Continue(p, "writePaused")
    [] OTHER                         -> Finish(p)

\* Mutant of Take: the entry is read, and deleted only when the adapter has stopped.
TakeShared(p) ==
  /\ pc[p] = "take"
  /\ IF agent = NoInstance
       THEN StopReturns(p, FALSE) /\ UNCHANGED held
       ELSE Continue(p, "adapterStop") /\ Hold(p, agent)
  /\ UNCHANGED <<store, agent, inst, rec, health, limits, overlap, crashes>>

Take(p) ==
  /\ pc[p] = "take"
  /\ IF agent = NoInstance
       THEN StopReturns(p, FALSE) /\ UNCHANGED <<agent, held>>
       ELSE Continue(p, "adapterStop") /\ Hold(p, agent) /\ agent' = NoInstance
  /\ UNCHANGED <<store, inst, rec, health, limits, overlap, crashes>>

AdapterStop(p) ==
  /\ pc[p] = "adapterStop"
  /\ Hold(p, NoInstance)
  /\ inst' = Kept([inst EXCEPT ![held[p]] = "stopped"], agent, seen, held')
  /\ Goto(p, "writeStopped")
  /\ UNCHANGED <<store, agent, op, rec, health, limits, world>>

WriteStopped(p) ==
  /\ pc[p] = "writeStopped"
  /\ Update("Stopped") /\ StopReturns(p, TRUE)
  /\ UNCHANGED <<agent, inst, held, rec, health, limits, overlap, crashes>>

Delete(p) ==
  /\ Called(p)
  /\ Become(p, "delete", IF agent = NoInstance THEN "deleteRow" ELSE "take")
  /\ UNCHANGED <<store, agent, inst, held, rec, health, limits, daemon, crashes>>

DeleteRow(p) ==
  /\ pc[p] = "deleteRow"
  /\ Write("absent") /\ Finish(p)
  /\ UNCHANGED <<agent, inst, held, rec, health, limits, overlap, crashes>>

-----------------------------------------------------------------------------
Restart(p) ==
  /\ Called(p)
  /\ IF agent = NoInstance THEN Become(p, "freshRestart", "startRead")
                           ELSE Become(p, "restart", "take")
  /\ UNCHANGED <<store, agent, inst, held, rec, health, limits, daemon, crashes>>

ResetCount(p) ==
  /\ pc[p] = "resetCount"
  /\ restartCount' = 0 /\ backoffOver' = TRUE
  /\ Finish(p)
  /\ UNCHANGED <<store, agent, inst, held, rec, health, overlap, crashes>>

\* The goroutine of checkAndRestart ends.
AutoFailed(p) ==
  /\ pc[p] = "autoFailed"
  /\ Update("Failed") /\ Finish(p)
  /\ UNCHANGED <<agent, inst, held, rec, health, limits, overlap, crashes>>

\* ExecuteTask finds the adapter; the quota may then pause the agent.  (A task that is
\* refused at once touches nothing here.)  The gateway brings tasks even before
\* RecoverAgents has returned.
ExecuteTask(p) ==
  /\ Enters(p) /\ agent # NoInstance
  /\ \/ Become(p, "task", "execute")
     \/ Become(p, "pause", "take")
  /\ UNCHANGED <<store, agent, inst, held, rec, health, limits, daemon, crashes>>

\* The adapter answers.  Any failure may be the one that trips the circuit breaker.
Execute(p) ==
  /\ pc[p] = "execute"
  /\ \/ Finish(p)
     \/ Become(p, "breaker", "take") /\ UNCHANGED daemon
  /\ UNCHANGED <<store, agent, inst, held, rec, health, limits, overlap, crashes>>

MarkPhase(p, l, phase) ==
  /\ pc[p] = l
  /\ Update(phase) /\ Finish(p)
  /\ UNCHANGED <<agent, inst, held, rec, health, limits, overlap, crashes>>

WritePaused(p)  == MarkPhase(p, "writePaused", "Stopped")
WriteTripped(p) == MarkPhase(p, "writeTripped", "Failed")

-----------------------------------------------------------------------------
\* The health loop copies the map.
Snapshot ==
  /\ check = "idle" /\ agent # NoInstance
  /\ check' = "ask" /\ seen' = agent
  /\ UNCHANGED <<store, agent, inst, procs, failures, limits, world>>

\* Mutant of AskHealth: the count is not kept from check to check.
AskAgain ==
  /\ check = "ask" /\ seen' = NoInstance /\ check' = "idle" /\ failures' = 0
  /\ inst' = Kept(inst, agent, NoInstance, held)
  /\ UNCHANGED <<store, agent, procs, limits, world>>

\* It asks the adapter, before it takes the lock, and counts every answer in a row that
\* is not healthy, also those after the threshold.
AskHealth ==
  /\ check = "ask" /\ seen' = NoInstance
  /\ IF inst[seen] = "up"
       THEN failures' = 0 /\ check' = "idle"
       ELSE /\ failures' = IF failures < FailureCap THEN failures + 1 ELSE failures
            /\ check' = IF failures' < FailureThreshold THEN "idle" ELSE "due"
  /\ inst' = Kept(inst, agent, NoInstance, held)
  /\ UNCHANGED <<store, agent, procs, limits, world>>

\* The failures go on being counted until a restart, or a healthy answer.
Wait ==
  /\ check = "due" /\ check' = "idle"
  /\ restartCount < MaxRestarts /\ ~backoffOver
  /\ UNCHANGED <<store, agent, inst, procs, seen, failures, limits, world>>

GiveUp ==
  /\ check = "due" /\ check' = "idle" /\ restartCount >= MaxRestarts
  /\ Update("Failed")
  /\ UNCHANGED <<agent, inst, procs, seen, failures, limits, world>>

\* Mutant of AutoRestart: off by one at the limit.
AutoRestartOnceMore ==
  \E p \in Autos :
    /\ check = "due" /\ check' = "idle" /\ failures' = 0 /\ pc[p] = "idle"
    /\ restartCount <= MaxRestarts /\ backoffOver
    /\ restartCount' = restartCount + 1 /\ backoffOver' = FALSE
    /\ Update("Retrying") /\ Become(p, "auto", "take")
    /\ overlap' = (overlap \/ Busy # {})
    /\ UNCHANGED <<agent, inst, held, rec, seen, daemon, crashes>>

AutoRestart ==
  \E p \in Autos :
    /\ check = "due" /\ check' = "idle" /\ failures' = 0 /\ pc[p] = "idle"
    /\ restartCount < MaxRestarts /\ backoffOver
    /\ restartCount' = restartCount + 1 /\ backoffOver' = FALSE
    /\ Update("Retrying") /\ Become(p, "auto", "take")
    /\ overlap' = (overlap \/ Busy # {})
    /\ UNCHANGED <<agent, inst, held, rec, seen, daemon, crashes>>

BackoffEnds ==
  /\ ~backoffOver /\ backoffOver' = TRUE
  /\ UNCHANGED <<store, agent, inst, procs, health, restartCount, world>>

-----------------------------------------------------------------------------
\* The connection of the adapter breaks, or its process dies.
FallSick ==
  /\ agent # NoInstance /\ inst[agent] = "up"
  /\ inst' = [inst EXCEPT ![agent] = "sick"]
  /\ UNCHANGED <<store, agent, procs, health, limits, world>>

\* All but the row is lost.
Crash ==
  /\ crashes < MaxCrashes /\ crashes' = crashes + 1
  /\ daemon' = "recovering" /\ overlap' = FALSE
  /\ agent' = NoInstance /\ inst' = [i \in Instances |-> "none"]
  /\ pc' = [p \in Procs |-> "idle"] /\ op' = [p \in Procs |-> "none"]
  /\ held' = [p \in Procs |-> NoInstance] /\ rec' = [p \in Procs |-> "absent"]
  /\ check' = "idle" /\ seen' = NoInstance /\ failures' = 0
  /\ restartCount' = 0 /\ backoffOver' = TRUE
  /\ UNCHANGED store

\* RecoverAgents, which serve calls before it starts the server.
RecoverAgents(p) ==
  /\ daemon = "recovering" /\ Busy = {}
  /\ IF row = "Running" THEN Become(p, "recover", "startRead") /\ UNCHANGED daemon
                        ELSE daemon' = "serving" /\ UNCHANGED <<pc, op>>
  /\ UNCHANGED <<store, agent, inst, held, rec, health, limits, overlap, crashes>>

-----------------------------------------------------------------------------
Call(p) == Apply(p) \/ Start(p) \/ Stop(p) \/ Delete(p) \/ Restart(p) \/ ExecuteTask(p)

ProcessStep(p) ==
  \/ ApplyWrite(p) \/ ApplyCreate(p)
  \/ StartRead(p) \/ AdapterFails(p) \/ Register(p) \/ WriteRunning(p)
  \/ Take(p) \/ AdapterStop(p) \/ WriteStopped(p) \/ DeleteRow(p)
  \/ ResetCount(p) \/ AutoFailed(p) \/ Execute(p) \/ WritePaused(p) \/ WriteTripped(p)

HealthStep ==
  Snapshot \/ AskHealth \/ Wait \/ GiveUp \/ AutoRestart

Next ==
  \/ \E p \in Procs : ProcessStep(p)
  \/ \E p \in Callers : RecoverAgents(p) \/ Call(p)
  \/ HealthStep \/ BackoffEnds \/ FallSick \/ Crash

Spec == Init /\ [][Next]_vars

\* The health loop ticks, its goroutines go on, time passes.  Nothing is asked of the
\* handlers, each of which may hang in a call of its adapter.
Fairness ==
  WF_vars(HealthStep) /\ WF_vars(BackoffEnds) /\ \A p \in Autos : WF_vars(ProcessStep(p))

FairSpec == Spec /\ Fairness

-----------------------------------------------------------------------------
\* The type invariant: above all, restartCount does not pass the limit that the
\* agent's spec sets, whatever restarts and resets do at once.  Nothing of the kind
\* holds of the failures.
TypeOK ==
  /\ row \in Rows /\ agent \in Instances \cup {NoInstance}
  /\ inst \in [Instances -> {"up", "sick", "stopped", "none"}]
  /\ pc \in [Procs -> Labels] /\ op \in [Procs -> Operations \cup {"none"}]
  /\ held \in [Procs -> Instances \cup {NoInstance}] /\ rec \in [Procs -> Rows]
  /\ check \in {"idle", "ask", "due"}
  /\ seen \in Instances \cup {NoInstance} /\ failures \in 0 .. FailureCap
  /\ restartCount \in 0 .. MaxRestarts /\ backoffOver \in BOOLEAN
  /\ daemon \in {"serving", "recovering"} /\ overlap \in BOOLEAN
  /\ faults \in 0 .. MaxFaults /\ crashes \in 0 .. MaxCrashes

\* Each instance has one owner: the map, or the one StopAgent that took it out.  So
\* the adapter that GetAdapter finds has not been stopped, and however stops, restarts,
\* deletions, circuit breakers and the health loop meet, no adapter is stopped twice.
Stopping == {p \in Procs : pc[p] = "adapterStop"}
SingleOwner ==
  /\ agent # NoInstance => inst[agent] \in {"up", "sick"}
  /\ \A p \in Stopping :
       /\ held[p] # agent /\ inst[held[p]] \in {"up", "sick"}
       /\ \A q \in Stopping \ {p} : held[q] # held[p]

\* As long as the operations on an agent do not overlap (the health loop may look at it
\* at any moment) and no write is lost, its row tells at rest whether it runs: also after
\* a crash of the daemon, a restart that failed or a deletion.
RowIsTrue ==
  (Busy = {} /\ daemon = "serving" /\ ~overlap /\ faults = 0) =>
    /\ row = "Running" => agent # NoInstance
    /\ agent # NoInstance => row \in {"Running", "Failed"}

\* An agent that has become sick is taken out of service or shown as Failed, or its
\* daemon crashes: neither a backoff nor the limit on restarts leaves it as it is.
SickIsHandled ==
  []<>(agent = NoInstance \/ inst[agent] = "up" \/ row \in {"Failed", "absent"})

\* RestartAgent "resets the restart counter on successful restart", says its comment
\* (lifecycle.go:186); here where no operations overlapped.
RestartSucceeds(p) ==
  /\ op[p] \in {"restart", "freshRestart"} /\ pc[p] \in {"writeRunning", "resetCount"}
  /\ pc'[p] = "idle" /\ ~overlap /\ crashes' = crashes
RestartResets == [][\A p \in Procs : RestartSucceeds(p) => restartCount' = 0]_vars
=============================================================================
