------------------------------ MODULE CliAgents ------------------------------
(***************************************************************************)
(* The adapters of agents that are a command per task: pkg/adapter/        *)
(* claudecode and pkg/adapter/codex.  Tasks of one agent may overlap; the  *)
(* adapter keeps one command for Stop to end, that of Claude Code the      *)
(* exec.Cmd and that of Codex the function that cancels its context.       *)
(*                                                                         *)
(* Every task is executed once.  An adapter is stopped once: StartAgent    *)
(* makes a new one.  Streams, which only `opctl run --stream` asks for, of *)
(* a controller that has started no agent, are left out.                   *)
(***************************************************************************)
EXTENDS Naturals, FiniteSets

CONSTANT CliTasks

VARIABLES
  tool,      \* which of the two adapters
  cliPhase,  \* Adapter.phase
  slot,      \* activeCmd, or cancelFn: the task whose command it is (at most one)
  cmdAt,     \* where a task is in Execute
  command,   \* the process of a task
  cancelled, \* tasks whose context Stop has cancelled
  stopAt,    \* where Stop is; while it waits it has a.mu
  rival,     \* the task for whose process Stop's goroutine waits (at most one)
  cliHistory \* whether tasks have overlapped, and whether a task without a process was
             \* past the check of the phase when Stop came

cliVars == <<tool, cliPhase, slot, cmdAt, command, cancelled, stopAt, rival, cliHistory>>

InExecute == {t \in CliTasks : cmdAt[t] \notin {"new", "ended"}}
MuFree    == stopAt # "waiting"

-----------------------------------------------------------------------------
CliInit ==
  /\ tool \in {"claude", "codex"} /\ cliPhase = "Running"
  /\ slot = {} /\ cmdAt = [t \in CliTasks |-> "new"] /\ command = [t \in CliTasks |-> "none"]
  /\ cancelled = {} /\ stopAt = "no" /\ rival = {}
  /\ cliHistory = [overlapped |-> FALSE, late |-> FALSE]

TaskGoes(t, from, to) == cmdAt[t] = from /\ cmdAt' = [cmdAt EXCEPT ![t] = to]

\* Execute looks at the phase and unlocks a.mu.
AdmitCommand(t) ==
  /\ MuFree
  /\ \/ /\ cliPhase = "Running" /\ TaskGoes(t, "new", "admitted")
        /\ cliHistory' = [cliHistory EXCEPT !.overlapped = @ \/ InExecute # {}]
     \/ cliPhase # "Running" /\ TaskGoes(t, "new", "ended") /\ UNCHANGED cliHistory
  /\ UNCHANGED <<tool, cliPhase, slot, command, cancelled, stopAt, rival>>

\* It locks a.mu again for the slot, whatever the phase has become.
TakeSlot(t) ==
  /\ MuFree /\ TaskGoes(t, "admitted", "prepared") /\ slot' = {t}
  /\ UNCHANGED <<tool, cliPhase, command, cancelled, stopAt, rival, cliHistory>>

\* A command that is not found, or whose context is done, does not start.  The mutant
\* does not ask the context.
StartAnyway(t) ==
  /\ TaskGoes(t, "prepared", "running") /\ command' = [command EXCEPT ![t] = "alive"]
  /\ UNCHANGED <<tool, cliPhase, slot, cancelled, stopAt, rival, cliHistory>>

StartCommand(t) ==
  /\ \/ /\ t \notin cancelled /\ TaskGoes(t, "prepared", "running")
        /\ command' = [command EXCEPT ![t] = "alive"]
     \/ TaskGoes(t, "prepared", "returned") /\ UNCHANGED command
  /\ UNCHANGED <<tool, cliPhase, slot, cancelled, stopAt, rival, cliHistory>>

CommandEnds(t) ==
  /\ command[t] = "alive" /\ command' = [command EXCEPT ![t] = "dead"]
  /\ UNCHANGED <<tool, cliPhase, slot, cmdAt, cancelled, stopAt, rival, cliHistory>>

\* cmd.Output, or cmd.Run, returns.  When Stop waits for the same command, one of the two
\* learns of its end and the other waits for ever: os/exec tells it once.
CommandReturns(t) ==
  /\ command[t] = "dead" /\ TaskGoes(t, "running", "returned")
  /\ rival' = rival \ {t}
  /\ UNCHANGED <<tool, cliPhase, slot, command, cancelled, stopAt, cliHistory>>

\* Claude Code empties the slot, whose ever it is; Codex leaves its function there.
FreeSlot(t) ==
  /\ MuFree /\ TaskGoes(t, "returned", "ended")
  /\ slot' = IF tool = "claude" THEN {} ELSE slot
  /\ UNCHANGED <<tool, cliPhase, command, cancelled, stopAt, rival, cliHistory>>

-----------------------------------------------------------------------------
Killed(set) == [t \in CliTasks |-> IF t \in set /\ command[t] = "alive" THEN "dead" ELSE command[t]]
StopIsDone(phase) == cliPhase' = phase /\ stopAt' = "returned"
StopComes ==
  /\ stopAt = "no"
  /\ cliHistory' = [cliHistory EXCEPT !.late =
       \E t \in CliTasks : cmdAt[t] \in {"admitted"} \cup (IF tool = "claude" THEN {"prepared"} ELSE {})]

CodexStop ==
  /\ tool = "codex" /\ StopComes /\ StopIsDone("Stopped")
  /\ cancelled' = slot /\ command' = Killed(slot) /\ slot' = {}
  /\ UNCHANGED <<tool, cmdAt, rival>>

\* A command in the slot that has no process yet is taken for none, and of one that
\* Execute has been told of, Wait returns at once.
ClaudeStop ==
  /\ tool = "claude" /\ StopComes
  /\ LET awaited == {t \in slot : cmdAt[t] = "running"} IN
       \/ /\ awaited = {} /\ StopIsDone("Stopped") /\ slot' = {} /\ UNCHANGED rival
       \/ /\ awaited # {} /\ stopAt' = "waiting" /\ rival' = awaited
          /\ UNCHANGED <<cliPhase, slot>>
  /\ UNCHANGED <<tool, cmdAt, command, cancelled>>

\* Stop's goroutine learns of the end of the command: Execute never does.
RivalReturns ==
  /\ \E t \in rival : command[t] = "dead" /\ TaskGoes(t, "running", "hung")
  /\ rival' = {}
  /\ IF stopAt = "waiting" THEN StopIsDone("Stopped") /\ slot' = {}
                           ELSE UNCHANGED <<cliPhase, stopAt, slot>>
  /\ UNCHANGED <<tool, command, cancelled, cliHistory>>

\* The caller's context is done.
StopTimesOut ==
  /\ stopAt = "waiting" /\ StopIsDone("Terminated") /\ command' = Killed(slot)
  /\ UNCHANGED <<tool, slot, cmdAt, cancelled, rival, cliHistory>>

CliNext ==
  \/ \E t \in CliTasks :
       AdmitCommand(t) \/ TakeSlot(t) \/ StartCommand(t) \/ CommandEnds(t) \/ CommandReturns(t)
       \/ FreeSlot(t)
  \/ CodexStop \/ ClaudeStop \/ RivalReturns \/ StopTimesOut

CliSpec == CliInit /\ [][CliNext]_cliVars

-----------------------------------------------------------------------------
CliTypeOK ==
  /\ tool \in {"claude", "codex"} /\ cliPhase \in {"Running", "Stopped", "Terminated"}
  /\ slot \subseteq CliTasks /\ cancelled \subseteq CliTasks /\ rival \subseteq CliTasks
  /\ cmdAt \in [CliTasks -> {"new", "admitted", "prepared", "running", "returned", "ended", "hung"}]
  /\ command \in [CliTasks -> {"none", "alive", "dead"}]
  /\ stopAt \in {"no", "waiting", "returned"}
  /\ cliHistory \in [overlapped : BOOLEAN, late : BOOLEAN]

NoneAlive == \A t \in CliTasks : command[t] # "alive"

\* The commands of tasks that follow one another have ended when Stop returns, also the
\* one that Codex has prepared and not started, and one that outlives Stop's context:
\* the only ways past Stop are to overlap with another task, or to be between the check
\* of the phase and the process when it comes.
SerialStopIsClean ==
  (stopAt = "returned" /\ ~cliHistory.overlapped /\ ~cliHistory.late) => NoneAlive
=============================================================================
