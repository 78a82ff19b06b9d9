---------------------------- MODULE CustomAgent ----------------------------
(***************************************************************************)
(* The adapter of a custom agent (pkg/adapter/custom): a process that      *)
(* reads requests from its standard input and answers on its standard      *)
(* output, one request after the other.  Every task makes a scanner of its *)
(* own on that output, which reads ahead and is thrown away, with what it  *)
(* has read, when the task ends; lines carry no request ID.                *)
(*                                                                         *)
(* An answer is some lines with content and then a line that says done, or *)
(* a line with an error; the process writes nothing else.  One of its      *)
(* lines may be longer than bufio.Scanner takes, 64 KiB: then the scanner  *)
(* gives up with the rest of the answer unread.  Other lines are whole:    *)
(* that two scanners may share the bytes of one is left out.  The HTTP     *)
(* protocol has a connection per task and nothing shared but the process.  *)
(***************************************************************************)
EXTENDS Naturals, Sequences, SequencesExt

CONSTANTS
  StdioTasks,   \* tasks that are executed, each once
  AnswerLength, \* content lines of an answer
  MayEnd        \* whether the process may end of its own accord

ASSUME StdioAssumption == AnswerLength \in Nat \ {0} /\ MayEnd \in BOOLEAN

VARIABLES
  agentPhase,  \* Adapter.phase
  process,     \* the process that Start created; one that has ended exited, or was killed
  startCtx,    \* the context given to Start, which exec.CommandContext watches
  reaped,      \* cmd.Wait has returned, and has set ProcessState
  inbox,       \* requests in the pipe to the process
  stdout,      \* lines in the pipe from the process
  outputOpen,  \* cmd.Wait has not closed our end of the pipe
  task,        \* where a task is in Execute
  buffer,      \* buffer[t]: lines that the scanner of t has read ahead
  output,      \* output[t]: owners of the content that t has collected
  overlapped,  \* history: two tasks were under way at once
  cut          \* history: a scanner met a line that is too long for it

pipes     == <<inbox, stdout, outputOpen>>
readers   == <<task, buffer, output>>
stdioVars == <<agentPhase, process, startCtx, reaped, inbox, stdout, outputOpen, task, buffer,
               output, overlapped, cut>>
scans     == <<overlapped, cut>>

Content(t) == [owner |-> t, kind |-> "content"]
Done(t)    == [owner |-> t, kind |-> "done"]
Error(t)   == [owner |-> t, kind |-> "error"]
Long(t)    == [owner |-> t, kind |-> "long"]
Lines      == [owner : StdioTasks, kind : {"content", "done", "error", "long"}]
AnswerOf(t) == [i \in 1 .. AnswerLength |-> Content(t)]
WholeAnswers(t) == {Append(AnswerOf(t), Done(t)), <<Error(t)>>}
\* What the process may write for a request: one line at most is too long.
Answers(t) ==
  WholeAnswers(t)
    \cup UNION {{[a EXCEPT ![i] = Long(t)] : i \in DOMAIN a} : a \in WholeAnswers(t)}

Ended      == {"exited", "killed"}
UnderWay   == {t \in StdioTasks : task[t] = "scanning"}

-----------------------------------------------------------------------------
StdioInit ==
  /\ agentPhase = "Created" /\ process = "none" /\ startCtx = "open" /\ reaped = FALSE
  /\ inbox = <<>> /\ stdout = <<>> /\ outputOpen = TRUE
  /\ task = [t \in StdioTasks |-> "new"]
  /\ buffer = [t \in StdioTasks |-> <<>>] /\ output = [t \in StdioTasks |-> <<>>]
  /\ overlapped = FALSE /\ cut = FALSE

\* Start; a command that cannot be started leaves the phase Failed.
StartProcess ==
  /\ agentPhase = "Created"
  /\ \/ agentPhase' = "Running" /\ process' = "alive"
     \/ agentPhase' = "Failed" /\ UNCHANGED process
  /\ UNCHANGED <<startCtx, reaped, pipes, readers, scans>>

\* StartAgent returns: its deferred startCancel ends the context of Start.
StartAgentReturns ==
  /\ agentPhase = "Running" /\ startCtx = "open"
  /\ startCtx' = "done"
  /\ UNCHANGED <<agentPhase, process, reaped, pipes, readers, scans>>

\* os/exec kills a command whose context is done.
KilledByContext ==
  /\ startCtx = "done" /\ process = "alive"
  /\ process' = "killed"
  /\ UNCHANGED <<agentPhase, startCtx, reaped, pipes, readers, scans>>

\* The process answers the next request, or it ends, perhaps within an answer.
ProcessAnswers ==
  /\ process = "alive" /\ inbox # <<>>
  /\ inbox' = Tail(inbox)
  /\ \E answer \in Answers(Head(inbox)) : stdout' = stdout \o answer
  /\ UNCHANGED <<agentPhase, process, startCtx, reaped, outputOpen, readers, scans>>

ProcessEnds ==
  /\ MayEnd /\ process = "alive" /\ process' \in Ended
  /\ \/ UNCHANGED pipes
     \/ /\ inbox # <<>> /\ inbox' = Tail(inbox)
        /\ \E answer \in Answers(Head(inbox)) : \E n \in 0 .. Len(answer) - 1 :
             stdout' = stdout \o SubSeq(answer, 1, n)
        /\ UNCHANGED outputOpen
  /\ UNCHANGED <<agentPhase, startCtx, reaped, readers, scans>>

-----------------------------------------------------------------------------
End(t, how) ==
  /\ task' = [task EXCEPT ![t] = how]
  /\ buffer' = [buffer EXCEPT ![t] = <<>>]

\* Execute: the request is written to the process, unless it is gone.
WriteRequest(t) ==
  /\ task[t] = "new" /\ agentPhase = "Running"
  /\ IF process = "alive"
       THEN /\ inbox' = Append(inbox, t) /\ task' = [task EXCEPT ![t] = "scanning"]
            /\ overlapped' = (overlapped \/ UnderWay # {})
       ELSE task' = [task EXCEPT ![t] = "failed"] /\ UNCHANGED <<inbox, overlapped>>
  /\ UNCHANGED <<agentPhase, process, startCtx, reaped, stdout, outputOpen, buffer, output, cut>>

\* The scanner reads what the pipe holds, or as much as fits in its buffer, in which a
\* line that is too long never ends.
ReadAhead(t) ==
  /\ task[t] = "scanning" /\ buffer[t] = <<>> /\ outputOpen
  /\ \E n \in 1 .. Len(stdout) :
       /\ \A i \in 1 .. n : stdout[i].kind # "long"
       /\ buffer' = [buffer EXCEPT ![t] = SubSeq(stdout, 1, n)]
       /\ stdout' = SubSeq(stdout, n + 1, Len(stdout))
  /\ UNCHANGED <<agentPhase, process, startCtx, reaped, inbox, outputOpen, task, output, scans>>

\* Mutant of ScanLine: the first line is taken for the whole answer.
ScanFirstLine(t) ==
  /\ task[t] = "scanning" /\ buffer[t] # <<>>
  /\ LET line == Head(buffer[t]) IN
       /\ output' = IF line.kind = "content" THEN [output EXCEPT ![t] = Append(@, line.owner)]
                    ELSE output
       /\ End(t, IF line.kind = "error" THEN "failed" ELSE "completed")
  /\ UNCHANGED <<agentPhase, process, startCtx, reaped, pipes, scans>>

ScanLine(t) ==
  /\ task[t] = "scanning" /\ buffer[t] # <<>>
  /\ LET line == Head(buffer[t]) IN
       \/ /\ line.kind = "content"
          /\ output' = [output EXCEPT ![t] = Append(@, line.owner)]
          /\ buffer' = [buffer EXCEPT ![t] = Tail(@)] /\ UNCHANGED task
       \/ line.kind = "done" /\ End(t, "completed") /\ UNCHANGED output
       \/ line.kind = "error" /\ End(t, "failed") /\ UNCHANGED output
  /\ UNCHANGED <<agentPhase, process, startCtx, reaped, pipes, scans>>

\* The output of a process that has ended: a scanner takes the end of the file for
\* the end of the answer, and the task completes with what it has.
ScanEnd(t) ==
  /\ task[t] = "scanning" /\ buffer[t] = <<>>
  /\ process \in Ended /\ stdout = <<>> /\ outputOpen
  /\ End(t, "completed")
  /\ UNCHANGED <<agentPhase, process, startCtx, reaped, pipes, output, scans>>

\* cmd.Wait, called by Stop, has closed the pipe under the scanner.
ScanFails(t) ==
  /\ task[t] = "scanning" /\ buffer[t] = <<>> /\ ~outputOpen
  /\ End(t, "failed")
  /\ UNCHANGED <<agentPhase, process, startCtx, reaped, pipes, output, scans>>

\* bufio.ErrTooLong: the scanner has filled its buffer with the beginning of a line.  Its
\* rest stays in the pipe, for whoever reads next: no JSON, still too long, or, in the
\* text format, content.
ScanTooLong(t) ==
  /\ task[t] = "scanning" /\ buffer[t] = <<>> /\ outputOpen
  /\ stdout # <<>> /\ Head(stdout).kind = "long"
  /\ stdout' \in {Tail(stdout), stdout, <<Content(Head(stdout).owner)>> \o Tail(stdout)}
  /\ End(t, "failed") /\ cut' = TRUE
  /\ UNCHANGED <<agentPhase, process, startCtx, reaped, inbox, outputOpen, output, overlapped>>

\* Stop closes the process's input and waits for its end, or until the caller's
\* context ends; then it kills the process, and the wait ends later.
StopProcess ==
  /\ agentPhase \in {"Running", "Failed"}
  /\ \/ process = "none" /\ agentPhase' = "Stopped" /\ UNCHANGED <<process, reaped, outputOpen>>
     \/ /\ process # "none"
        /\ \/ agentPhase' = "Stopped"    /\ process' \in Ended
           \/ agentPhase' = "Terminated" /\ process' = "killed"
        /\ process # "alive" => process' = process
        /\ reaped' = TRUE /\ outputOpen' = FALSE
  /\ UNCHANGED <<startCtx, inbox, stdout, readers, scans>>

StdioNext ==
  \/ StartProcess \/ StartAgentReturns \/ KilledByContext \/ ProcessAnswers \/ ProcessEnds
  \/ \E t \in StdioTasks :
       WriteRequest(t) \/ ReadAhead(t) \/ ScanLine(t) \/ ScanEnd(t) \/ ScanFails(t)
       \/ ScanTooLong(t)
  \/ StopProcess

StdioSpec == StdioInit /\ [][StdioNext]_stdioVars

-----------------------------------------------------------------------------
\* Health, for the stdio protocol: only cmd.Wait sets the ProcessState it asks, which
\* has Exited only for a process that was not killed.
Healthy == process # "none" /\ ~(reaped /\ process = "exited")

StdioTypeOK ==
  /\ agentPhase \in {"Created", "Running", "Failed", "Stopped", "Terminated"}
  /\ process \in {"none", "alive"} \cup Ended /\ startCtx \in {"open", "done"}
  /\ reaped \in BOOLEAN /\ outputOpen \in BOOLEAN /\ overlapped \in BOOLEAN /\ cut \in BOOLEAN
  /\ inbox \in Seq(StdioTasks) /\ stdout \in Seq(Lines)
  /\ task \in [StdioTasks -> {"new", "scanning", "completed", "failed"}]
  /\ buffer \in [StdioTasks -> Seq(Lines)] /\ output \in [StdioTasks -> Seq(StdioTasks)]

\* Tasks that are executed one after the other do not see each other's answers,
\* whatever the scanners read ahead and throw away: what a task has collected is
\* its own, and complete when it completes while the process lives.  It is so up to the
\* first line over 64 KiB: the task that met it has failed, and the next one reads the
\* rest of its answer.
OwnAnswer ==
  (~overlapped /\ ~cut) =>
    \A t \in StdioTasks :
      /\ ToSet(output[t]) \subseteq {t}
      /\ task[t] = "completed" /\ process = "alive" => Len(output[t]) = AnswerLength

=============================================================================
