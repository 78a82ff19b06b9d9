---------------------------- MODULE AdapterProofs ----------------------------
(***************************************************************************)
(* Of the adapters that keep a connection or a process, for any number of  *)
(* tasks.  CustomAgent: tasks which follow one another have their own,     *)
(* complete answers (AnswerIsOwn), although every scanner reads ahead,     *)
(* until a line is too long for one.                                       *)
(* OpenClawAgent: every answer has one place at a time, from which both    *)
(* facts about the clean-up follow (DrainCorrect, NobodyCorrect).          *)
(* CliAgents: no command of tasks that follow one another outlives Stop    *)
(* (StopCorrect).                                                          *)
(***************************************************************************)
EXTENDS CustomAgent, OpenClawAgent, CliAgents, TLAPS

-----------------------------------------------------------------------------
(* CustomAgent.                                                            *)

USE DEF pipes, readers, scans

LEMMA AnswerLines ==
  ASSUME NEW t \in StdioTasks
  PROVE  /\ AnswerOf(t) \in Seq(Lines) /\ Len(AnswerOf(t)) = AnswerLength
         /\ \A i \in 1 .. AnswerLength : AnswerOf(t)[i] = Content(t)
  BY StdioAssumption DEF AnswerOf, Lines, Content

\* What a process answers: lines of the asking task, the i-th of which is AnswerLine(t, i),
\* or one that says that the request failed; any of them may be too long.
AnswerLine(t, i)  == IF i <= AnswerLength THEN Content(t) ELSE Done(t)
Line(line, t, i)  == line \in {AnswerLine(t, i), Long(t)}

LEMMA RepliesAre ==
  ASSUME NEW t \in StdioTasks, NEW reply \in WholeAnswers(t)
  PROVE  /\ reply \in Seq(Lines) /\ DOMAIN reply = 1 .. Len(reply)
         /\ \A i \in 1 .. Len(reply) : reply[i].owner = t
         /\ \/ /\ Len(reply) = AnswerLength + 1
               /\ \A i \in 1 .. Len(reply) : reply[i] = AnswerLine(t, i)
            \/ Len(reply) = 1 /\ reply[1] = Error(t)
  <1>1. CASE reply = <<Error(t)>>
    BY <1>1 DEF Error, Lines
  <1>2. CASE reply = Append(AnswerOf(t), Done(t))
    <2> DEFINE s == AnswerOf(t)
    <2>1. /\ s \in Seq(Lines) /\ Len(s) = AnswerLength
          /\ \A i \in 1 .. AnswerLength : s[i] = Content(t)
      BY AnswerLines
    <2>2. reply = Append(s, Done(t)) /\ Done(t) \in Lines  BY <1>2 DEF Done, Lines
    <2> HIDE DEF s
    <2>3. /\ reply \in Seq(Lines) /\ Len(reply) = AnswerLength + 1
          /\ \A i \in 1 .. AnswerLength : reply[i] = Content(t)
          /\ reply[AnswerLength + 1] = Done(t)
      BY <2>1, <2>2, StdioAssumption
    <2>4. \A i \in 1 .. Len(reply) : reply[i] = AnswerLine(t, i)
      BY <2>3, StdioAssumption DEF AnswerLine
    <2>5. \A i \in 1 .. Len(reply) : AnswerLine(t, i).owner = t
      BY DEF AnswerLine, Content, Done
    <2>6. QED  BY <2>3, <2>4, <2>5
  <1>3. QED  BY <1>1, <1>2 DEF WholeAnswers

LEMMA AnswerIs ==
  ASSUME NEW t \in StdioTasks, NEW answer \in Answers(t)
  PROVE  /\ answer \in Seq(Lines)
         /\ \A i \in 1 .. Len(answer) : answer[i].owner = t
         /\ \/ /\ Len(answer) = AnswerLength + 1
               /\ \A i \in 1 .. Len(answer) : Line(answer[i], t, i)
            \/ Len(answer) = 1 /\ answer[1] \in {Error(t), Long(t)}
  <1>1. CASE answer \in WholeAnswers(t)
    BY <1>1, RepliesAre DEF Line
  <1>2. ASSUME NEW reply \in WholeAnswers(t), NEW j \in DOMAIN reply,
               answer = [reply EXCEPT ![j] = Long(t)]
        PROVE  /\ answer \in Seq(Lines) /\ Len(answer) = Len(reply)
               /\ \A i \in 1 .. Len(reply) : answer[i] \in {reply[i], Long(t)}
    <2>1. reply \in Seq(Lines) /\ j \in 1 .. Len(reply)  BY RepliesAre
    <2>2. Long(t) \in Lines  BY DEF Long, Lines
    <2>3. QED  BY <1>2, <2>1, <2>2
  <1>3. ASSUME NEW reply \in WholeAnswers(t), NEW j \in DOMAIN reply,
               answer = [reply EXCEPT ![j] = Long(t)]
        PROVE  /\ \A i \in 1 .. Len(answer) : answer[i].owner = t
               /\ \/ /\ Len(answer) = AnswerLength + 1
                     /\ \A i \in 1 .. Len(answer) : Line(answer[i], t, i)
                  \/ Len(answer) = 1 /\ answer[1] \in {Error(t), Long(t)}
    <2>1. Long(t).owner = t  BY DEF Long
    <2>2. /\ Len(answer) = Len(reply)
          /\ \A i \in 1 .. Len(reply) : answer[i] \in {reply[i], Long(t)}
      BY <1>2, <1>3
    <2>3. \A i \in 1 .. Len(reply) : reply[i].owner = t  BY RepliesAre
    <2>4. CASE /\ Len(reply) = AnswerLength + 1
               /\ \A i \in 1 .. Len(reply) : reply[i] = AnswerLine(t, i)
      BY <2>1, <2>2, <2>3, <2>4 DEF Line
    <2>5. CASE Len(reply) = 1 /\ reply[1] = Error(t)
      BY <2>1, <2>2, <2>3, <2>5
    <2>6. QED  BY <2>4, <2>5, RepliesAre
  <1>4. QED  BY <1>1, <1>2, <1>3 DEF Answers

\* What a process wrote of an answer before it ended.
LEMMA Torn ==
  ASSUME NEW t \in StdioTasks, NEW answer \in Answers(t), NEW n \in 0 .. Len(answer) - 1
  PROVE  /\ SubSeq(answer, 1, n) \in Seq(Lines)
         /\ \A i \in 1 .. Len(SubSeq(answer, 1, n)) : SubSeq(answer, 1, n)[i].owner = t
  <1>1. answer \in Seq(Lines) /\ \A i \in 1 .. Len(answer) : answer[i].owner = t  BY AnswerIs
  <1>2. /\ SubSeq(answer, 1, n) \in Seq(Lines) /\ Len(SubSeq(answer, 1, n)) = n
        /\ \A i \in 1 .. n : SubSeq(answer, 1, n)[i] = answer[i]
    BY <1>1
  <1>3. QED  BY <1>1, <1>2

-----------------------------------------------------------------------------
\* The type invariant of the stdio adapter.
THEOREM StdioTypeCorrect == StdioSpec => []StdioTypeOK
  <1>1. ASSUME StdioInit PROVE StdioTypeOK
    <2>1. <<>> \in Seq(Lines) /\ <<>> \in Seq(StdioTasks)  OBVIOUS
    <2>2. buffer \in [StdioTasks -> Seq(Lines)] /\ output \in [StdioTasks -> Seq(StdioTasks)]
      BY <1>1, <2>1 DEF StdioInit
    <2>3. QED  BY <1>1, <2>1, <2>2 DEF StdioInit, StdioTypeOK, Ended
  <1>2. StdioTypeOK /\ [StdioNext]_stdioVars => StdioTypeOK'
    <2> SUFFICES ASSUME StdioTypeOK, [StdioNext]_stdioVars PROVE StdioTypeOK'  OBVIOUS
    <2> USE DEF StdioTypeOK, Ended
    <2>1. CASE StartProcess \/ StartAgentReturns \/ KilledByContext \/ StopProcess
      BY <2>1 DEF StartProcess, StartAgentReturns, KilledByContext, StopProcess
    <2>2. CASE ProcessAnswers
      <3>1. Head(inbox) \in StdioTasks /\ Tail(inbox) \in Seq(StdioTasks)
        BY <2>2 DEF ProcessAnswers
      <3>2. stdout' \in Seq(Lines)  BY <2>2, <3>1, AnswerIs DEF ProcessAnswers
      <3>3. QED  BY <2>2, <3>1, <3>2 DEF ProcessAnswers
    <2>3. CASE ProcessEnds
      <3>1. CASE UNCHANGED pipes  BY <2>3, <3>1 DEF ProcessEnds
      <3>2. CASE inbox # <<>> /\ UNCHANGED outputOpen /\ inbox' = Tail(inbox)
                 /\ \E answer \in Answers(Head(inbox)) : \E n \in 0 .. Len(answer) - 1 :
                      stdout' = stdout \o SubSeq(answer, 1, n)
        <4>1. Head(inbox) \in StdioTasks /\ Tail(inbox) \in Seq(StdioTasks)  BY <3>2
        <4>2. stdout' \in Seq(Lines)  BY <3>2, <4>1, Torn
        <4>3. QED  BY <2>3, <3>2, <4>1, <4>2 DEF ProcessEnds
      <3>3. QED  BY <2>3, <3>1, <3>2 DEF ProcessEnds
    <2>4. ASSUME NEW t \in StdioTasks, WriteRequest(t) PROVE StdioTypeOK'
      <3>1. Append(inbox, t) \in Seq(StdioTasks)  OBVIOUS
      <3>2. inbox' \in Seq(StdioTasks) /\ overlapped' \in BOOLEAN
        BY <2>4, <3>1 DEF WriteRequest
      <3>3. task' \in [StdioTasks -> {"new", "scanning", "completed", "failed"}]
        BY <2>4 DEF WriteRequest
      <3>4. QED  BY <2>4, <3>2, <3>3 DEF WriteRequest
    <2>5. ASSUME NEW t \in StdioTasks, ReadAhead(t) PROVE StdioTypeOK'
      <3>1. PICK n \in 1 .. Len(stdout) :
              /\ buffer' = [buffer EXCEPT ![t] = SubSeq(stdout, 1, n)]
              /\ stdout' = SubSeq(stdout, n + 1, Len(stdout))
        BY <2>5 DEF ReadAhead
      <3>2. SubSeq(stdout, 1, n) \in Seq(Lines) /\ SubSeq(stdout, n + 1, Len(stdout)) \in Seq(Lines)
        OBVIOUS
      <3>3. QED  BY <2>5, <3>1, <3>2 DEF ReadAhead
    <2>6. ASSUME NEW t \in StdioTasks, ScanLine(t) PROVE StdioTypeOK'
      <3>1. Head(buffer[t]) \in Lines /\ Tail(buffer[t]) \in Seq(Lines)  BY <2>6 DEF ScanLine
      <3>2. Head(buffer[t]).owner \in StdioTasks  BY <3>1 DEF Lines
      <3>3. buffer' \in [StdioTasks -> Seq(Lines)]
        <4>1. <<>> \in Seq(Lines)  OBVIOUS
        <4>2. QED  BY <2>6, <3>1, <4>1 DEF ScanLine, End
      <3>4. output' \in [StdioTasks -> Seq(StdioTasks)]
        <4>1. Append(output[t], Head(buffer[t]).owner) \in Seq(StdioTasks)  BY <3>2
        <4>2. QED  BY <2>6, <4>1 DEF ScanLine
      <3>5. task' \in [StdioTasks -> {"new", "scanning", "completed", "failed"}]
        BY <2>6 DEF ScanLine, End
      <3>6. QED  BY <2>6, <3>3, <3>4, <3>5 DEF ScanLine
    <2>7. ASSUME NEW t \in StdioTasks, ScanEnd(t) \/ ScanFails(t) PROVE StdioTypeOK'
      BY <2>7 DEF ScanEnd, ScanFails, End
    <2>8. ASSUME NEW t \in StdioTasks, ScanTooLong(t) PROVE StdioTypeOK'
      <3>1. Head(stdout).owner \in StdioTasks /\ Tail(stdout) \in Seq(Lines)
        <4>1. stdout # <<>> /\ stdout \in Seq(Lines)  BY <2>8 DEF ScanTooLong
        <4>2. Head(stdout) \in Lines /\ Tail(stdout) \in Seq(Lines)  BY <4>1
        <4>3. QED  BY <4>2 DEF Lines
      <3>2. <<Content(Head(stdout).owner)>> \o Tail(stdout) \in Seq(Lines)
        BY <3>1 DEF Content, Lines
      <3>3. stdout' \in Seq(Lines)  BY <2>8, <3>1, <3>2 DEF ScanTooLong
      <3>4. QED  BY <2>8, <3>3 DEF ScanTooLong, End
    <2>9. CASE UNCHANGED stdioVars  BY <2>9 DEF stdioVars
    <2>10. QED
      BY <2>1, <2>2, <2>3, <2>4, <2>5, <2>6, <2>7, <2>8, <2>9 DEF StdioNext
  <1>3. QED  BY <1>1, <1>2, PTL DEF StdioSpec

-----------------------------------------------------------------------------
(* Tasks that follow one another. *)
Asking(t)    == task[t] = "scanning"
Owned(s, t)  == \A i \in 1 .. Len(s) : s[i].owner = t
Unfinished   == process \in {"none", "alive"}

\* One task at a time asks; no other has lines, and one that has not begun has nothing.
Alone ==
  /\ \A t, u \in StdioTasks : Asking(t) /\ Asking(u) => t = u
  /\ \A t \in StdioTasks :
       /\ ~Asking(t) => buffer[t] = <<>>
       /\ task[t] = "new" => output[t] = <<>>

\* What is under way belongs to the task that asks; what was collected, to its task.
Mine ==
  /\ \A t \in StdioTasks : Asking(t) =>
       /\ \A i \in 1 .. Len(inbox) : inbox[i] = t
       /\ Owned(stdout, t) /\ Owned(buffer[t], t)
  /\ \A t \in StdioTasks : \A i \in 1 .. Len(output[t]) : output[t][i] = t

\* The process has still to answer t; or its answer, or its error, is in the pipe, in
\* the buffer and in the output of t, in this order.
Asked(t) == inbox = <<t>> /\ stdout = <<>> /\ buffer[t] = <<>> /\ output[t] = <<>>
Answered(t) ==
  /\ inbox = <<>> /\ Len(output[t]) <= AnswerLength
  /\ Len(output[t]) + Len(buffer[t]) + Len(stdout) = AnswerLength + 1
  /\ \A i \in 1 .. Len(buffer[t]) : buffer[t][i] = AnswerLine(t, Len(output[t]) + i)
  /\ \A i \in 1 .. Len(stdout) :
       Line(stdout[i], t, Len(output[t]) + Len(buffer[t]) + i)
Refused(t) ==
  /\ inbox = <<>> /\ output[t] = <<>>
  /\ \/ buffer[t] = <<>> /\ stdout \in {<<Error(t)>>, <<Long(t)>>}
     \/ buffer[t] = <<Error(t)>> /\ stdout = <<>>

\* As long as the process has not ended, and no line was too long, the pipes hold what the
\* asking task is waiting for and nothing else: that is why a task which ends leaves
\* nothing to the next.
InStep ==
  Unfinished =>
    /\ (\A t \in StdioTasks : ~Asking(t)) => inbox = <<>> /\ stdout = <<>>
    /\ \A t \in StdioTasks :
         /\ task[t] = "completed" => Len(output[t]) = AnswerLength
         /\ Asking(t) => process = "alive" /\ (Asked(t) \/ Answered(t) \/ Refused(t))

\* The process is there before the agent runs, and gone before its output is closed.
Reaped ==
  /\ agentPhase = "Created" => process = "none"
  /\ agentPhase = "Running" => process # "none"
  /\ ~outputOpen => ~Unfinished

Serial   == Alone /\ Mine /\ InStep
StdioInv == Reaped /\ (~overlapped /\ ~cut => Serial)

\* The steps of Start, Stop and the context change no line and no task.
LEMMA ProcessKeepsSerial ==
  ASSUME Reaped, Serial, StdioTypeOK,
         StartProcess \/ StartAgentReturns \/ KilledByContext \/ StopProcess
  PROVE  Serial'
  <1>1. UNCHANGED <<inbox, stdout, task, buffer, output>>
    BY DEF StartProcess, StartAgentReturns, KilledByContext, StopProcess
  <1>2. Unfinished' => Unfinished /\ (process' = process \/ process = "none")
    BY DEF StartProcess, StartAgentReturns, KilledByContext, StopProcess, Unfinished, Ended,
           Reaped
  <1>3. Alone' /\ Mine'  BY <1>1 DEF Serial, Alone, Mine, Asking, Owned
  <1>4. ASSUME Unfinished' PROVE InStep'
    <2>1. InStep /\ Unfinished  BY <1>2, <1>4 DEF Serial
    <2>2. \A t \in StdioTasks : Asking(t) => process' = "alive"
      BY <1>2, <1>4, <2>1 DEF InStep
    <2>3. QED  BY <1>1, <2>1, <2>2 DEF InStep, Asking, Asked, Answered, Refused
  <1>5. QED  BY <1>3, <1>4 DEF Serial, InStep

LEMMA AnswerKeepsSerial ==
  ASSUME Serial, StdioTypeOK, ProcessAnswers
  PROVE  Serial'
  <1>1. inbox # <<>> /\ process = "alive" /\ UNCHANGED <<process, task, buffer, output>>
    BY DEF ProcessAnswers
  <1>2. PICK t \in StdioTasks : Asking(t) /\ Asked(t)
    BY <1>1 DEF Serial, InStep, Unfinished, Answered, Refused
  <1>3. inbox = <<t>> /\ stdout = <<>> /\ buffer[t] = <<>> /\ output[t] = <<>>
    BY <1>2 DEF Asked
  <1>4. PICK answer \in Answers(t) : stdout' = stdout \o answer
    BY <1>3 DEF ProcessAnswers
  <1>5. inbox' = <<>> /\ stdout' = answer
    BY <1>3, <1>4, AnswerIs DEF ProcessAnswers
  <1>6. \A u \in StdioTasks : Asking(u) => u = t  BY <1>2 DEF Serial, Alone
  <1>7. Alone'  BY <1>1 DEF Serial, Alone, Asking
  <1>8. Mine'
    BY <1>1, <1>4, <1>5, <1>6, AnswerIs DEF Serial, Mine, Asking, Owned
  <1>9. Answered(t)' \/ Refused(t)'
    <2>1. CASE /\ Len(answer) = AnswerLength + 1
               /\ \A i \in 1 .. Len(answer) : Line(answer[i], t, i)
      BY <1>1, <1>3, <1>5, <2>1, StdioAssumption DEF Answered
    <2>2. CASE Len(answer) = 1 /\ answer[1] \in {Error(t), Long(t)}
      <3>1. answer \in Seq(Lines)  BY <1>4, AnswerIs
      <3>2. answer \in {<<Error(t)>>, <<Long(t)>>}  BY <2>2, <3>1
      <3>3. QED  BY <1>1, <1>3, <1>5, <3>2 DEF Refused
    <2>3. QED  BY <1>4, <2>1, <2>2, AnswerIs
  <1>10. InStep'
    BY <1>1, <1>2, <1>6, <1>9 DEF Serial, InStep, Unfinished, Asking
  <1>11. QED  BY <1>7, <1>8, <1>10 DEF Serial

LEMMA EndKeepsSerial ==
  ASSUME Serial, StdioTypeOK, ProcessEnds
  PROVE  Serial'
  <1>1. process' \in Ended /\ UNCHANGED <<task, buffer, output>>  BY DEF ProcessEnds
  <1>2. Alone' /\ InStep'
    BY <1>1 DEF Serial, Alone, Asking, InStep, Unfinished, Ended
  <1>3. Mine'
    <2>1. CASE UNCHANGED pipes  BY <1>1, <2>1 DEF Serial, Mine, Asking, Owned
    <2>2. ASSUME inbox # <<>>, inbox' = Tail(inbox),
                 NEW answer \in Answers(Head(inbox)), NEW n \in 0 .. Len(answer) - 1,
                 stdout' = stdout \o SubSeq(answer, 1, n)
          PROVE  Mine'
      <3> SUFFICES ASSUME NEW t \in StdioTasks, Asking(t)
                   PROVE  Owned(stdout', t) /\ \A i \in 1 .. Len(inbox') : inbox'[i] = t
        BY <1>1 DEF Serial, Mine, Asking, Owned
      <3>1. /\ inbox \in Seq(StdioTasks) /\ \A i \in 1 .. Len(inbox) : inbox[i] = t
            /\ Owned(stdout, t)
        BY DEF Serial, Mine, StdioTypeOK
      <3>2. Head(inbox) = t  BY <2>2, <3>1
      <3> DEFINE torn == SubSeq(answer, 1, n)
      <3>3. torn \in Seq(Lines) /\ \A i \in 1 .. Len(torn) : torn[i].owner = t
        BY <3>2, Torn
      <3>4. stdout' = stdout \o torn /\ stdout \in Seq(Lines)  BY <2>2, <3>2 DEF StdioTypeOK
      <3> HIDE DEF torn
      <3>5. Owned(stdout', t)
        <4>1. \A i \in 1 .. Len(stdout \o torn) :
                \/ i \in 1 .. Len(stdout) /\ (stdout \o torn)[i] = stdout[i]
                \/ /\ i - Len(stdout) \in 1 .. Len(torn)
                   /\ (stdout \o torn)[i] = torn[i - Len(stdout)]
          BY <3>3, <3>4
        <4>2. QED  BY <3>1, <3>3, <3>4, <4>1 DEF Owned
      <3>6. \A i \in 1 .. Len(inbox') : inbox'[i] = t  BY <2>2, <3>1
      <3>7. QED  BY <3>5, <3>6
    <2>3. QED  BY <2>1, <2>2 DEF ProcessEnds
  <1>4. QED  BY <1>2, <1>3 DEF Serial

LEMMA WriteKeepsSerial ==
  ASSUME Serial, StdioTypeOK, NEW t \in StdioTasks, WriteRequest(t), ~overlapped'
  PROVE  Serial'
  <1>1. task[t] = "new" /\ UNCHANGED <<process, stdout, buffer, output>>  BY DEF WriteRequest
  <1>2. buffer[t] = <<>> /\ output[t] = <<>>  BY <1>1 DEF Serial, Alone, Asking
  <1>3. CASE process = "alive"
    <2>1. task' = [task EXCEPT ![t] = "scanning"] /\ inbox' = Append(inbox, t)
      BY <1>3 DEF WriteRequest
    <2>2. \A u \in StdioTasks : ~Asking(u)
      BY <1>3 DEF WriteRequest, UnderWay, Asking
    <2>3. inbox = <<>> /\ stdout = <<>>
      BY <1>3, <2>2 DEF Serial, InStep, Unfinished
    <2>4. inbox' = <<t>>  BY <2>1, <2>3
    <2>5. \A u \in StdioTasks : task'[u] = IF u = t THEN "scanning" ELSE task[u]
      BY <2>1 DEF StdioTypeOK
    <2>6. Alone'  BY <1>1, <2>2, <2>5 DEF Serial, Alone, Asking
    <2>7. Mine'
      BY <1>1, <1>2, <2>2, <2>3, <2>4, <2>5 DEF Serial, Mine, Asking, Owned
    <2>8. Asked(t)'  BY <1>1, <1>2, <2>3, <2>4 DEF Asked
    <2>9. InStep'
      BY <1>1, <1>3, <2>2, <2>5, <2>8 DEF Serial, InStep, Unfinished, Asking
    <2>10. QED  BY <2>6, <2>7, <2>9 DEF Serial
  <1>4. CASE process # "alive"
    <2>1. task' = [task EXCEPT ![t] = "failed"] /\ UNCHANGED inbox
      BY <1>4 DEF WriteRequest
    <2>2. \A u \in StdioTasks : task'[u] = IF u = t THEN "failed" ELSE task[u]
      BY <2>1 DEF StdioTypeOK
    <2>3. Alone' /\ Mine'
      BY <1>1, <1>2, <2>1, <2>2 DEF Serial, Alone, Mine, Asking, Owned
    <2>4. ASSUME Unfinished' PROVE InStep'
      <3>1. process = "none" /\ process' = "none"  BY <1>1, <1>4, <2>4 DEF Unfinished
      <3>2. \A u \in StdioTasks : ~Asking(u)  BY <3>1 DEF Serial, InStep, Unfinished
      <3>3. QED
        BY <1>1, <2>1, <2>2, <3>1, <3>2 DEF Serial, InStep, Unfinished, Asking
    <2>5. QED  BY <2>3, <2>4 DEF Serial, InStep
  <1>5. QED  BY <1>3, <1>4

\* What has been read ahead is still in its place between the output and the pipe.
LEMMA ReadKeepsSerial ==
  ASSUME Serial, StdioTypeOK, NEW t \in StdioTasks, ReadAhead(t)
  PROVE  Serial'
  <1>1. Asking(t) /\ buffer[t] = <<>> /\ UNCHANGED <<process, inbox, task, output>>
    BY DEF ReadAhead, Asking
  <1>2. PICK n \in 1 .. Len(stdout) :
          /\ \A i \in 1 .. n : stdout[i].kind # "long"
          /\ buffer' = [buffer EXCEPT ![t] = SubSeq(stdout, 1, n)]
          /\ stdout' = SubSeq(stdout, n + 1, Len(stdout))
    BY DEF ReadAhead
  <1>3. /\ stdout \in Seq(Lines) /\ output[t] \in Seq(StdioTasks)
        /\ n \in Nat /\ n <= Len(stdout) /\ n > 0
    BY <1>2 DEF StdioTypeOK
  <1> DEFINE read == SubSeq(stdout, 1, n)
             rest == SubSeq(stdout, n + 1, Len(stdout))
  <1>4. /\ read \in Seq(Lines) /\ Len(read) = n
        /\ \A i \in 1 .. n : read[i] = stdout[i]
    BY <1>3
  <1>5. /\ rest \in Seq(Lines) /\ Len(rest) = Len(stdout) - n
        /\ \A i \in 1 .. Len(stdout) - n : rest[i] = stdout[n + i]
    BY <1>3
  <1>6. stdout' = rest /\ \A u \in StdioTasks : buffer'[u] = IF u = t THEN read ELSE buffer[u]
    BY <1>2 DEF StdioTypeOK
  <1> HIDE DEF read, rest
  <1>7. \A u \in StdioTasks : Asking(u) => u = t  BY <1>1 DEF Serial, Alone
  <1>8. Alone'  BY <1>1, <1>6, <1>7 DEF Serial, Alone, Asking
  <1>9. Mine'
    <2>1. Owned(stdout, t)  BY <1>1 DEF Serial, Mine
    <2>2. Owned(read, t) /\ Owned(rest, t)
      <3>1. Owned(read, t)  BY <1>3, <1>4, <2>1 DEF Owned
      <3>2. \A i \in 1 .. Len(rest) : n + i \in 1 .. Len(stdout)  BY <1>3, <1>5
      <3>3. Owned(rest, t)  BY <1>5, <2>1, <3>2 DEF Owned
      <3>4. QED  BY <3>1, <3>3
    <2>3. QED  BY <1>1, <1>6, <1>7, <2>2 DEF Serial, Mine, Asking, Owned
  <1>10. ASSUME Unfinished' PROVE InStep'
    <2>1. process = "alive" /\ (Asked(t) \/ Answered(t) \/ Refused(t))
      BY <1>1, <1>10 DEF Serial, InStep, Unfinished
    <2>2. stdout # <<>>  BY <1>2, <1>3
    <2>3. CASE Answered(t)
      <3>1. Len(buffer[t]) = 0 /\ Len(buffer'[t]) = n  BY <1>1, <1>4, <1>6
      <3>2. /\ inbox = <<>> /\ Len(output[t]) <= AnswerLength
            /\ Len(output[t]) + Len(stdout) = AnswerLength + 1
            /\ \A i \in 1 .. Len(stdout) : Line(stdout[i], t, Len(output[t]) + i)
        BY <1>3, <2>3, <3>1, StdioAssumption DEF Answered
      <3>3. \A i \in 1 .. n : read[i] = AnswerLine(t, Len(output[t]) + i)
        <4>1. \A i \in 1 .. n : stdout[i] # Long(t)  BY <1>2 DEF Long
        <4>2. QED  BY <1>3, <1>4, <3>2, <4>1 DEF Line
      <3>4. \A i \in 1 .. Len(rest) : Line(rest[i], t, Len(output[t]) + n + i)
        <4> TAKE i \in 1 .. Len(rest)
        <4>1. n + i \in 1 .. Len(stdout) /\ rest[i] = stdout[n + i]  BY <1>3, <1>5
        <4>2. Len(output[t]) \in Nat /\ i \in Nat  BY <1>3, <1>5
        <4>3. Len(output[t]) + (n + i) = Len(output[t]) + n + i
          <5>1. \A x, y, z \in Nat : x + (y + z) = x + y + z  OBVIOUS
          <5>2. QED  BY <1>3, <4>2, <5>1
        <4>4. QED  BY <3>2, <4>1, <4>3
      <3>5. Len(output[t]) + n + Len(rest) = AnswerLength + 1
        <4>1. Len(output[t]) \in Nat /\ Len(stdout) \in Nat /\ AnswerLength \in Nat
          BY <1>3, StdioAssumption
        <4>2. Len(output[t]) + n + (Len(stdout) - n) = Len(output[t]) + Len(stdout)
          BY <1>3, <4>1
        <4>3. QED  BY <1>5, <3>2, <4>2
      <3>6. Answered(t)'
        BY <1>1, <1>4, <1>6, <3>2, <3>3, <3>4, <3>5 DEF Answered
      <3>7. QED  BY <1>1, <1>7, <2>1, <3>6 DEF Serial, InStep, Unfinished, Asking
    <2>4. CASE Refused(t)
      <3>1. stdout = <<Error(t)>>
        <4>1. stdout # <<Long(t)>>  BY <1>2, <1>3 DEF Long
        <4>2. QED  BY <2>2, <2>4, <4>1 DEF Refused
      <3>2. n = 1 /\ read = <<Error(t)>> /\ rest = <<>>
        BY <1>3, <1>4, <1>5, <3>1
      <3>3. Refused(t)'  BY <1>1, <1>6, <2>4, <3>2 DEF Refused
      <3>4. QED  BY <1>1, <1>7, <2>1, <3>3 DEF Serial, InStep, Unfinished, Asking
    <2>5. QED  BY <2>1, <2>2, <2>3, <2>4 DEF Asked
  <1>11. QED  BY <1>8, <1>9, <1>10 DEF Serial, InStep

\* The next line is the next of the answer, or the one that ends the task: then
\* nothing is left in the pipe.
LEMMA ScanKeepsSerial ==
  ASSUME Serial, StdioTypeOK, NEW t \in StdioTasks, ScanLine(t)
  PROVE  Serial'
  <1> DEFINE line == Head(buffer[t])
             tail == Tail(buffer[t])
             b    == Len(buffer[t])
             o    == Len(output[t])
  <1>1. Asking(t) /\ buffer[t] # <<>> /\ UNCHANGED <<process, inbox, stdout>>
    BY DEF ScanLine, Asking
  <1>2. /\ buffer[t] \in Seq(Lines) /\ output[t] \in Seq(StdioTasks) /\ stdout \in Seq(Lines)
        /\ o \in Nat /\ b \in Nat /\ b > 0 /\ Len(stdout) \in Nat /\ AnswerLength \in Nat
    BY <1>1, StdioAssumption DEF StdioTypeOK
  <1>3. line = buffer[t][1]  BY <1>2
  <1>4. /\ tail \in Seq(Lines) /\ Len(tail) = b - 1
        /\ \A i \in 1 .. b - 1 : tail[i] = buffer[t][i + 1]
    <2>1. \A s \in Seq(Lines) : s # <<>> =>
            /\ Tail(s) \in Seq(Lines) /\ Len(Tail(s)) = Len(s) - 1
            /\ \A i \in 1 .. Len(s) - 1 : Tail(s)[i] = s[i + 1]
      OBVIOUS
    <2>2. QED  BY <1>1, <1>2, <2>1
  <1>5. \A u \in StdioTasks : Asking(u) => u = t  BY <1>1 DEF Serial, Alone
  <1>6. line.owner = t
    <2>1. Owned(buffer[t], t) /\ 1 \in 1 .. b  BY <1>1, <1>2 DEF Serial, Mine
    <2>2. QED  BY <1>3, <2>1 DEF Owned
  <1>7. Unfinished' =>
          process = "alive" /\ (Answered(t) \/ Refused(t))
    BY <1>1 DEF Serial, InStep, Unfinished, Asked
  <1>8. CASE line.kind = "content"
    <2> DEFINE out == Append(output[t], t)
    <2>1. /\ output' = [output EXCEPT ![t] = out] /\ buffer' = [buffer EXCEPT ![t] = tail]
          /\ UNCHANGED task
      BY <1>6, <1>8 DEF ScanLine
    <2>2. out \in Seq(StdioTasks) /\ Len(out) = o + 1 /\ out[o + 1] = t
          /\ \A i \in 1 .. o : out[i] = output[t][i]
      BY <1>2
    <2> HIDE DEF out, tail
    <2>3. /\ \A u \in StdioTasks : output'[u] = IF u = t THEN out ELSE output[u]
          /\ \A u \in StdioTasks : buffer'[u] = IF u = t THEN tail ELSE buffer[u]
      BY <2>1 DEF StdioTypeOK
    <2>4. Alone'  BY <1>1, <2>1, <2>3 DEF Serial, Alone, Asking
    <2>5. Mine'
      <3>1. \A i \in 1 .. Len(out) : out[i] = t
        <4>1. \A i \in 1 .. o : output[t][i] = t  BY DEF Serial, Mine
        <4> HIDE DEF o
        <4>2. \A i \in 1 .. o + 1 : i \in 1 .. o \/ i = o + 1  BY <1>2
        <4>3. QED  BY <2>2, <4>1, <4>2
      <3>2. Owned(buffer[t], t)  BY <1>1 DEF Serial, Mine
      <3>3. Owned(tail, t)
        <4>1. \A i \in 1 .. b - 1 : i + 1 \in 1 .. b  BY <1>2
        <4>2. QED  BY <1>4, <3>2, <4>1 DEF Owned
      <3>4. QED  BY <1>1, <1>5, <2>1, <2>3, <3>1, <3>3 DEF Serial, Mine, Asking, Owned
    <2>6. ASSUME Unfinished' PROVE InStep'
      <3>1. line # Error(t)  BY <1>8 DEF Error
      <3>2. Answered(t)
        <4>1. ASSUME Refused(t) PROVE FALSE
          <5>1. buffer[t] = <<Error(t)>>  BY <1>1, <4>1 DEF Refused
          <5>2. QED  BY <1>3, <3>1, <5>1
        <4>2. QED  BY <1>7, <2>6, <4>1
      <3>3. line = AnswerLine(t, o + 1)  BY <1>2, <1>3, <3>2 DEF Answered
      <3>4. o + 1 <= AnswerLength  BY <1>2, <1>8, <3>3 DEF AnswerLine, Done
      <3>5. \A i \in 1 .. b - 1 : tail[i] = AnswerLine(t, (o + 1) + i)
        <4>1. \A i \in 1 .. b : buffer[t][i] = AnswerLine(t, o + i)  BY <3>2 DEF Answered
        <4> HIDE DEF o, b
        <4> TAKE i \in 1 .. b - 1
        <4>2. i + 1 \in 1 .. b /\ o + (i + 1) = (o + 1) + i  BY <1>2
        <4>3. QED  BY <1>4, <4>1, <4>2
      <3>6. o + b + Len(stdout) = (o + 1) + (b - 1) + Len(stdout) /\ o + b = (o + 1) + (b - 1)
        <4> HIDE DEF o, b
        <4>1. QED  BY <1>2
      <3>7. Answered(t)'
        <4>1. output'[t] = out /\ buffer'[t] = tail /\ inbox' = <<>> /\ stdout' = stdout
          BY <1>1, <2>3, <3>2 DEF Answered
        <4>2. Len(output'[t]) = o + 1 /\ Len(buffer'[t]) = b - 1  BY <1>4, <2>2, <4>1
        <4>3. Len(output'[t]) + Len(buffer'[t]) + Len(stdout') = AnswerLength + 1
          BY <3>2, <3>6, <4>1, <4>2 DEF Answered
        <4>4. \A i \in 1 .. Len(stdout) : Line(stdout[i], t, (o + 1) + (b - 1) + i)
          BY <3>2, <3>6 DEF Answered
        <4> HIDE DEF o, b
        <4>5. QED  BY <3>4, <3>5, <4>1, <4>2, <4>3, <4>4 DEF Answered
      <3>8. QED
        BY <1>1, <1>5, <1>7, <2>1, <2>3, <2>6, <3>7 DEF Serial, InStep, Unfinished, Asking
    <2>7. QED  BY <2>4, <2>5, <2>6 DEF Serial, InStep
  <1>9. CASE line.kind # "content"
    <2>1. PICK how \in {"completed", "failed"} :
            /\ task' = [task EXCEPT ![t] = how] /\ buffer' = [buffer EXCEPT ![t] = <<>>]
            /\ UNCHANGED output
            /\ how = "completed" => line.kind = "done"
      BY <1>9 DEF ScanLine, End
    <2>2. /\ \A u \in StdioTasks : task'[u] = IF u = t THEN how ELSE task[u]
          /\ \A u \in StdioTasks : buffer'[u] = IF u = t THEN <<>> ELSE buffer[u]
      BY <2>1 DEF StdioTypeOK
    <2>3. \A u \in StdioTasks : ~(task'[u] = "scanning")  BY <1>5, <2>1, <2>2 DEF Asking
    <2>4. Alone' /\ Mine'
      BY <1>1, <2>1, <2>2, <2>3 DEF Serial, Alone, Mine, Asking
    <2>5. ASSUME Unfinished' PROVE InStep'
      <3>1. CASE Answered(t)
        <4>1. line = AnswerLine(t, o + 1)  BY <1>2, <1>3, <3>1 DEF Answered
        <4>2. ~(o + 1 <= AnswerLength)  BY <1>9, <4>1 DEF AnswerLine, Content
        <4>3. o = AnswerLength /\ Len(stdout) = 0 /\ inbox = <<>>
          <5>1. o <= AnswerLength /\ o + b + Len(stdout) = AnswerLength + 1 /\ inbox = <<>>
            BY <3>1 DEF Answered
          <5> HIDE DEF o, b
          <5>2. QED  BY <1>2, <4>2, <5>1
        <4>4. stdout = <<>>  BY <1>2, <4>3
        <4>5. QED
          BY <1>1, <2>1, <2>2, <2>3, <2>5, <4>3, <4>4 DEF Serial, InStep, Unfinished, Asking
      <3>2. CASE Refused(t)
        <4>1. buffer[t] = <<Error(t)>> /\ stdout = <<>> /\ inbox = <<>>  BY <1>1, <3>2 DEF Refused
        <4>2. how = "failed"  BY <1>3, <2>1, <4>1 DEF Error
        <4>3. QED
          BY <1>1, <2>1, <2>2, <2>3, <2>5, <4>1, <4>2 DEF Serial, InStep, Unfinished, Asking
      <3>3. QED  BY <1>7, <2>5, <3>1, <3>2
    <2>6. QED  BY <2>4, <2>5 DEF Serial, InStep
  <1>10. QED  BY <1>8, <1>9

LEMMA BreakKeepsSerial ==
  ASSUME Reaped, Serial, StdioTypeOK, NEW t \in StdioTasks, ScanEnd(t) \/ ScanFails(t)
  PROVE  Serial'
  <1>1. /\ Asking(t) /\ buffer[t] = <<>> /\ ~Unfinished
        /\ UNCHANGED <<process, inbox, stdout, output>>
    BY DEF ScanEnd, ScanFails, Asking, Reaped, Unfinished, Ended
  <1>2. PICK how \in {"completed", "failed"} :
          task' = [task EXCEPT ![t] = how] /\ buffer' = [buffer EXCEPT ![t] = <<>>]
    BY DEF ScanEnd, ScanFails, End
  <1>3. /\ \A u \in StdioTasks : task'[u] = IF u = t THEN how ELSE task[u]
        /\ \A u \in StdioTasks : buffer'[u] = IF u = t THEN <<>> ELSE buffer[u]
    BY <1>2 DEF StdioTypeOK
  <1>4. Alone' /\ Mine'  BY <1>1, <1>2, <1>3 DEF Serial, Alone, Mine, Asking
  <1>5. QED  BY <1>1, <1>4 DEF Serial, InStep, Unfinished

\* Tasks that follow one another do not see each other's answers, for any number of
\* tasks and of lines in an answer, as long as no line is too long for the scanner: what
\* was read ahead and thrown away was nothing, because a task ends with the last line
\* that there is.
THEOREM AnswerIsOwn == StdioSpec => []OwnAnswer
  <1>1. StdioInit => StdioInv
    BY DEF StdioInit, StdioInv, Reaped, Serial, Alone, Mine, InStep, Unfinished, Asking
  <1>2. StdioTypeOK /\ StdioInv /\ [StdioNext]_stdioVars => StdioInv'
    <2> SUFFICES ASSUME StdioTypeOK, StdioInv, [StdioNext]_stdioVars PROVE StdioInv'  OBVIOUS
    <2>1. Reaped  BY DEF StdioInv
    <2>2. Reaped'
      <3>1. CASE StartProcess \/ StartAgentReturns \/ KilledByContext \/ StopProcess
        BY <2>1, <3>1 DEF Reaped, Unfinished, Ended, StartProcess, StartAgentReturns,
                          KilledByContext, StopProcess
      <3>2. CASE ProcessAnswers \/ ProcessEnds
        BY <2>1, <3>2 DEF Reaped, Unfinished, Ended, ProcessAnswers, ProcessEnds
      <3>3. CASE \E t \in StdioTasks :
                   \/ WriteRequest(t) \/ ReadAhead(t) \/ ScanLine(t) \/ ScanEnd(t)
                   \/ ScanFails(t) \/ ScanTooLong(t)
        <4>1. UNCHANGED <<agentPhase, process, outputOpen>>
          BY <3>3 DEF WriteRequest, ReadAhead, ScanLine, ScanEnd, ScanFails, ScanTooLong
        <4>2. QED  BY <2>1, <4>1 DEF Reaped, Unfinished
      <3>4. CASE UNCHANGED stdioVars  BY <2>1, <3>4 DEF stdioVars, Reaped, Unfinished
      <3>5. QED  BY <3>1, <3>2, <3>3, <3>4 DEF StdioNext
    <2>3. ASSUME ~overlapped', ~cut' PROVE Serial'
      <3>1. ~overlapped /\ ~cut
        BY <2>3 DEF StdioTypeOK, StdioNext, stdioVars, StartProcess, StartAgentReturns,
                    KilledByContext, ProcessAnswers, ProcessEnds, WriteRequest, ReadAhead,
                    ScanLine, ScanEnd, ScanFails, ScanTooLong, StopProcess
      <3>2. Serial  BY <3>1 DEF StdioInv
      <3>3. CASE UNCHANGED stdioVars
        <4>1. Alone' /\ Mine'  BY <3>2, <3>3 DEF stdioVars, Serial, Alone, Mine, Asking, Owned
        <4>2. InStep'
          BY <3>2, <3>3 DEF stdioVars, Serial, InStep, Unfinished, Asking, Asked, Answered, Refused
        <4>3. QED  BY <4>1, <4>2 DEF Serial
      <3>4. ASSUME NEW t \in StdioTasks PROVE ~ScanTooLong(t)  BY <2>3 DEF ScanTooLong
      <3>5. QED
        BY <2>1, <2>3, <3>2, <3>3, <3>4, ProcessKeepsSerial, AnswerKeepsSerial, EndKeepsSerial,
           WriteKeepsSerial, ReadKeepsSerial, ScanKeepsSerial, BreakKeepsSerial DEF StdioNext
    <2>4. QED  BY <2>2, <2>3 DEF StdioInv
  <1>3. StdioTypeOK /\ StdioInv => OwnAnswer
    <2> SUFFICES ASSUME StdioTypeOK, Serial, NEW t \in StdioTasks
                 PROVE  /\ ToSet(output[t]) \subseteq {t}
                        /\ task[t] = "completed" /\ process = "alive" => Len(output[t]) = AnswerLength
      BY DEF StdioInv, OwnAnswer
    <2>1. ToSet(output[t]) \subseteq {t}  BY DEF StdioTypeOK, Serial, Mine, ToSet
    <2>2. task[t] = "completed" /\ process = "alive" => Len(output[t]) = AnswerLength
      BY DEF Serial, InStep, Unfinished
    <2>3. QED  BY <2>1, <2>2
  <1>4. QED  BY <1>1, <1>2, <1>3, StdioTypeCorrect, PTL DEF StdioSpec

HIDE DEF pipes, readers, scans

-----------------------------------------------------------------------------
(* OpenClawAgent.                                                          *)

USE DEF startVars, readerVars, requestVars, gatewayVars, CallAt, Withdraw, CloseConnection

\* The type invariant of the WebSocket adapter, for any set of requests.
THEOREM WsTypeCorrect == WsSpec => []WsTypeOK
  <1>1. WsInit => WsTypeOK
    <2>1. 0 \in 0 .. MaxRepeats  BY WireAssumption
    <2>2. ASSUME WsInit PROVE box \in [IDs -> 0 .. 1] /\ call \in [IDs -> Calls]
      BY <2>2 DEF WsInit, Calls
    <2>3. QED  BY <2>1, <2>2 DEF WsInit, WsTypeOK
  <1>2. WsTypeOK /\ [WsNext]_wsVars => WsTypeOK'
    <2> SUFFICES ASSUME WsTypeOK, [WsNext]_wsVars PROVE WsTypeOK'  OBVIOUS
    <2> USE DEF WsTypeOK, Calls
    <2>1. CASE Dial \/ Challenged \/ HandshakeFails \/ HandshakeDone \/ StopAdapter
      <3>1. CASE Dial  BY <3>1 DEF Dial
      <3>2. CASE Challenged \/ HandshakeDone  BY <3>2 DEF Challenged, HandshakeDone
      <3>3. CASE HandshakeFails  BY <3>3 DEF HandshakeFails
      <3>4. CASE StopAdapter  BY <3>4 DEF StopAdapter
      <3>5. QED  BY <2>1, <3>1, <3>2, <3>3, <3>4
    <2>2. CASE DrainPending
      <3>1. box' \in [IDs -> 0 .. 1]  BY <2>2 DEF DrainPending
      <3>2. QED  BY <2>2, <3>1 DEF DrainPending
    <2>3. ASSUME NEW r \in IDs, SendRequest(r) PROVE WsTypeOK'
      <3>1. CASE AdmitCall(r) \/ RegisterCall(r)  BY <3>1 DEF AdmitCall, RegisterCall
      <3>2. CASE TakeConnection(r) \/ WriteCall(r) \/ WriteFails(r)
        BY <3>2 DEF TakeConnection, WriteCall, WriteFails
      <3>3. CASE ReceiveAnswer(r) \/ GiveUp(r)  BY <3>3 DEF ReceiveAnswer, GiveUp
      <3>4. QED  BY <2>3, <3>1, <3>2, <3>3 DEF SendRequest
    <2>4. CASE HandleResponse \/ ReaderEnds  BY <2>4 DEF HandleResponse, ReaderEnds
    <2>5. ASSUME NEW r \in IDs, ReadResponse(r) \/ SendAnswer(r) PROVE WsTypeOK'
      BY <2>5, WireAssumption DEF ReadResponse, SendAnswer
    <2>6. CASE WireFails  BY <2>6 DEF WireFails
    <2>7. CASE UNCHANGED wsVars  BY <2>7 DEF wsVars
    <2>8. QED  BY <2>1, <2>2, <2>3, <2>4, <2>5, <2>6, <2>7 DEF WsNext, ReadLoop
  <1>3. QED  BY <1>1, <1>2, PTL DEF WsSpec

\* readLoop has one response at a time, and has it before or after it looked in pending.
OneResponse ==
  /\ \A r, s \in message \cup popped : r = s
  /\ message # {} => popped = {}

\* A request is in pending before it has an answer, and never again.
OnePlace ==
  \A r \in IDs :
    /\ r \in pending => box[r] = 0 /\ r \notin popped
    /\ call[r] \in {"new", "admitted"} => r \notin pending /\ r \notin popped /\ box[r] = 0

\* Whoever is on the way to wait, or waits, is still there to be found.
Findable ==
  \A r \in IDs :
    call[r] \in {"registered", "connected", "waiting"} =>
      r \in pending \/ r \in popped \/ box[r] = 1

\* After the clean-up nobody who waits is left in pending.
Drained ==
  (~conn /\ ~draining) => \A r \in IDs : call[r] = "waiting" => r \notin pending

AnswerInv == OneResponse /\ OnePlace /\ Findable /\ Drained

\* Start and Stop.
LEMMA StartKeeps ==
  ASSUME WsTypeOK, AnswerInv,
         \/ Dial \/ Challenged \/ HandshakeFails \/ HandshakeDone \/ StopAdapter \/ DrainPending
         \/ WireFails
  PROVE  AnswerInv'
  <1> USE DEF WsTypeOK, AnswerInv
  <1>1. CASE DrainPending
    BY <1>1 DEF DrainPending, OneResponse, OnePlace, Findable, Drained
  <1>2. CASE Dial \/ Challenged \/ HandshakeDone \/ WireFails
    BY <1>2 DEF Dial, Challenged, HandshakeDone, WireFails, OneResponse, OnePlace, Findable, Drained
  <1>3. CASE HandshakeFails \/ StopAdapter
    BY <1>3 DEF HandshakeFails, StopAdapter, OneResponse, OnePlace, Findable, Drained
  <1>4. QED  BY <1>1, <1>2, <1>3

\* A request.
LEMMA RequestKeeps ==
  ASSUME WsTypeOK, AnswerInv, NEW r \in IDs, SendRequest(r) PROVE AnswerInv'
  <1> USE DEF WsTypeOK, AnswerInv
  <1>1. CASE AdmitCall(r)  BY <1>1 DEF AdmitCall, OneResponse, OnePlace, Findable, Drained
  <1>2. CASE RegisterCall(r)  BY <1>2 DEF RegisterCall, OneResponse, OnePlace, Findable, Drained
  <1>3. CASE TakeConnection(r)
    BY <1>3 DEF TakeConnection, OneResponse, OnePlace, Findable, Drained
  <1>4. CASE WriteCall(r)  BY <1>4 DEF WriteCall, OneResponse, OnePlace, Findable, Drained
  <1>5. CASE WriteFails(r) \/ GiveUp(r)
    BY <1>5 DEF WriteFails, GiveUp, OneResponse, OnePlace, Findable, Drained
  <1>6. CASE ReceiveAnswer(r)
    BY <1>6 DEF ReceiveAnswer, OneResponse, OnePlace, Findable, Drained
  <1>7. QED  BY <1>1, <1>2, <1>3, <1>4, <1>5, <1>6 DEF SendRequest

\* readLoop.
LEMMA ReaderKeeps == ASSUME WsTypeOK, AnswerInv, ReadLoop PROVE AnswerInv'
  <1> USE DEF WsTypeOK, AnswerInv
  <1>1. CASE HandleResponse
    BY <1>1 DEF HandleResponse, OneResponse, OnePlace, Findable, Drained
  <1>2. CASE ReaderEnds  BY <1>2 DEF ReaderEnds, OneResponse, OnePlace, Findable, Drained
  <1>3. ASSUME NEW r \in IDs, ReadResponse(r) PROVE AnswerInv'
    BY <1>3 DEF ReadResponse, OneResponse, OnePlace, Findable, Drained
  <1>4. ASSUME NEW r \in IDs, SendAnswer(r) PROVE AnswerInv'
    BY <1>4 DEF SendAnswer, OneResponse, OnePlace, Findable, Drained
  <1>5. QED  BY <1>1, <1>2, <1>3, <1>4 DEF ReadLoop

\* Every answer has one place: with readLoop, or in the channel of a request that is no
\* longer in pending.
THEOREM AnswerCorrect == WsSpec => []AnswerInv
  <1>1. WsInit => AnswerInv
    BY DEF WsInit, AnswerInv, OneResponse, OnePlace, Findable, Drained
  <1>2. WsTypeOK /\ AnswerInv /\ [WsNext]_wsVars => AnswerInv'
    <2> SUFFICES ASSUME WsTypeOK, AnswerInv, [WsNext]_wsVars PROVE AnswerInv'  OBVIOUS
    <2>1. CASE WsNext  BY <2>1, StartKeeps, RequestKeeps, ReaderKeeps DEF WsNext
    <2>2. CASE UNCHANGED wsVars
      BY <2>2 DEF wsVars, AnswerInv, OneResponse, OnePlace, Findable, Drained
    <2>3. QED  BY <2>1, <2>2
  <1>3. QED  BY <1>1, <1>2, WsTypeCorrect, PTL DEF WsSpec

\* However many requests and responses meet the clean-up, it finds room in every channel,
\* so that it ends and lets go of the mutexes.
THEOREM DrainCorrect == WsSpec => []DrainNeverBlocks
  <1>1. WsTypeOK /\ AnswerInv => DrainNeverBlocks
    BY DEF AnswerInv, OnePlace, DrainNeverBlocks, WsTypeOK
  <1>2. QED  BY <1>1, AnswerCorrect, WsTypeCorrect, PTL

\* After the clean-up, whoever waits has an answer or is about to get it.
THEOREM NobodyCorrect == WsSpec => []NobodyIsForgotten
  <1>1. AnswerInv => NobodyIsForgotten
    BY DEF AnswerInv, Findable, Drained, NobodyIsForgotten
  <1>2. QED  BY <1>1, AnswerCorrect, PTL

HIDE DEF startVars, readerVars, requestVars, gatewayVars, CallAt, Withdraw, CloseConnection

-----------------------------------------------------------------------------
(* CliAgents.                                                              *)

\* The type invariant of the command adapters, for any number of tasks.
THEOREM CliTypeCorrect == CliSpec => []CliTypeOK
  <1>1. CliInit => CliTypeOK  BY DEF CliInit, CliTypeOK
  <1>2. CliTypeOK /\ [CliNext]_cliVars => CliTypeOK'
    <2> SUFFICES ASSUME CliTypeOK, [CliNext]_cliVars PROVE CliTypeOK'  OBVIOUS
    <2> USE DEF CliTypeOK, TaskGoes, StopIsDone, StopComes, Killed
    <2>1. CASE \E t \in CliTasks : AdmitCommand(t)  BY <2>1 DEF AdmitCommand
    <2>2. CASE \E t \in CliTasks : TakeSlot(t) \/ FreeSlot(t)  BY <2>2 DEF TakeSlot, FreeSlot
    <2>3. CASE \E t \in CliTasks : StartCommand(t) \/ CommandEnds(t) \/ CommandReturns(t)
      BY <2>3 DEF StartCommand, CommandEnds, CommandReturns
    <2>4. CASE CodexStop  BY <2>4 DEF CodexStop
    <2>5. CASE ClaudeStop  BY <2>5 DEF ClaudeStop
    <2>6. CASE RivalReturns  BY <2>6 DEF RivalReturns
    <2>7. CASE StopTimesOut  BY <2>7 DEF StopTimesOut
    <2>8. CASE UNCHANGED cliVars  BY <2>8 DEF cliVars
    <2>9. QED  BY <2>1, <2>2, <2>3, <2>4, <2>5, <2>6, <2>7, <2>8 DEF CliNext
  <1>3. QED  BY <1>1, <1>2, PTL DEF CliSpec

\* Only a task that is running has a command.
Alive == \A t \in CliTasks : command[t] = "alive" => cmdAt[t] = "running"

\* Once Stop has come, new tasks are turned away.
Closing == /\ stopAt = "returned" => cliPhase # "Running"
           /\ stopAt = "waiting" => tool = "claude"

\* Tasks that do not overlap are one at a time, and theirs is the slot until Stop is done
\* with it.
OneByOne ==
  ~cliHistory.overlapped =>
    /\ \A t, u \in InExecute : t = u
    /\ stopAt # "returned" =>
         \A t \in CliTasks : cmdAt[t] \in {"prepared", "running", "returned"} => t \in slot

\* After a Stop that met nobody on the way to a process, none is on that way, but for
\* whoever was prepared and then cancelled.
Barred ==
  (stopAt # "no" /\ ~cliHistory.overlapped /\ ~cliHistory.late) =>
    \A t \in CliTasks : /\ cmdAt[t] # "admitted"
                        /\ cmdAt[t] = "prepared" => t \in cancelled

StopInv == Alive /\ Closing /\ OneByOne /\ Barred /\ SerialStopIsClean

USE DEF TaskGoes, MuFree, InExecute

\* Whoever is admitted finds nobody else in Execute, or tasks overlap.
LEMMA AdmitKeeps ==
  ASSUME CliTypeOK, StopInv, NEW t \in CliTasks, AdmitCommand(t) PROVE StopInv'
  <1> USE DEF AdmitCommand, CliTypeOK
  <1>1. Alive' /\ Closing'  BY DEF StopInv, Alive, Closing
  <1>2. OneByOne'
    <2> SUFFICES ASSUME ~cliHistory'.overlapped PROVE OneByOne'  BY DEF OneByOne
    <2>1. ~cliHistory.overlapped  OBVIOUS
    <2>2. CASE cliPhase = "Running"
      <3>1. InExecute = {} /\ cmdAt' = [cmdAt EXCEPT ![t] = "admitted"]  BY <2>2
      <3>2. QED  BY <2>1, <3>1 DEF StopInv, OneByOne
    <2>3. CASE cliPhase # "Running"
      <3>1. cmdAt' = [cmdAt EXCEPT ![t] = "ended"] /\ UNCHANGED <<slot, stopAt>>  BY <2>3
      <3>2. QED  BY <2>1, <3>1 DEF StopInv, OneByOne
    <2>4. QED  BY <2>2, <2>3
  <1>3. Barred'
    <2>1. stopAt # "no" => cliPhase # "Running"  BY DEF StopInv, Closing
    <2>2. QED  BY <2>1 DEF StopInv, Barred
  <1>4. SerialStopIsClean'  BY DEF StopInv, SerialStopIsClean, NoneAlive
  <1>5. QED  BY <1>1, <1>2, <1>3, <1>4 DEF StopInv

\* The steps of Execute from the slot to its end.
LEMMA ExecuteKeeps ==
  ASSUME CliTypeOK, StopInv, NEW t \in CliTasks,
         TakeSlot(t) \/ StartCommand(t) \/ CommandEnds(t) \/ CommandReturns(t) \/ FreeSlot(t)
  PROVE  StopInv'
  <1> USE DEF StopInv, CliTypeOK
  <1>1. Alive'
    BY DEF Alive, TakeSlot, StartCommand, CommandEnds, CommandReturns, FreeSlot
  <1>2. Closing'
    BY DEF Closing, TakeSlot, StartCommand, CommandEnds, CommandReturns, FreeSlot
  <1>3. OneByOne'
    <2>1. CASE TakeSlot(t)  BY <2>1 DEF TakeSlot, OneByOne
    <2>2. CASE FreeSlot(t)  BY <2>2 DEF FreeSlot, OneByOne
    <2>3. CASE StartCommand(t) \/ CommandEnds(t) \/ CommandReturns(t)
      BY <2>3 DEF StartCommand, CommandEnds, CommandReturns, OneByOne
    <2>4. QED  BY <2>1, <2>2, <2>3
  <1>4. Barred'
    BY DEF Barred, TakeSlot, StartCommand, CommandEnds, CommandReturns, FreeSlot
  <1>5. SerialStopIsClean'
    BY DEF SerialStopIsClean, NoneAlive, Barred, TakeSlot, StartCommand, CommandEnds,
           CommandReturns, FreeSlot
  <1>6. QED  BY <1>1, <1>2, <1>3, <1>4, <1>5

\* Stop, its goroutine and its time limit.
LEMMA StopKeeps ==
  ASSUME CliTypeOK, StopInv, CodexStop \/ ClaudeStop \/ RivalReturns \/ StopTimesOut
  PROVE  StopInv'
  <1> USE DEF StopInv, CliTypeOK, StopIsDone, StopComes, Killed
  <1>1. CASE CodexStop
    BY <1>1 DEF CodexStop, Alive, Closing, OneByOne, Barred, SerialStopIsClean, NoneAlive
  <1>2. CASE ClaudeStop
    BY <1>2 DEF ClaudeStop, Alive, Closing, OneByOne, Barred, SerialStopIsClean, NoneAlive
  <1>3. CASE RivalReturns
    BY <1>3 DEF RivalReturns, Alive, Closing, OneByOne, Barred, SerialStopIsClean, NoneAlive
  <1>4. CASE StopTimesOut
    BY <1>4 DEF StopTimesOut, Alive, Closing, OneByOne, Barred, SerialStopIsClean, NoneAlive
  <1>5. QED  BY <1>1, <1>2, <1>3, <1>4

\* However tasks and Stop interleave, the command of a task that overlaps no other and is
\* not on its way to a process when Stop comes has ended when Stop returns.
THEOREM StopCorrect == CliSpec => []SerialStopIsClean
  <1>1. CliInit => StopInv
    BY DEF CliInit, StopInv, Alive, Closing, OneByOne, Barred, SerialStopIsClean
  <1>2. CliTypeOK /\ StopInv /\ [CliNext]_cliVars => StopInv'
    <2> SUFFICES ASSUME CliTypeOK, StopInv, [CliNext]_cliVars PROVE StopInv'  OBVIOUS
    <2>1. CASE CliNext  BY <2>1, AdmitKeeps, ExecuteKeeps, StopKeeps DEF CliNext
    <2>2. CASE UNCHANGED cliVars
      BY <2>2 DEF cliVars, StopInv, Alive, Closing, OneByOne, Barred, SerialStopIsClean, NoneAlive
    <2>3. QED  BY <2>1, <2>2
  <1>3. StopInv => SerialStopIsClean  BY DEF StopInv
  <1>4. QED  BY <1>1, <1>2, <1>3, CliTypeCorrect, PTL DEF CliSpec
=============================================================================
