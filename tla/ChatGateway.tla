---------------------------- MODULE ChatGateway ----------------------------
(***************************************************************************)
(* Commands by chat (pkg/gateway, its channels Telegram and Discord, and   *)
(* runServe of opctl, which starts and stops them around everything else). *)
(* The gateway starts the channels in the order of a Go map; one that does *)
(* not start ends the gateway, which the daemon survives.  Every message   *)
(* is handled by a goroutine of its own: a command executes a task and is  *)
(* answered, in pieces when the answer is too long for a message.          *)
(*                                                                         *)
(* Telegram's handlers have the daemon's context, and Discord's one that   *)
(* never ends.  Telegram has a goroutine that polls; Discord's library     *)
(* calls the handler as long as the session is open.  A text is a sequence *)
(* of bytes, of which only newlines are told apart.                        *)
(***************************************************************************)
EXTENDS Naturals, Sequences, SequencesExt, FiniteSetsExt

CONSTANTS
  Chats,      \* messages, each written once
  ChatOf,     \* ChatOf[m]: the channel on which m is written
  Texts,      \* what a message may be answered
  MaxLength   \* bytes that fit in a message

ASSUME ChatAssumption ==
  /\ ChatOf \in [Chats -> {"telegram", "discord"}]
  /\ Texts \subseteq Seq({"char", "newline"}) \ {<<>>}
  /\ MaxLength \in Nat \ {0}

VARIABLES
  served,    \* where runServe is
  tokens,    \* the channels that are registered, because their token is set
  online,    \* the channels that run: their flag running is set
  poller,    \* Telegram's goroutine: "none", "polling", or "told" by Stop to end
  gwRunning, \* Gateway.running
  chatAt,    \* where the goroutine of a message is
  answer,    \* answer[m]: the text of the reply
  rest,      \* rest[m]: what sendLongMessage has yet to send of it
  pieces,    \* pieces[m]: the messages sent so far
  unstarted, \* history: Gateway.Start has failed
  spent,     \* history: messages whose task was executed with success
  charged,   \* history: those whose cost the tracker was told
  panicked   \* a goroutine has panicked: the process has ended

gwVars   == <<served, tokens, online, poller, gwRunning, unstarted>>
taskVars == <<spent, charged>>
sendVars == <<answer, rest, pieces>>
chatVars == <<gwVars, chatAt, sendVars, taskVars, panicked>>

Serving     == ~panicked /\ served # "ended"
\* cancel() has ended the context of the daemon.
CtxDone     == served \in {"cancelled", "stopped", "ended"}
HasContext(m) == ChatOf[m] = "discord" \/ ~CtxDone

-----------------------------------------------------------------------------
ChatInit ==
  /\ served = "starting" /\ tokens \in SUBSET {"telegram", "discord"}
  /\ online = {} /\ poller = "none" /\ gwRunning = FALSE /\ unstarted = FALSE
  /\ chatAt = [m \in Chats |-> "new"]
  /\ answer = [m \in Chats |-> <<>>] /\ rest = [m \in Chats |-> <<>>]
  /\ pieces = [m \in Chats |-> <<>>]
  /\ spent = {} /\ charged = {} /\ panicked = FALSE

Serves(from, to)  == Serving /\ served = from /\ served' = to
NoMessage == UNCHANGED <<chatAt, sendVars, taskVars, panicked>>

StartChannel(ch) ==
  /\ Serving /\ served = "starting" /\ ch \in tokens \ online
  /\ online' = online \cup {ch}
  /\ poller' = IF ch = "telegram" THEN "polling" ELSE poller
  /\ UNCHANGED <<served, tokens, gwRunning, unstarted>> /\ NoMessage

AllStarted ==
  /\ Serves("starting", "started") /\ online = tokens
  /\ gwRunning' = TRUE
  /\ UNCHANGED <<tokens, online, poller, unstarted>> /\ NoMessage

\* A channel does not start: the gateway does not either.
StartFails ==
  /\ Serves("starting", "cleaning") /\ online # tokens
  /\ unstarted' = TRUE
  /\ UNCHANGED <<tokens, online, poller, gwRunning>> /\ NoMessage

\* Telegram's Stop waits for the goroutine.
PollerIsGone == poller = "none" \/ "telegram" \in online

\* Channel.Stop.
StopChannel(ch) ==
  /\ Serving /\ ch \in online /\ PollerIsGone
  /\ served = "cleaning" \/ (served = "cancelled" /\ gwRunning)
  /\ online' = online \ {ch}
  /\ poller' = IF ch = "telegram" /\ poller = "polling" THEN "told" ELSE poller
  /\ UNCHANGED <<served, tokens, gwRunning, unstarted>> /\ NoMessage

\* "Stop any channels that were started": the clean-up goes through the map again, in
\* another order, and stops only those that come before the one that failed.
CleanedUp ==
  /\ Serves("cleaning", "started") /\ PollerIsGone
  /\ UNCHANGED <<tokens, online, poller, gwRunning, unstarted>> /\ NoMessage

PollerEnds ==
  /\ Serving /\ (poller = "told" \/ (poller = "polling" /\ CtxDone))
  /\ poller' = "none"
  /\ UNCHANGED <<served, tokens, online, gwRunning, unstarted>> /\ NoMessage

\* Only now is there anybody to charge, and only then are there agents.
SetCostTracker ==
  /\ Serves("started", "tracking")
  /\ UNCHANGED <<tokens, online, poller, gwRunning, unstarted>> /\ NoMessage

RecoverAgents ==
  /\ Serves("tracking", "serving")
  /\ UNCHANGED <<tokens, online, poller, gwRunning, unstarted>> /\ NoMessage

\* SIGTERM.
CancelAll ==
  /\ Serves("serving", "cancelled")
  /\ UNCHANGED <<tokens, online, poller, gwRunning, unstarted>> /\ NoMessage

\* A gateway that did not start stops nothing.
GatewayStopped ==
  /\ Serves("cancelled", "stopped") /\ (gwRunning => online = {} /\ PollerIsGone)
  /\ gwRunning' = FALSE
  /\ UNCHANGED <<tokens, online, poller, unstarted>> /\ NoMessage

ServeEnds ==
  /\ Serves("stopped", "ended")
  /\ UNCHANGED <<tokens, online, poller, gwRunning, unstarted>> /\ NoMessage

-----------------------------------------------------------------------------
ChatGoes(m, from, to) == Serving /\ chatAt[m] = from /\ chatAt' = [chatAt EXCEPT ![m] = to]
NoGateway == UNCHANGED gwVars

\* A message that is not for the bot, or of somebody who may not, is dropped.
Receive(m) ==
  /\ IF ChatOf[m] = "telegram" THEN poller # "none" ELSE "discord" \in online
  /\ ChatGoes(m, "new", "read") \/ ChatGoes(m, "new", "dropped")
  /\ NoGateway /\ UNCHANGED <<sendVars, taskVars, panicked>>

\* Handle: /run creates its task, unless the ID is taken or the context has ended.
HandleRun(m) ==
  /\ HasContext(m) /\ ChatGoes(m, "read", "created")
  /\ NoGateway /\ UNCHANGED <<sendVars, taskVars, panicked>>

\* Any other command, and a /run that fails before the adapter has it.
HandleOther(m) ==
  /\ ChatGoes(m, "read", "reply") \/ ChatGoes(m, "created", "reply")
  /\ NoGateway /\ UNCHANGED <<sendVars, taskVars, panicked>>

\* The agent is in the map only once RecoverAgents has started it.
RunTaskByChat(m) ==
  /\ served \notin {"starting", "cleaning", "started", "tracking"}
  /\ ChatGoes(m, "created", "running")
  /\ NoGateway /\ UNCHANGED <<sendVars, taskVars, panicked>>

\* The tracker is looked up when the adapter has returned.
TaskByChatEnds(m) ==
  /\ ChatGoes(m, "running", "reply")
  /\ \/ UNCHANGED taskVars
     \/ /\ spent' = spent \cup {m}
        /\ charged' = IF served \in {"starting", "cleaning", "started"} THEN charged
                      ELSE charged \cup {m}
  /\ NoGateway /\ UNCHANGED <<sendVars, panicked>>

CanSend(m) == ChatOf[m] = "telegram" \/ "discord" \in online

\* Send, of a text that fits.
SendShort(m) ==
  /\ ChatGoes(m, "reply", "ended")
  /\ CanSend(m)
  /\ \E t \in Texts :
       /\ Len(t) <= MaxLength /\ answer' = [answer EXCEPT ![m] = t]
       /\ pieces' = [pieces EXCEPT ![m] = <<t>>]
  /\ NoGateway /\ UNCHANGED <<rest, taskVars, panicked>>

SendLong(m) ==
  /\ ChatGoes(m, "reply", "sending") /\ CanSend(m)
  /\ \E t \in Texts :
       /\ Len(t) > MaxLength
       /\ answer' = [answer EXCEPT ![m] = t] /\ rest' = [rest EXCEPT ![m] = t]
  /\ NoGateway /\ UNCHANGED <<pieces, taskVars, panicked>>

\* Bytes before the last newline among the first MaxLength.
BeforeNewline(t) == Max({0} \cup {i - 1 : i \in {j \in 1 .. MaxLength : t[j] = "newline"}})

\* Mutant of Piece: a newline in the first place is a place to split, too.
PieceToNewline(t) ==
  IF Len(t) <= MaxLength THEN t
  ELSE IF \E i \in 1 .. MaxLength : t[i] = "newline" THEN SubSeq(t, 1, BeforeNewline(t))
  ELSE SubSeq(t, 1, MaxLength)

Piece(t) ==
  IF Len(t) <= MaxLength THEN t
  ELSE SubSeq(t, 1, IF BeforeNewline(t) > 0 THEN BeforeNewline(t) ELSE MaxLength)

\* sendLongMessage sends a piece and waits a little, or until its context has ended.
SendPiece(m) ==
  /\ LET left == SubSeq(rest[m], Len(Piece(rest[m])) + 1, Len(rest[m])) IN
       /\ rest' = [rest EXCEPT ![m] = left]
       /\ \/ ChatGoes(m, "sending", IF left = <<>> THEN "ended" ELSE "sending")
          \/ ~HasContext(m) /\ ChatGoes(m, "sending", "ended")
  /\ CanSend(m)
  /\ pieces' = [pieces EXCEPT ![m] = Append(@, Piece(rest[m]))]
  /\ NoGateway /\ UNCHANGED <<answer, taskVars, panicked>>

\* The service refuses it, or Send finds no session: what is left is lost.
SendFails(m) ==
  /\ ChatGoes(m, "reply", "ended") \/ ChatGoes(m, "sending", "ended")
  /\ NoGateway /\ UNCHANGED <<sendVars, taskVars, panicked>>

\* Discord's sendLongMessage looks c.session up anew for every piece, without the lock,
\* and Stop has set it to nil.
SendPanics(m) ==
  /\ Serving /\ chatAt[m] = "sending" /\ ~CanSend(m)
  /\ panicked' = TRUE
  /\ NoGateway /\ UNCHANGED <<chatAt, sendVars, taskVars>>

HandleMessage(m) ==
  \/ Receive(m) \/ HandleRun(m) \/ HandleOther(m) \/ RunTaskByChat(m) \/ TaskByChatEnds(m)
  \/ SendShort(m) \/ SendLong(m) \/ SendPiece(m) \/ SendFails(m) \/ SendPanics(m)

RunServe ==
  \/ \E ch \in tokens : StartChannel(ch) \/ StopChannel(ch)
  \/ AllStarted \/ StartFails \/ CleanedUp \/ PollerEnds
  \/ SetCostTracker \/ RecoverAgents \/ CancelAll \/ GatewayStopped \/ ServeEnds

ChatNext == RunServe \/ \E m \in Chats : HandleMessage(m)

ChatSpec == ChatInit /\ [][ChatNext]_chatVars

-----------------------------------------------------------------------------
ServeStages ==
  {"starting", "cleaning", "started", "tracking", "serving", "cancelled", "stopped", "ended"}
ChatStages == {"new", "dropped", "read", "created", "running", "reply", "sending", "ended"}

ChatTypeOK ==
  /\ served \in ServeStages /\ tokens \subseteq {"telegram", "discord"} /\ online \subseteq tokens
  /\ poller \in {"none", "polling", "told"}
  /\ gwRunning \in BOOLEAN /\ unstarted \in BOOLEAN
  /\ chatAt \in [Chats -> ChatStages]
  /\ \A m \in Chats :
       answer[m] \in Texts \cup {<<>>} /\ rest[m] \in Seq({"char", "newline"})
       /\ pieces[m] \in Seq(Seq({"char", "newline"}))
  /\ spent \subseteq Chats /\ charged \subseteq Chats /\ panicked \in BOOLEAN

\* The gateway is open before there is a tracker to charge and an agent to execute, and
\* still no task that was executed goes uncharged: agents come after the tracker.
SpentIsCharged == spent = charged

\* When Stop has returned, a gateway that had started receives nothing any more: Telegram's
\* goroutine, which may take one more message after it was told to end, is gone.
StopSilences ==
  served \in {"stopped", "ended"} /\ ~unstarted => online = {} /\ poller = "none"

\* The pieces of a reply that is too long are, in their order, the reply: nothing is
\* repeated or left out where it is split, no piece is empty or too long, and what is
\* lost when sending fails or the daemon ends is lost from the end.
PiecesAreWhole ==
  \A m \in Chats :
    /\ \A i \in DOMAIN pieces[m] : Len(pieces[m][i]) \in 1 .. MaxLength
    /\ FlattenSeq(pieces[m]) \o rest[m] = answer[m]

\* Commands by chat are charged, stopped and answered.
ChatIsSafe == SpentIsCharged /\ StopSilences /\ PiecesAreWhole
=============================================================================
