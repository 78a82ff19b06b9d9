--------------------------- MODULE OpenClawAgent ---------------------------
(***************************************************************************)
(* The adapter of an OpenClaw agent (pkg/adapter/openclaw): requests and   *)
(* responses over one WebSocket.  Every request waits on a channel of its  *)
(* own, found by its ID in the map pending; a goroutine, readLoop, hands   *)
(* out the responses; Stop, and a Start that fails, close the connection   *)
(* and answer all who wait.  Start itself waits for the response to its    *)
(* connect request.                                                        *)
(*                                                                         *)
(* A request has one ID and is made once; that Execute makes a second one, *)
(* agent.wait, when the first answer has a run ID, is another request.     *)
(***************************************************************************)
EXTENDS Naturals

CONSTANTS
  Requests,   \* requests of Execute
  Connect,    \* the request of the handshake
  MaxRepeats  \* bound on the responses that the gateway sends twice

ASSUME WireAssumption == Connect \notin Requests /\ MaxRepeats \in Nat

IDs == Requests \cup {Connect}

VARIABLES
  wsPhase,     \* Adapter.phase
  starting,    \* where Start is
  conn,        \* a.conn is set: the WebSocket is not closed on this side
  wire,        \* the WebSocket works
  reading,     \* readLoop runs
  message,     \* the response that readLoop has read (a set of at most one)
  popped,      \* the request whose channel readLoop has taken from pending (at most one)
  draining,    \* cleanupLocked has a.mu, and has yet to drain pending
  pending,     \* the map pending
  box,         \* box[r]: responses in the channel of r; its capacity is 1
  call,        \* where a request is in sendRequest
  asked,       \* requests that the gateway has received and not answered
  repeats

startVars   == <<wsPhase, starting, conn>>
readerVars  == <<reading, message, popped>>
requestVars == <<pending, box, call>>
gatewayVars == <<asked, repeats>>
wsVars      == <<startVars, wire, readerVars, draining, requestVars, gatewayVars>>

Calls == {"new", "admitted", "registered", "connected", "waiting", "ended"}

-----------------------------------------------------------------------------
WsInit ==
  /\ wsPhase = "Created" /\ starting = "no" /\ conn = FALSE /\ wire = FALSE
  /\ reading = FALSE /\ message = {} /\ popped = {} /\ draining = FALSE
  /\ pending = {} /\ box = [r \in IDs |-> 0] /\ call = [r \in IDs |-> "new"]
  /\ asked = {} /\ repeats = 0

\* Start dials and starts readLoop; no identity or no connection, no agent.
Dial ==
  /\ wsPhase = "Created"
  /\ \/ /\ wsPhase' = "Starting" /\ starting' = "challenge"
        /\ conn' = TRUE /\ wire' = TRUE /\ reading' = TRUE
     \/ wsPhase' = "Failed" /\ UNCHANGED <<starting, conn, wire, reading>>
  /\ UNCHANGED <<message, popped, draining, requestVars, gatewayVars>>

\* readLoop passes the challenge on, and Start makes its connect request.
Challenged ==
  /\ starting = "challenge" /\ wire /\ reading
  /\ starting' = "connect"
  /\ UNCHANGED <<wsPhase, conn, wire, readerVars, draining, requestVars, gatewayVars>>

\* cleanupLocked, first half: the connection is closed and forgotten.
CloseConnection ==
  /\ conn' = FALSE /\ wire' = FALSE /\ draining' = TRUE
  /\ UNCHANGED <<readerVars, requestVars, gatewayVars>>

\* No challenge in time, or the request failed: Start cleans up and returns an error.
HandshakeFails ==
  /\ ~draining
  /\ starting = "challenge" \/ (starting = "connect" /\ call[Connect] = "ended")
  /\ starting' = "no" /\ UNCHANGED wsPhase
  /\ CloseConnection

HandshakeDone ==
  /\ ~draining /\ starting = "connect" /\ call[Connect] = "ended"
  /\ starting' = "done" /\ wsPhase' = "Running"
  /\ UNCHANGED <<conn, wire, readerVars, draining, requestVars, gatewayVars>>

\* The controller stops only agents that it has started.
StopAdapter ==
  /\ ~draining /\ starting = "done" /\ wsPhase # "Stopped"
  /\ wsPhase' = "Stopped" /\ UNCHANGED starting
  /\ CloseConnection

\* cleanupLocked, second half: an answer for all who wait.  A full channel would
\* block it, with both mutexes held.
DrainPending ==
  /\ draining /\ \A r \in pending : box[r] = 0
  /\ box' = [r \in IDs |-> IF r \in pending THEN 1 ELSE box[r]]
  /\ pending' = {} /\ draining' = FALSE
  /\ UNCHANGED <<startVars, wire, readerVars, call, gatewayVars>>

-----------------------------------------------------------------------------
CallAt(r, l) == call' = [call EXCEPT ![r] = l]

\* Execute looks at the phase, and lets go of a.mu; connect is not asked about it.
AdmitCall(r) ==
  /\ call[r] = "new"
  /\ IF r = Connect THEN starting = "connect" ELSE wsPhase = "Running" /\ ~draining
  /\ CallAt(r, "admitted")
  /\ UNCHANGED <<startVars, wire, readerVars, draining, pending, box, gatewayVars>>

\* sendRequest puts its channel into pending.
RegisterCall(r) ==
  /\ call[r] = "admitted"
  /\ pending' = pending \cup {r} /\ CallAt(r, "registered")
  /\ UNCHANGED <<startVars, wire, readerVars, draining, box, gatewayVars>>

\* ... and takes it out when it does not get to wait, or no longer does.
Withdraw(r) == pending' = pending \ {r} /\ CallAt(r, "ended") /\ UNCHANGED box

\* The connection is read under a.mu, and used without it.  As the mutant has it, it
\* is not looked at.
TakeAnyConnection(r) ==
  /\ call[r] = "registered" /\ ~draining
  /\ CallAt(r, "waiting")
  /\ UNCHANGED <<startVars, wire, readerVars, draining, pending, box, gatewayVars>>

TakeConnection(r) ==
  /\ call[r] = "registered" /\ ~draining
  /\ IF conn THEN CallAt(r, "connected") /\ UNCHANGED <<pending, box>> ELSE Withdraw(r)
  /\ UNCHANGED <<startVars, wire, readerVars, draining, gatewayVars>>

\* WriteMessage succeeds.  On a WebSocket that has failed and is not closed it still may.
WriteCall(r) ==
  /\ call[r] = "connected" /\ conn
  /\ CallAt(r, "waiting")
  /\ asked' = IF wire THEN asked \cup {r} ELSE asked
  /\ UNCHANGED <<startVars, wire, readerVars, draining, pending, box, repeats>>

WriteFails(r) ==
  /\ call[r] = "connected" /\ ~wire
  /\ Withdraw(r)
  /\ UNCHANGED <<startVars, wire, readerVars, draining, gatewayVars>>

ReceiveAnswer(r) ==
  /\ call[r] = "waiting" /\ box[r] = 1
  /\ box' = [box EXCEPT ![r] = 0] /\ CallAt(r, "ended")
  /\ UNCHANGED <<startVars, wire, readerVars, draining, pending, gatewayVars>>

\* The caller's context is done.
GiveUp(r) ==
  /\ call[r] = "waiting" /\ Withdraw(r)
  /\ UNCHANGED <<startVars, wire, readerVars, draining, gatewayVars>>

-----------------------------------------------------------------------------
\* readLoop reads a response; the gateway may send it again.
ReadResponse(r) ==
  /\ reading /\ wire /\ message = {} /\ popped = {} /\ r \in asked
  /\ message' = {r}
  /\ \/ asked' = asked \ {r} /\ UNCHANGED repeats
     \/ repeats < MaxRepeats /\ repeats' = repeats + 1 /\ UNCHANGED asked
  /\ UNCHANGED <<startVars, wire, reading, popped, draining, requestVars>>

\* handleResponse: who takes the ID out of pending may send, and no one else.  The
\* mutant leaves it there.
LookUpPending ==
  /\ message # {} /\ message' = {} /\ popped' = message \cap pending
  /\ UNCHANGED <<startVars, wire, reading, draining, requestVars, gatewayVars>>

HandleResponse ==
  /\ message # {} /\ message' = {} /\ popped' = message \cap pending
  /\ pending' = pending \ message
  /\ UNCHANGED <<startVars, wire, reading, draining, box, call, gatewayVars>>

\* The send has a default: a channel that is full stays as it is.
SendAnswer(r) ==
  /\ r \in popped /\ popped' = {}
  /\ box' = [box EXCEPT ![r] = 1]
  /\ UNCHANGED <<startVars, wire, reading, message, draining, pending, call, gatewayVars>>

WireFails ==
  /\ wire /\ wire' = FALSE /\ asked' = {}
  /\ UNCHANGED <<startVars, readerVars, draining, requestVars, repeats>>

\* readLoop finds the connection lost, or closed by cleanupLocked; on its way out it
\* sets the phase, of an adapter that is Running.
ReaderEnds ==
  /\ reading /\ message = {} /\ popped = {} /\ ~wire /\ ~draining
  /\ reading' = FALSE
  /\ wsPhase' = IF wsPhase = "Running" THEN "Failed" ELSE wsPhase
  /\ UNCHANGED <<starting, conn, wire, message, popped, draining, requestVars, gatewayVars>>

SendRequest(r) ==
  \/ AdmitCall(r) \/ RegisterCall(r) \/ TakeConnection(r) \/ WriteCall(r) \/ WriteFails(r)
  \/ ReceiveAnswer(r) \/ GiveUp(r)

ReadLoop == HandleResponse \/ ReaderEnds \/ \E r \in IDs : ReadResponse(r) \/ SendAnswer(r)

WsNext ==
  \/ Dial \/ Challenged \/ HandshakeFails \/ HandshakeDone \/ StopAdapter \/ DrainPending
  \/ \E r \in IDs : SendRequest(r)
  \/ ReadLoop \/ WireFails

WsSpec == WsInit /\ [][WsNext]_wsVars

-----------------------------------------------------------------------------
WsTypeOK ==
  /\ wsPhase \in {"Created", "Starting", "Running", "Failed", "Stopped"}
  /\ starting \in {"no", "challenge", "connect", "done"}
  /\ conn \in BOOLEAN /\ wire \in BOOLEAN /\ reading \in BOOLEAN /\ draining \in BOOLEAN
  /\ message \subseteq IDs /\ popped \subseteq IDs /\ pending \subseteq IDs
  /\ box \in [IDs -> 0 .. 1] /\ call \in [IDs -> Calls]
  /\ asked \subseteq IDs /\ repeats \in 0 .. MaxRepeats

\* Nobody sends to a full channel: while a request is in pending nothing is in its
\* channel, however responses, repeated responses, withdrawn requests and the
\* clean-up interleave.  The send of cleanupLocked has no default: it would block
\* with a.mu and pendingMu held, and Health, Stop and every task with it.
DrainNeverBlocks == \A r \in pending : box[r] = 0

\* Once the adapter is cleaned up, whoever waits has an answer or is about to get it.
\* A task that passes the check of the phase while Stop runs, before or between
\* the two halves of the clean-up, is not left waiting for the end of its context.
NobodyIsForgotten ==
  (starting \in {"no", "done"} /\ ~conn /\ ~draining) =>
    \A r \in IDs : call[r] = "waiting" => (box[r] = 1 \/ r \in popped)
=============================================================================
