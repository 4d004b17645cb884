------------------------------ MODULE Transport ------------------------------
(***************************************************************************)
(* The WebSocket transport and its reconnection loop, common.js            *)
(* connectWebSocket() and the serializer's onMessageReady hook.            *)
(*                                                                         *)
(* There is one current WebSocket at a time: a new one is only created     *)
(* from the onclose handler of the previous one or from the retry timer    *)
(* that handler armed.  The closure-local flag `connected` of the current  *)
(* socket is TRUE exactly when readyState = "OPEN" (it is set in onopen    *)
(* and the socket is replaced in onclose), so it is not a variable here.   *)
(*                                                                         *)
(* toServer / toClient are the frames in flight on the current socket;     *)
(* they are lost when it closes.  The components that use the transport    *)
(* (MainClient) append to toClient (the server) and consume it (onmessage).*)
(* The onSocketConnect / onSocketDisconnect callbacks are conjoined to     *)
(* SocketOpen / SocketDropped by the composing module.                     *)
(***************************************************************************)
EXTENDS Naturals, Sequences

CONSTANTS
    Messages,       \* frames the client may send
    Events,         \* frames the server may push
    MaxSockets      \* bound: number of WebSocket objects created in a behaviour

ASSUME MaxSockets \in Nat \ {0}

VARIABLES
    readyState,           \* readyState of the current WebSocket
    retryPending,         \* setTimeout(connectWebSocket, 5000) armed, not yet fired
    serializerConnected,  \* serializer.connected, read by the URL routers
    sockets,              \* WebSocket objects created so far (bounded)
    toServer,             \* frames sent on the current socket, not yet read by the server
    toClient              \* frames pushed by the server, not yet delivered to onmessage

transportVars == <<readyState, retryPending, serializerConnected, sockets, toServer, toClient>>

TypeOK ==
    /\ readyState \in {"NONE", "CONNECTING", "OPEN", "CLOSED"}
    /\ retryPending \in BOOLEAN
    /\ serializerConnected \in BOOLEAN
    /\ sockets \in 0..MaxSockets
    /\ toServer \in Seq(Messages)
    /\ toClient \in Seq(Events)

\* connectWebSocket(): a new socket, CONNECTING, with nothing in flight.
ConnectWebSocket ==
    /\ readyState' = "CONNECTING"
    /\ sockets' = sockets + 1
    /\ toServer' = <<>>
    /\ toClient' = <<>>

\* serializer = {connected: false}; ...; connectWebSocket() at runtime start.
Init ==
    /\ readyState = "CONNECTING"
    /\ retryPending = FALSE
    /\ serializerConnected = FALSE
    /\ sockets = 1
    /\ toServer = <<>>
    /\ toClient = <<>>

\* The page before the wasm runtime is initialised: common.js has run
\* runtime.onRuntimeInitialized(handler) at load, which stored the handler
\* (isRuntimeInitialized is still false), and there is no WebSocket yet
\* ("NONE").
PreRuntimeInit ==
    /\ readyState = "NONE"
    /\ retryPending = FALSE
    /\ serializerConnected = FALSE
    /\ sockets = 0
    /\ toServer = <<>>
    /\ toClient = <<>>

\* The runtime calls onRuntimeInitialized() with no handler: it sets
\* isRuntimeInitialized and runs the stored handler, whose transport part
\* is the serializer replacement (Object.assign keeps connected and the
\* callbacks installed so far) and connectWebSocket().
RuntimeInitialized ==
    /\ readyState = "NONE"
    /\ ConnectWebSocket
    /\ UNCHANGED <<retryPending, serializerConnected>>

\* onMessageReady: webSocket.send(message) on the *current* socket.  On a
\* CONNECTING socket send throws InvalidStateError, on a CLOSED one the frame
\* is discarded: either way the frame never reaches the server.  `state` is
\* the readyState at the time of the call.
SendOn(state, msg) ==
    toServer' = IF state = "OPEN" THEN Append(toServer, msg) ELSE toServer

\* webSocket.onopen: connected = true; serializer.connected = true; then
\* serializer.onSocketConnect(), conjoined by the caller, which may send
\* and so determines toServer'.
SocketOpen ==
    /\ readyState = "CONNECTING"
    /\ readyState' = "OPEN"
    /\ serializerConnected' = TRUE
    /\ UNCHANGED <<retryPending, sockets, toClient>>

\* Variant of SocketDropped: a dropped connection waits for the back-off.
SocketDroppedAfterBackoff ==
    /\ readyState = "OPEN"
    /\ sockets < MaxSockets
    /\ readyState' = "CLOSED"
    /\ retryPending' = TRUE
    /\ toServer' = <<>>
    /\ toClient' = <<>>
    /\ UNCHANGED <<serializerConnected, sockets>>

\* webSocket.onclose with connected = true: onSocketDisconnect() (conjoined
\* by the caller), connected = false, connectWebSocket() at once.
\* serializer.connected is not touched.  The guard on `sockets` bounds how
\* often the network may drop a connection.
SocketDropped ==
    /\ readyState = "OPEN"
    /\ sockets < MaxSockets
    /\ ConnectWebSocket
    /\ UNCHANGED <<retryPending, serializerConnected>>

\* Variant of SocketFailed: the failed attempt arms no timer.
SocketFailedNoRetry ==
    /\ readyState = "CONNECTING"
    /\ sockets < MaxSockets
    /\ readyState' = "CLOSED"
    /\ retryPending' = FALSE
    /\ toServer' = <<>>
    /\ toClient' = <<>>
    /\ UNCHANGED <<serializerConnected, sockets>>

\* webSocket.onclose with connected = false: the attempt never opened;
\* setTimeout(connectWebSocket, 5000).
SocketFailed ==
    /\ readyState = "CONNECTING"
    /\ sockets < MaxSockets
    /\ readyState' = "CLOSED"
    /\ retryPending' = TRUE
    /\ toServer' = <<>>
    /\ toClient' = <<>>
    /\ UNCHANGED <<serializerConnected, sockets>>

\* The 5 s timer fires: connectWebSocket().
RetryFire ==
    /\ retryPending
    /\ retryPending' = FALSE
    /\ ConnectWebSocket
    /\ UNCHANGED serializerConnected

Next == (SocketOpen /\ UNCHANGED toServer) \/ SocketDropped \/ SocketFailed \/ RetryFire

\* A socket that stays CONNECTING eventually opens or fails (the browser
\* settles every handshake), and an armed timer eventually fires.
Fairness ==
    /\ WF_transportVars(SocketOpen \/ SocketFailed)
    /\ WF_transportVars(RetryFire)

Spec == Init /\ [][Next]_transportVars /\ Fairness

-----------------------------------------------------------------------------
(* The reconnection loop implements the abstract policy.                   *)

\* Before the runtime starts there is no attempt yet: still "Connecting".
ConnState ==
    IF retryPending THEN "Waiting"
    ELSE IF readyState = "OPEN" THEN "Connected"
    ELSE "Connecting"

Policy == INSTANCE ReconnectPolicy WITH conn <- ConnState

\* The loop never runs two attempts (or an attempt and a timer) at once,
\* retries a dropped connection immediately and a failed attempt only
\* after the back-off: every step of connectWebSocket / onopen / onclose /
\* the timer is a step of ReconnectPolicy.
ImplementsReconnectPolicy == Policy!Spec

\* Failure is never terminal: whenever the socket is not open, an open
\* socket eventually follows (once the network stops failing, which the
\* MaxSockets bound guarantees).
EventuallyReconnected == (readyState # "OPEN") ~> (readyState = "OPEN")

=============================================================================
