-------------------------------- MODULE Turn --------------------------------
(***************************************************************************)
(* The turn display of the main page (main.js): onVmTurnInfo, the          *)
(* countdowns it arms with waitingTimer, hasTurn and the input handlers    *)
(* it gates, and the resets of viewVm, on top of the Transport.            *)
(*                                                                         *)
(* The user is on a VM page ("/vm/v"): every time the socket opens, the    *)
(* router's onSocketConnect sends the connect request (currentVmId was     *)
(* cleared by onSocketDisconnect).  The user's own name is the constant   *)
(* Me.  A countdown is one setInterval of waitingTimer: `timers` holds    *)
(* every interval ever created, in order, with the ms left in its closure  *)
(* and whether it is still live; turnInterval is an index into it or 0    *)
(* (null).  #status is abstracted to what it shows: nothing, "Paused", a  *)
(* turn countdown or a waiting countdown.                                  *)
(***************************************************************************)
EXTENDS Transport, Integers, FiniteSets

CONSTANTS
    Me,         \* main.js username
    Users,      \* every user name, Me included
    TimesMs,    \* timeRemaining values a push may carry
    MaxPushes,  \* bound: turn-info pushes by the server
    MaxInputs   \* bound: input events the user makes

ASSUME Me \in Users

\* Turn lists: no name twice.
Lists == {l \in UNION {[1..n -> Users] : n \in 0..Cardinality(Users)} :
            \A i, j \in DOMAIN l : i # j => l[i] # l[j]}
Range(l) == {l[i] : i \in DOMAIN l}

ConnectRequest == [type |-> "connectRequest"]
TurnRequest == [type |-> "turnRequest"]
Input == [type |-> "input"]
ConnectReply == [type |-> "connect"]
TurnInfo(l, t, p) == [type |-> "turnInfo", list |-> l, time |-> t, paused |-> p]

VARIABLES
    hasTurn,       \* main.js hasTurn
    turnInterval,  \* main.js turnInterval: an index of timers, or 0 for null
    timers,        \* every setInterval of waitingTimer: kind, ms left, live
    status,        \* what #status shows: "", "Paused", "turn", "waiting"
    onVm,          \* #vm-view shown
    connectedVm,   \* onConnect handled on the current socket (currentVmId === vmId)
    lastList,      \* the list of the last onVmTurnInfo handled (spec: TurnQueue)
    lastPaused,    \* isPaused of the last onVmTurnInfo handled
    srvJoined,     \* the server has this connection in the VM
    srvList,       \* the server's turn list
    pushes,        \* turn-info pushes so far (bounded)
    inputs         \* input events so far (bounded)

turnVars == <<hasTurn, turnInterval, timers, status, onVm, connectedVm, lastList,
              lastPaused, srvJoined, srvList, pushes, inputs>>
vars == <<transportVars, turnVars>>
displayVars == <<hasTurn, turnInterval, timers, status>>
ghostVars == <<lastList, lastPaused>>
serverVars == <<srvJoined, srvList, pushes>>

Kinds == {"turn", "waiting"}
\* The ms a waitingTimer closure can hold: at most the largest time pushed,
\* rounded, and one tick below zero.
TimerMs == -1000..(1000 + CHOOSE m \in TimesMs : \A t \in TimesMs : t <= m)
Timer == [kind : Kinds, ms : TimerMs, live : BOOLEAN]

TurnTypeOK ==
    /\ TypeOK
    /\ hasTurn \in BOOLEAN
    /\ timers \in Seq(Timer) /\ Len(timers) <= MaxPushes
    /\ turnInterval \in 0..Len(timers)
    /\ status \in {"", "Paused"} \cup Kinds
    /\ onVm \in BOOLEAN /\ connectedVm \in BOOLEAN
    /\ lastList \in Lists /\ lastPaused \in BOOLEAN
    /\ srvJoined \in BOOLEAN /\ srvList \in Lists
    /\ pushes \in 0..MaxPushes /\ inputs \in 0..MaxInputs

-----------------------------------------------------------------------------
(* waitingTimer(callback, ms) (main.js 497-515) and its callers.           *)

\* Variant of RoundedTurnTime: Math.round(timeRemaining) * 1000.
RoundedTurnTimeUnscaled(t) == t * 1000

\* Math.round(timeRemaining / 1000) * 1000 for timeRemaining >= 0:
\* Math.round(x) is floor(x + 1/2).
RoundedTurnTime(t) == ((2 * t + 1000) \div 2000) * 1000

\* Variant of Expired: the countdown stops only at exactly zero.
ExpiredExactlyZero(ms) == ms \div 1000 = 0

\* timerCallback: seconds = Math.floor(ms / 1000); seconds <= 0 ends it.
Expired(ms) == ms \div 1000 <= 0

\* clearInterval(turnInterval); a no-op for null or a finished interval.
Cleared(ts, i) == IF i = 0 THEN ts ELSE [ts EXCEPT ![i].live = FALSE]

\* Variant of StartCountdown: a countdown that ends at once leaves
\* turnInterval null.
StartCountdownNullOnExpiry(ts, kind, ms) ==
    /\ timers' = Append(ts, [kind |-> kind, ms |-> ms, live |-> TRUE])
    /\ turnInterval' = IF Expired(ms) THEN 0 ELSE Len(ts) + 1
    /\ status' = IF Expired(ms) THEN "" ELSE kind

\* turnInterval = waitingTimer(cb, ms) on timers ts: the first
\* timerCallback runs before setInterval returns, so when it ends at once
\* its callback(null) sets turnInterval = null and #status to "", and then
\* the assignment stores the new, still live, interval anyway.
StartCountdown(ts, kind, ms) ==
    /\ timers' = Append(ts, [kind |-> kind, ms |-> ms, live |-> TRUE])
    /\ turnInterval' = Len(ts) + 1
    /\ status' = IF Expired(ms) THEN "" ELSE kind

\* Variant of RestartCountdown: the running countdown is not cleared.
RestartCountdownNoClear(kind, t, p) ==
    IF p THEN status' = "Paused" /\ UNCHANGED <<timers, turnInterval>>
         ELSE StartCountdown(timers, kind, RoundedTurnTime(t))

\* The shared tail of the has-turn and waiting branches of onVmTurnInfo:
\* if (turnInterval !== null) clearInterval(turnInterval); if paused, show
\* "Paused" and return (turnInterval keeps the cleared id); else arm a new
\* countdown.
RestartCountdown(kind, t, p) ==
    IF p THEN /\ status' = "Paused"
              /\ timers' = Cleared(timers, turnInterval)
              /\ UNCHANGED turnInterval
         ELSE StartCountdown(Cleared(timers, turnInterval), kind, RoundedTurnTime(t))

\* Variant of StopCountdown: #status is not cleared.
StopCountdownKeepStatus ==
    IF turnInterval # 0
    THEN /\ timers' = Cleared(timers, turnInterval)
         /\ turnInterval' = 0
         /\ UNCHANGED status
    ELSE UNCHANGED <<timers, turnInterval, status>>

\* The branch for a user neither holding nor waiting for the turn: if
\* turnInterval !== null, clear it, null it and clear #status.
StopCountdown ==
    IF turnInterval # 0
    THEN /\ timers' = Cleared(timers, turnInterval)
         /\ turnInterval' = 0
         /\ status' = ""
    ELSE UNCHANGED <<timers, turnInterval, status>>

\* onVmTurnInfo(usersList, timeRemaining, isPaused) (main.js 727-788).
OnVmTurnInfo(l, t, p) ==
    /\ lastList' = l /\ lastPaused' = p
    /\ CASE l # <<>> /\ l[1] = Me ->
              hasTurn' = TRUE /\ RestartCountdown("turn", t, p)
         [] Me \in Range(l) ->
              hasTurn' = FALSE /\ RestartCountdown("waiting", t, p)
         [] OTHER ->
              hasTurn' = FALSE /\ StopCountdown

\* One tick of the setInterval of waitingTimer i: ms -= 1000;
\* timerCallback().  When it ends: clearInterval(interval); callback(null),
\* which sets turnInterval = null and clears #status.
IntervalTick(i) ==
    /\ timers[i].live
    /\ timers[i].ms >= 0    \* bound: a live countdown never goes below zero
    /\ LET ms == timers[i].ms - 1000 IN
         IF Expired(ms)
         THEN /\ timers' = [timers EXCEPT ![i].ms = ms, ![i].live = FALSE]
              /\ turnInterval' = 0
              /\ status' = ""
         ELSE /\ timers' = [timers EXCEPT ![i].ms = ms]
              /\ status' = timers[i].kind
              /\ UNCHANGED turnInterval
    /\ UNCHANGED <<transportVars, hasTurn, onVm, connectedVm, ghostVars, serverVars, inputs>>

\* viewVm() (main.js 542-570) as far as turns go: hasTurn = false;
\* #vm-view shown.  The countdown is left running.
ViewVm ==
    /\ hasTurn' = FALSE
    /\ onVm' = TRUE

\* onConnect (main.js 656-666): ...; guacClient.connect(); viewVm().
OnConnect ==
    /\ ViewVm
    /\ connectedVm' = TRUE
    /\ UNCHANGED <<turnInterval, timers, status, ghostVars>>

Receive ==
    /\ toClient # <<>>
    /\ toClient' = Tail(toClient)
    /\ LET e == Head(toClient) IN
         IF e.type = "connect"
         THEN OnConnect
         ELSE OnVmTurnInfo(e.list, e.time, e.paused) /\ UNCHANGED <<onVm, connectedVm>>
    /\ UNCHANGED <<readyState, retryPending, serializerConnected, sockets, toServer,
                   serverVars, inputs>>

-----------------------------------------------------------------------------
(* The socket.                                                             *)

\* onopen; the router's onSocketConnect for "/vm/v" finds currentVmId
\* null and sends the connect request.
TurnSocketOpen ==
    /\ SocketOpen
    /\ toServer' = Append(toServer, ConnectRequest)
    /\ UNCHANGED turnVars

\* onclose of an open socket; onSocketDisconnect (main.js 22-27):
\* currentVmId = null; showLoading().  hasTurn and the countdown are left
\* as they are.  The server drops the connection from the VM and its
\* turn list.
TurnSocketDropped ==
    /\ SocketDropped
    /\ onVm' = FALSE /\ connectedVm' = FALSE
    /\ srvJoined' = FALSE
    /\ srvList' = SelectSeq(srvList, LAMBDA u : u # Me)
    /\ UNCHANGED <<displayVars, ghostVars, pushes, inputs>>

TurnSocketFailed == SocketFailed /\ UNCHANGED turnVars
TurnRetryFire == RetryFire /\ UNCHANGED turnVars

-----------------------------------------------------------------------------
(* The user.                                                               *)

\* The mouse, keyboard and on-screen-keyboard handlers (main.js 190-236)
\* forward an event only if hasTurn: sendGuacInstr on the current socket.
SendInput ==
    /\ hasTurn
    /\ inputs < MaxInputs
    /\ inputs' = inputs + 1
    /\ SendOn(readyState, Input)
    /\ UNCHANGED <<readyState, retryPending, serializerConnected, sockets, toClient,
                   displayVars, onVm, connectedVm, ghostVars, serverVars>>

\* A click on the display without the turn (main.js 171-179):
\* sendTurnRequest().  (The captcha detour is modelled with the chat.)
RequestTurn ==
    /\ onVm /\ ~hasTurn
    /\ inputs < MaxInputs
    /\ inputs' = inputs + 1
    /\ SendOn(readyState, TurnRequest)
    /\ UNCHANGED <<readyState, retryPending, serializerConnected, sockets, toClient,
                   displayVars, onVm, connectedVm, ghostVars, serverVars>>

\* The user leaves the VM page for another page ("/login", ...): the
\* router hides #vm-view; no request tells the server.
LeaveVmPage ==
    /\ onVm
    /\ onVm' = FALSE
    /\ UNCHANGED <<transportVars, displayVars, connectedVm, ghostVars, serverVars, inputs>>

\* Back to "/vm/v" after onConnect on this socket: the router's
\* onSocketConnect finds currentVmId === vmId and only calls viewVm().
ViewVmAgain ==
    /\ ~onVm /\ connectedVm /\ readyState = "OPEN"
    /\ ViewVm
    /\ UNCHANGED <<transportVars, turnInterval, timers, status, connectedVm,
                   ghostVars, serverVars, inputs>>

-----------------------------------------------------------------------------
(* The server (environment).  It joins the connection to the VM and        *)
(* answers with the connect reply and a snapshot of the turn list; it      *)
(* queues the user on a turn request; and it pushes a new list whenever    *)
(* the queue moves (any list, any time left, paused or not).               *)

\* Push list l after the frames q; once the bound on pushes is used up,
\* only q is sent and the list stays as it was.
PushTurnInfo(l, q) ==
    IF pushes < MaxPushes
    THEN /\ pushes' = pushes + 1
         /\ srvList' = l
         /\ \E t \in TimesMs, p \in BOOLEAN : toClient' = q \o <<TurnInfo(l, t, p)>>
    ELSE toClient' = q /\ UNCHANGED <<srvList, pushes>>

ServerStep ==
    /\ toServer # <<>>
    /\ toServer' = Tail(toServer)
    /\ CASE Head(toServer) = ConnectRequest ->
              /\ srvJoined' = TRUE
              /\ PushTurnInfo(srvList, Append(toClient, ConnectReply))
         [] Head(toServer) = TurnRequest ->
              /\ IF srvJoined /\ ~(Me \in Range(srvList))
                 THEN PushTurnInfo(Append(srvList, Me), toClient)
                 ELSE UNCHANGED <<toClient, srvList, pushes>>
              /\ UNCHANGED srvJoined
         [] Head(toServer) = Input ->
              UNCHANGED <<toClient, serverVars>>
    /\ UNCHANGED <<readyState, retryPending, serializerConnected, sockets,
                   displayVars, onVm, connectedVm, ghostVars, inputs>>

ServerQueueMoves ==
    /\ srvJoined /\ readyState = "OPEN" /\ pushes < MaxPushes
    /\ \E l \in Lists : PushTurnInfo(l, toClient)
    /\ UNCHANGED <<readyState, retryPending, serializerConnected, sockets, toServer,
                   displayVars, onVm, connectedVm, ghostVars, srvJoined, inputs>>

-----------------------------------------------------------------------------
\* The page starts on "/vm/v", loading, with the socket connecting.
TurnInit ==
    /\ Init
    /\ hasTurn = FALSE /\ turnInterval = 0 /\ timers = <<>> /\ status = ""
    /\ onVm = FALSE /\ connectedVm = FALSE
    /\ lastList = <<>> /\ lastPaused = FALSE
    /\ srvJoined = FALSE /\ srvList \in Lists /\ ~(Me \in Range(srvList))
    /\ pushes = 0 /\ inputs = 0

TurnNext ==
    \/ Receive \/ \E i \in 1..Len(timers) : IntervalTick(i)
    \/ SendInput \/ RequestTurn \/ LeaveVmPage \/ ViewVmAgain
    \/ TurnSocketOpen \/ TurnSocketDropped \/ TurnSocketFailed \/ TurnRetryFire
    \/ ServerStep \/ ServerQueueMoves

\* A live setInterval fires every second, onmessage runs for every frame,
\* the browser settles every handshake and the server answers every
\* request.
TurnFairness ==
    /\ \A i \in 1..MaxPushes : WF_vars(i <= Len(timers) /\ IntervalTick(i))
    /\ WF_vars(Receive)
    /\ WF_vars(TurnSocketOpen \/ TurnSocketFailed) /\ WF_vars(TurnRetryFire)
    /\ WF_vars(ServerStep)

TurnSpec == TurnInit /\ [][TurnNext]_vars /\ TurnFairness

-----------------------------------------------------------------------------
(* Properties.                                                             *)

Live(i) == i <= Len(timers) /\ timers[i].live
LiveTimers == {i \in 1..Len(timers) : timers[i].live}

\* Spec 4.2 and 5: a previous countdown is cancelled before a new one is
\* armed, so at most one is live, and it is the one turnInterval holds
\* (the one the next onVmTurnInfo will clear).
AtMostOneCountdown ==
    /\ Cardinality(LiveTimers) <= 1
    /\ \A i \in LiveTimers : turnInterval = i

\* A countdown on #status is the one the last handled turn list calls for:
\* "Your turn expires" only while the user heads it, "Waiting for turn"
\* only while the user waits in it, neither while it is paused.  Ticks of
\* an interval that was not cleared, or a callback(null) racing a newer
\* countdown, would break it.
StatusMatchesQueue ==
    /\ status = "turn" => lastList # <<>> /\ lastList[1] = Me /\ ~lastPaused
    /\ status = "waiting" => Me \in Range(lastList) /\ lastList[1] # Me /\ ~lastPaused

\* Every countdown ends: waitingTimer clears its interval once the time
\* left reaches zero, including one armed with no time left at all.
CountdownEventuallyCleared == \A i \in 1..MaxPushes : Live(i) ~> ~Live(i)
=============================================================================
