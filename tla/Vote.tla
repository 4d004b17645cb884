-------------------------------- MODULE Vote --------------------------------
(***************************************************************************)
(* The vote panel of the main page (main.js): the start / yes / no buttons *)
(* viewVm installs, the captcha detour they take while captchaRequired,    *)
(* showCaptchaModal and its callback, the onVote* handlers with the vote   *)
(* countdown, onCaptchaRequired and onConnect's captcha flag, on top of    *)
(* the Transport.                                                          *)
(*                                                                         *)
(* The user sits on a VM page: every socket open sends the connect         *)
(* request.  `captchaModal` is the callback of the reCAPTCHA widget on     *)
(* screen ("none" when the modal is hidden, "noAction" for the one         *)
(* onCaptchaRequired shows).  A vote countdown is one setInterval of      *)
(* onVoteStatus, kept in `voteTimers` as for the turn countdowns.          *)
(* The server is an environment running the vote phases; a vote frame     *)
(* carries a bookkeeping field `informed` (every push had been handled    *)
(* when it was sent) that no handler reads.                               *)
(***************************************************************************)
EXTENDS Transport, Integers, FiniteSets

CONSTANTS
    VoteTimesMs,  \* timeRemaining values of onVoteStatus (0 included)
    MaxPushes,    \* bound: pushes by the server
    MaxClicks     \* bound: button clicks by the user

Buttons == {"start", "yes", "no"}
Phases == {"Disabled", "Idle", "Active", "CoolingDown"}

ConnectRequest == [type |-> "connectRequest"]
VoteRequest(b, inf) == [type |-> "vote", yes |-> b, informed |-> inf]
CaptchaCompleted == [type |-> "captchaCompleted"]
ConnectReply(c) == [type |-> "connect", captcha |-> c]
CaptchaPush(c) == [type |-> "captchaRequired", captcha |-> c]
PhasePush(ph) == [type |-> ph]
StatusPush(t) == [type |-> "Status", time |-> t]
ResultPush == [type |-> "Result"]

VARIABLES
    captchaRequired,  \* main.js captchaRequired
    hasVoted,         \* main.js hasVoted
    captchaModal,     \* callback of the captcha widget shown, or "none"
    startButton,      \* #start-vote-button: "hidden", "enabled", "disabled"
    alertShown,       \* #vote-alert (the yes / no buttons) shown
    voteInterval,     \* main.js voteInterval: an index of voteTimers, or 0
    voteTimers,       \* every setInterval of onVoteStatus: ms left, live
    srvJoined,        \* the server has this connection in the VM
    srvPhase,         \* the server's vote phase
    srvVoted,         \* the server counted a vote of this connection in this phase
    srvCaptcha,       \* the server requires a captcha of this connection
    gatedVote,        \* the server got an informed vote while requiring a captcha
    pushes,           \* pushes so far (bounded)
    clicks            \* clicks so far (bounded)

voteVars == <<captchaRequired, hasVoted, captchaModal, startButton, alertShown,
              voteInterval, voteTimers, srvJoined, srvPhase, srvVoted, srvCaptcha, gatedVote,
              pushes, clicks>>
vars == <<transportVars, voteVars>>
panelVars == <<startButton, alertShown, voteInterval, voteTimers>>
clientVars == <<captchaRequired, hasVoted, captchaModal, panelVars>>
serverVars == <<srvJoined, srvPhase, srvVoted, srvCaptcha, gatedVote, pushes>>

\* The ms an onVoteStatus closure can hold: at most the largest time
\* pushed, and one tick below zero.
VoteMs == -1000..(CHOOSE m \in VoteTimesMs : \A t \in VoteTimesMs : t <= m)

VoteTypeOK ==
    /\ TypeOK
    /\ captchaRequired \in BOOLEAN /\ hasVoted \in BOOLEAN
    /\ captchaModal \in {"none", "noAction"} \cup Buttons
    /\ startButton \in {"hidden", "enabled", "disabled"} /\ alertShown \in BOOLEAN
    /\ voteTimers \in Seq([ms : VoteMs, live : BOOLEAN]) /\ Len(voteTimers) <= MaxPushes + MaxSockets
    /\ voteInterval \in 0..Len(voteTimers)
    /\ srvJoined \in BOOLEAN /\ srvPhase \in Phases /\ srvVoted \in BOOLEAN /\ srvCaptcha \in BOOLEAN
    /\ gatedVote \in BOOLEAN
    /\ pushes \in 0..MaxPushes /\ clicks \in 0..MaxClicks

-----------------------------------------------------------------------------
(* The buttons and the captcha.                                            *)

\* onMessageReady for the frames msgs, sent one after the other in one
\* step: they reach the server only on an open socket.
Sent(msgs) == IF readyState = "OPEN" THEN toServer \o msgs ELSE toServer

\* getSocket().sendVote(yes) from button b: start and yes vote yes.
VoteFrame(b) == VoteRequest(b # "no", toClient = <<>>)

\* The part of a vote button's handler after its checks: hasVoted = true;
\* sendVote; yes and no also hide #vote-alert.
Cast(b) ==
    /\ hasVoted' = TRUE
    /\ alertShown' = (alertShown /\ b = "start")

\* A click on vote button b (main.js 577-612): while captchaRequired,
\* showCaptchaModal with the click itself as callback; else, unless
\* hasVoted, cast the vote.
VoteClick(b) ==
    IF captchaRequired
    THEN /\ captchaModal' = b
         /\ UNCHANGED <<hasVoted, alertShown, toServer>>
    ELSE IF hasVoted
    THEN UNCHANGED <<captchaModal, hasVoted, alertShown, toServer>>
    ELSE /\ Cast(b)
         /\ toServer' = Sent(<<VoteFrame(b)>>)
         /\ UNCHANGED captchaModal

\* Variant of CaptchaFrames: the replayed click runs before
\* sendCaptchaCompleted.
CaptchaFramesReplayFirst(b) == <<VoteFrame(b), CaptchaCompleted>>

\* The frames of a solved captcha whose callback replays button b:
\* sendCaptchaCompleted(token), then the replayed click's vote.
CaptchaFrames(b) == <<CaptchaCompleted, VoteFrame(b)>>

\* The widget's callback (main.js 626-634): hide the modal;
\* sendCaptchaCompleted; captchaRequired = false; replay the click, which
\* now passes the captcha check and casts the vote unless hasVoted.
CaptchaSolved ==
    /\ captchaModal # "none"
    /\ captchaModal' = "none"
    /\ captchaRequired' = FALSE
    /\ IF captchaModal = "noAction" \/ hasVoted
       THEN /\ toServer' = Sent(<<CaptchaCompleted>>)
            /\ UNCHANGED <<hasVoted, alertShown>>
       ELSE /\ Cast(captchaModal)
            /\ toServer' = Sent(CaptchaFrames(captchaModal))
    /\ UNCHANGED <<readyState, retryPending, serializerConnected, sockets, toClient,
                   startButton, voteInterval, voteTimers, serverVars, clicks>>

\* The user clicks a button on screen: start while shown and enabled, yes
\* and no while #vote-alert is shown; the captcha modal covers the page.
UserVote ==
    /\ captchaModal = "none"
    /\ clicks < MaxClicks
    /\ clicks' = clicks + 1
    /\ \E b \in Buttons :
         /\ IF b = "start" THEN startButton = "enabled" ELSE alertShown
         /\ VoteClick(b)
    /\ UNCHANGED <<readyState, retryPending, serializerConnected, sockets, toClient,
                   captchaRequired, startButton, voteInterval, voteTimers, serverVars>>

\* #vote-dismiss-button (main.js 614-616), or closing the captcha modal.
UserDismiss ==
    /\ \/ /\ alertShown /\ captchaModal = "none"
          /\ alertShown' = FALSE
          /\ UNCHANGED captchaModal
       \/ /\ captchaModal # "none"
          /\ captchaModal' = "none"
          /\ UNCHANGED alertShown
    /\ UNCHANGED <<transportVars, captchaRequired, hasVoted, startButton, voteInterval,
                   voteTimers, serverVars, clicks>>

-----------------------------------------------------------------------------
(* The handlers.                                                           *)

\* clearInterval(voteInterval) (a no-op for null or a finished interval).
ClearedVote(ts, i) == IF i = 0 THEN ts ELSE [ts EXCEPT ![i].live = FALSE]

\* Variant of HideVotes: the countdown is not cleared.
HideVotesKeepCountdown ==
    /\ alertShown' = FALSE
    /\ UNCHANGED <<voteInterval, voteTimers>>

\* hideVotes() (main.js 647-653): clear and null voteInterval; hide
\* #vote-status and #vote-alert.
HideVotes ==
    /\ voteTimers' = ClearedVote(voteTimers, voteInterval)
    /\ voteInterval' = 0
    /\ alertShown' = FALSE

\* Variant of VoteCountdownMs: timeRemaining taken for seconds.
VoteCountdownMsSeconds(t) == t * 1000

\* The ms the countdown starts from: var ms = timeRemaining (in ms).
VoteCountdownMs(t) == t

\* onVoteStatus(timeRemaining, ...) (main.js 692-719): hideVotes; the
\* start button is shown, disabled iff timeRemaining; with time left, a
\* countdown whose first voteStatus() runs before setInterval returns
\* (clearing voteInterval, null then, if already expired), and #vote-alert
\* unless hasVoted.
OnVoteStatus(t) ==
    /\ startButton' = IF t # 0 THEN "disabled" ELSE "enabled"
    /\ IF t = 0
       THEN HideVotes
       ELSE /\ voteTimers' = Append(ClearedVote(voteTimers, voteInterval),
                                    [ms |-> VoteCountdownMs(t), live |-> TRUE])
            /\ voteInterval' = Len(voteTimers) + 1
            /\ alertShown' = ~hasVoted
    /\ UNCHANGED hasVoted

\* Variant of VoteTick: voteStatus() never clears the interval at zero.
VoteTickNoClear(i) ==
    /\ voteTimers[i].live
    /\ voteTimers[i].ms >= 0
    /\ voteTimers' = [voteTimers EXCEPT ![i].ms = voteTimers[i].ms - 1000]
    /\ UNCHANGED <<transportVars, captchaRequired, hasVoted, captchaModal, startButton,
                   alertShown, voteInterval, serverVars, clicks>>

\* One tick of the vote countdown i: ms -= 1000; voteStatus(), which on
\* reaching zero clears voteInterval (the global, not i) without nulling it.
VoteTick(i) ==
    /\ voteTimers[i].live
    /\ voteTimers[i].ms >= 0    \* bound: a live countdown never goes below zero
    /\ LET ms == voteTimers[i].ms - 1000
           ts == [voteTimers EXCEPT ![i].ms = ms]
       IN voteTimers' = IF ms \div 1000 <= 0 THEN ClearedVote(ts, voteInterval) ELSE ts
    /\ UNCHANGED <<transportVars, captchaRequired, hasVoted, captchaModal, startButton,
                   alertShown, voteInterval, serverVars, clicks>>

\* hideEverything() of viewVm / showLoading (main.js 525-528): the vote
\* panel and the captcha modal are hidden; the countdown runs on.
HideEverything ==
    /\ startButton' = "hidden" /\ alertShown' = FALSE /\ captchaModal' = "none"

\* onConnect (main.js 656-666): captchaRequired = captchaRequired2; ...;
\* viewVm().  hasVoted is not touched.
OnConnect(c) ==
    /\ captchaRequired' = c
    /\ HideEverything
    /\ UNCHANGED <<hasVoted, voteInterval, voteTimers>>

\* onCaptchaRequired (main.js 672-678): captchaRequired = flag; if hasTurn,
\* showCaptchaModal() with no callback.  hasTurn belongs to the turn
\* display (module Turn): either case may hold.
OnCaptchaRequired(c) ==
    /\ captchaRequired' = c
    /\ \/ captchaModal' = "noAction"
       \/ UNCHANGED captchaModal
    /\ UNCHANGED <<hasVoted, panelVars>>

\* The onVote* handlers of main.js 679-723 for a phase push.
OnVotePhase(e) ==
    /\ CASE e.type = "Disabled"    -> HideVotes /\ startButton' = "hidden"
                                       /\ UNCHANGED hasVoted
         [] e.type = "Idle"        -> hasVoted' = FALSE /\ HideVotes /\ startButton' = "enabled"
         [] e.type = "CoolingDown" -> HideVotes /\ startButton' = "disabled"
                                       /\ UNCHANGED hasVoted
         [] e.type = "Result"      -> hasVoted' = FALSE /\ HideVotes
                                       /\ UNCHANGED startButton
         [] e.type = "Status"      -> OnVoteStatus(e.time)
    /\ UNCHANGED <<captchaRequired, captchaModal>>

Receive ==
    /\ toClient # <<>>
    /\ toClient' = Tail(toClient)
    /\ LET e == Head(toClient) IN
         CASE e.type = "connect"         -> OnConnect(e.captcha)
           [] e.type = "captchaRequired" -> OnCaptchaRequired(e.captcha)
           [] OTHER                      -> OnVotePhase(e)
    /\ UNCHANGED <<readyState, retryPending, serializerConnected, sockets, toServer,
                   serverVars, clicks>>

-----------------------------------------------------------------------------
(* The socket.                                                             *)

\* onopen; the router's onSocketConnect for "/vm/v" sends the connect
\* request.
VoteSocketOpen ==
    /\ SocketOpen
    /\ toServer' = Append(toServer, ConnectRequest)
    /\ UNCHANGED voteVars

\* onclose of an open socket; onSocketDisconnect's showLoading() hides the
\* panel and the modal.  The server forgets the connection and its vote.
VoteSocketDropped ==
    /\ SocketDropped
    /\ HideEverything
    /\ srvJoined' = FALSE /\ srvVoted' = FALSE
    /\ UNCHANGED <<captchaRequired, hasVoted, voteInterval, voteTimers,
                   srvPhase, srvCaptcha, gatedVote, pushes, clicks>>

VoteSocketFailed == SocketFailed /\ UNCHANGED voteVars
VoteRetryFire == RetryFire /\ UNCHANGED voteVars

-----------------------------------------------------------------------------
(* The server (environment).  The vote phase is the VM's; a vote is        *)
(* counted once per connection and phase; a yes vote while Idle starts a   *)
(* vote.  The captcha requirement of a connection is decided when it       *)
(* joins and may change between requests.  Whether the server drops a     *)
(* vote sent while it requires a captcha is not in this repository: the   *)
(* model counts it, and records in gatedVote that it came ungated.        *)

\* The push announcing phase ph (with time t left if Active).
Announce(ph, t) == IF ph = "Active" THEN StatusPush(t) ELSE PhasePush(ph)

ActiveTimes == VoteTimesMs \ {0}

\* The server's handling of a vote request req.
ServerVote(req) ==
    /\ gatedVote' = (gatedVote \/ (srvCaptcha /\ req.informed))
    /\ CASE srvPhase = "Idle" /\ req.yes /\ pushes < MaxPushes ->
              /\ srvPhase' = "Active" /\ srvVoted' = TRUE
              /\ pushes' = pushes + 1
              /\ \E t \in ActiveTimes : toClient' = Append(toClient, StatusPush(t))
         [] srvPhase = "Active" ->
              /\ srvVoted' = TRUE
              /\ UNCHANGED <<toClient, srvPhase, pushes>>
         [] OTHER ->  \* a vote outside a phase, or with no pushes left: ignored
              UNCHANGED <<toClient, srvPhase, srvVoted, pushes>>
    /\ UNCHANGED <<srvJoined, srvCaptcha>>

ServerStep ==
    /\ toServer # <<>>
    /\ toServer' = Tail(toServer)
    /\ LET req == Head(toServer) IN
       CASE req.type = "connectRequest" ->
              /\ srvJoined' = TRUE /\ srvVoted' = FALSE
              /\ \E c \in BOOLEAN, t \in ActiveTimes :
                   /\ srvCaptcha' = c
                   /\ toClient' = toClient \o <<ConnectReply(c), Announce(srvPhase, t)>>
              /\ UNCHANGED <<srvPhase, gatedVote, pushes>>
         [] req.type = "captchaCompleted" ->
              /\ srvCaptcha' = FALSE
              /\ UNCHANGED <<toClient, srvJoined, srvPhase, srvVoted, gatedVote, pushes>>
         [] req.type = "vote" -> ServerVote(req)
    /\ UNCHANGED <<readyState, retryPending, serializerConnected, sockets, clientVars, clicks>>

\* The vote phase moves on for the whole VM (another user starts a vote,
\* an update, the result and cooling down, idle again, an admin disables
\* or enables votes), whether or not this client is connected; a joined
\* connection is told.
Push(msgs) == toClient' = IF srvJoined THEN toClient \o msgs ELSE toClient

ServerPhaseStep ==
    /\ pushes < MaxPushes
    /\ pushes' = pushes + 1
    /\ \/ /\ srvPhase = "Idle" /\ srvPhase' = "Active" /\ srvVoted' = FALSE
          /\ \E t \in ActiveTimes : Push(<<StatusPush(t)>>)
       \/ /\ srvPhase = "Active" /\ UNCHANGED <<srvPhase, srvVoted>>
          /\ \E t \in VoteTimesMs : Push(<<StatusPush(t)>>)
       \/ /\ srvPhase = "Active" /\ srvPhase' = "CoolingDown" /\ srvVoted' = FALSE
          /\ Push(<<ResultPush, PhasePush("CoolingDown")>>)
       \/ /\ srvPhase \in {"CoolingDown", "Disabled"} /\ srvPhase' = "Idle"
          /\ Push(<<PhasePush("Idle")>>)
          /\ UNCHANGED srvVoted
       \/ /\ srvPhase # "Disabled" /\ srvPhase' = "Disabled" /\ srvVoted' = FALSE
          /\ Push(<<PhasePush("Disabled")>>)
    /\ UNCHANGED <<readyState, retryPending, serializerConnected, sockets, toServer,
                   clientVars, srvJoined, srvCaptcha, gatedVote, clicks>>

\* The server requires (or stops requiring) a captcha of the connection,
\* between requests.
ServerCaptchaStep ==
    /\ srvJoined /\ readyState = "OPEN" /\ toServer = <<>> /\ pushes < MaxPushes
    /\ pushes' = pushes + 1
    /\ \E c \in BOOLEAN :
         /\ srvCaptcha' = c
         /\ toClient' = Append(toClient, CaptchaPush(c))
    /\ UNCHANGED <<readyState, retryPending, serializerConnected, sockets, toServer,
                   clientVars, srvJoined, srvPhase, srvVoted, gatedVote, clicks>>

-----------------------------------------------------------------------------
\* A fresh page on "/vm/v"; the VM may be in any vote phase.
VoteInit ==
    /\ Init
    /\ captchaRequired = FALSE /\ hasVoted = FALSE /\ captchaModal = "none"
    /\ startButton = "hidden" /\ alertShown = FALSE
    /\ voteInterval = 0 /\ voteTimers = <<>>
    /\ srvJoined = FALSE /\ srvPhase \in Phases \ {"Active"} /\ srvVoted = FALSE
    /\ srvCaptcha = FALSE /\ gatedVote = FALSE
    /\ pushes = 0 /\ clicks = 0

VoteNext ==
    \/ UserVote \/ UserDismiss \/ CaptchaSolved
    \/ Receive \/ \E i \in 1..Len(voteTimers) : VoteTick(i)
    \/ VoteSocketOpen \/ VoteSocketDropped \/ VoteSocketFailed \/ VoteRetryFire
    \/ ServerStep \/ ServerPhaseStep \/ ServerCaptchaStep

\* A live setInterval fires every second; onmessage runs for every frame;
\* the handshake settles; the server answers every request.
VoteFairness ==
    /\ \A i \in 1..(MaxPushes + MaxSockets) : WF_vars(i <= Len(voteTimers) /\ VoteTick(i))
    /\ WF_vars(Receive)
    /\ WF_vars(VoteSocketOpen \/ VoteSocketFailed) /\ WF_vars(VoteRetryFire)
    /\ WF_vars(ServerStep)

VoteSpec == VoteInit /\ [][VoteNext]_vars /\ VoteFairness

-----------------------------------------------------------------------------
(* Properties.                                                             *)

LiveVoteTimers == {i \in 1..Len(voteTimers) : voteTimers[i].live}

Quiescent == readyState = "OPEN" /\ toServer = <<>> /\ toClient = <<>> /\ srvJoined

\* Spec 5: the vote countdown runs only during a vote.  With every frame
\* handled, a live onVoteStatus interval means the VM's vote is Active:
\* the Idle, Disabled, CoolingDown, Result and zero-time Status handlers
\* all stop it through hideVotes, including one left running across a
\* reconnect.
CountdownOnlyWhileActive ==
    (Quiescent /\ LiveVoteTimers # {}) => srvPhase = "Active"

\* Spec 5, captcha gating: a vote the client sends with every push handled
\* never reaches the server while the server still requires a captcha of
\* the connection: the buttons detour through the captcha, and its
\* callback sends the completion before it replays the click.
NoGatedVote == ~gatedVote

\* Spec 4.2: hasVoted blocks only a second vote in the same phase; it is
\* reset on a fresh onConnect.  With every frame handled during an active
\* vote, hasVoted holds only if the server has this connection's vote.
HasVotedOnlyIfCounted ==
    (Quiescent /\ srvPhase = "Active")
        => (hasVoted => srvVoted)

\* The vote countdowns all stop: the setInterval of onVoteStatus is cleared
\* by hideVotes, by the next onVoteStatus, or by its own voteStatus() at
\* zero, which clears the global voteInterval and so only stops it while
\* it is still the interval stored there.
VoteCountdownEventuallyStops == (LiveVoteTimers # {}) ~> (LiveVoteTimers = {})
=============================================================================
