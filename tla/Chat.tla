-------------------------------- MODULE Chat --------------------------------
(***************************************************************************)
(* The chat send button of the main page (main.js 263-290): its client-    *)
(* side rate limit with the deferred resend timers, the disabled state,    *)
(* the captcha detour through showCaptchaModal, and the resets of onConnect*)
(* and viewVm, on top of the Transport.                                    *)
(*                                                                         *)
(* Time is discrete: `now` is Date.now() in units of the rate limit's      *)
(* granularity, starting at RateLimit (Date.now() is far above            *)
(* chatRateLimit, so lastChatMessageTime = 0 never defers a send).  A      *)
(* resend timer is kept in `resends` as the time it is due; setTimeout     *)
(* never fires before it, and may fire any time after.  The text of the   *)
(* chat input is abstracted to a message or Empty.  The user sits on       *)
(* "/vm/v"; `currentVm` is currentVmId = v, set by the router's            *)
(* onSocketConnect when the socket opens and cleared by                   *)
(* onSocketDisconnect.                                                     *)
(***************************************************************************)
EXTENDS Transport, Integers, SequencesExt

CONSTANTS
    Msgs,        \* chat texts the user may type
    Empty,       \* the empty chat input
    RateLimit,   \* common.getChatRateLimit(), in time units
    MaxNow,      \* bound: time passes beyond it only while a resend timer is pending
    MaxTyped,    \* bound: messages typed
    MaxClicks,   \* bound: clicks on the send button
    MaxPushes,   \* bound: captcha demands by the server
    MaxNavs      \* bound: leaving and re-showing the VM page

ConnectRequest == [type |-> "connectRequest"]
CaptchaCompleted == [type |-> "captchaCompleted"]
ChatRequest(m, inf) == [type |-> "chat", msg |-> m, informed |-> inf]
ConnectReply(c) == [type |-> "connect", captcha |-> c]
CaptchaPush(c) == [type |-> "captchaRequired", captcha |-> c]

VARIABLES
    captchaRequired,      \* main.js captchaRequired
    captchaModal,         \* the captcha widget's callback: "none", "noAction", "send"
    sendDisabled,         \* #chat-send-btn disabled (and "loading")
    draft,                \* the value of #chat-input
    lastChatMessageTime,  \* main.js lastChatMessageTime
    resends,              \* the due times of the pending resend setTimeouts
    now,                  \* Date.now()
    onVm,                 \* #vm-view shown
    currentVm,            \* currentVmId = v
    srvJoined,            \* the server has this connection in the VM
    srvCaptcha,           \* the server requires a captcha of this connection
    sentAt,               \* when the last chat frame went out since onConnect
    gatedChat,            \* the server got an informed chat while requiring a captcha
    dropped,              \* a typed message was taken from the input and not sent
    joined,               \* onConnect handled on the current socket
    route,                \* the page's route: "vm" ("/vm/v") or "login"
    typed, clicks, pushes, navs  \* bounds

chatVars == <<captchaRequired, captchaModal, sendDisabled, draft, lastChatMessageTime,
              resends, now, onVm, currentVm, srvJoined, srvCaptcha, sentAt, gatedChat,
              dropped, joined, route, typed, clicks, pushes, navs>>
vars == <<transportVars, chatVars>>
buttonVars == <<captchaModal, sendDisabled, draft, lastChatMessageTime, resends,
                sentAt, dropped>>
serverVars == <<srvJoined, srvCaptcha, gatedChat, pushes>>

\* A resend is due at most RateLimit after the send it waits for, and each
\* resend that defers again needs a click of its own.
Clock == RateLimit..(MaxNow + MaxClicks * RateLimit)

ChatTypeOK ==
    /\ TypeOK
    /\ captchaRequired \in BOOLEAN /\ captchaModal \in {"none", "noAction", "send"}
    /\ sendDisabled \in BOOLEAN /\ draft \in Msgs \cup {Empty}
    /\ lastChatMessageTime \in {0} \cup Clock /\ resends \in Seq(Clock)
    /\ now \in Clock
    /\ onVm \in BOOLEAN /\ currentVm \in BOOLEAN /\ joined \in BOOLEAN /\ route \in {"vm", "login"}
    /\ srvJoined \in BOOLEAN /\ srvCaptcha \in BOOLEAN
    /\ sentAt \in {0} \cup Clock /\ gatedChat \in BOOLEAN /\ dropped \in BOOLEAN
    /\ typed \in 0..MaxTyped /\ clicks \in 0..MaxClicks
    /\ pushes \in 0..MaxPushes /\ navs \in 0..MaxNavs

-----------------------------------------------------------------------------
(* The send button.                                                        *)

\* Variant of Frames: the replayed click's frames go before the captcha
\* completion.
FramesReplayFirst(pre, msgs) == msgs \o pre

\* The frames of one step: pre (the captcha completion of the callback
\* that replays the click), then the click's own.
Frames(pre, msgs) == pre \o msgs

\* onMessageReady for frames sent one after the other in one step: they
\* reach the server only on an open socket.
Sent(pre, msgs) ==
    IF readyState = "OPEN" THEN toServer \o Frames(pre, msgs) ELSE toServer

\* Variant of ResendDelay: the subtraction the wrong way round.
ResendDelaySwapped(wait) == wait - RateLimit

\* The delay of the resend setTimeout: chatRateLimit - waitTime.
ResendDelay(wait) == RateLimit - wait

\* The #chat-send-btn click handler (main.js 264-290) run with the button
\* disabled or not (dis), captchaRequired cap, the captcha modal md, the
\* pending resend timers rs and the frames pre already sent in this step.
SendClick(dis, cap, md, rs, pre) ==
    LET wait == now - lastChatMessageTime IN
    \/ \* disabled, or nothing to send once the wait is over: return
       /\ dis \/ (~cap /\ wait >= RateLimit /\ draft = Empty)
       /\ sendDisabled' = dis /\ resends' = rs /\ toServer' = Sent(pre, <<>>)
       /\ captchaModal' = md
       /\ UNCHANGED <<lastChatMessageTime, draft, sentAt, dropped>>
    \/ \* captchaRequired: showCaptchaModal with the click as its callback
       /\ ~dis /\ cap
       /\ captchaModal' = "send"
       /\ sendDisabled' = dis /\ resends' = rs /\ toServer' = Sent(pre, <<>>)
       /\ UNCHANGED <<lastChatMessageTime, draft, sentAt, dropped>>
    \/ \* too early: disable the button and click again when the wait is over
       /\ ~dis /\ ~cap /\ wait < RateLimit
       /\ sendDisabled' = TRUE
       /\ resends' = Append(rs, now + ResendDelay(wait))
       /\ toServer' = Sent(pre, <<>>)
       /\ captchaModal' = md
       /\ UNCHANGED <<lastChatMessageTime, draft, sentAt, dropped>>
    \/ \* lastChatMessageTime = now; sendChatMessage; clear the input.  On a
       \* CONNECTING socket send throws before the input is cleared; on a
       \* CLOSED one the frame is discarded and the input cleared.
       /\ ~dis /\ ~cap /\ wait >= RateLimit /\ draft # Empty
       /\ lastChatMessageTime' = now
       /\ draft' = IF readyState = "CONNECTING" THEN draft ELSE Empty
       /\ toServer' = Sent(pre, <<ChatRequest(draft, joined /\ toClient = <<>>)>>)
       /\ sentAt' = IF readyState = "OPEN" THEN now ELSE sentAt
       /\ dropped' = (dropped \/ readyState = "CLOSED")
       /\ sendDisabled' = dis /\ resends' = rs /\ captchaModal' = md

\* The user types into #chat-input, enabled unless captchaRequired.
Type ==
    /\ onVm /\ captchaModal = "none" /\ ~captchaRequired
    /\ typed < MaxTyped
    /\ typed' = typed + 1
    /\ \E m \in Msgs : draft' = m
    /\ UNCHANGED <<transportVars, captchaRequired, captchaModal, sendDisabled,
                   lastChatMessageTime, resends, now, onVm, currentVm, serverVars,
                   sentAt, dropped, joined, route, clicks, navs>>

\* A click on #chat-send-btn, or Enter in #chat-input (trigger("click")).
UserSend ==
    /\ onVm /\ captchaModal = "none"
    /\ clicks < MaxClicks
    /\ clicks' = clicks + 1
    /\ SendClick(sendDisabled, captchaRequired, captchaModal, resends, <<>>)
    /\ UNCHANGED <<readyState, retryPending, serializerConnected, sockets, toClient,
                   captchaRequired, now, onVm, currentVm, serverVars, joined, route, typed, navs>>

\* Variant of ResendFire: the timer clicks the button without enabling it
\* first.
ResendFireStillDisabled(i) ==
    /\ resends[i] <= now
    /\ SendClick(sendDisabled, captchaRequired, captchaModal, RemoveAt(resends, i), <<>>)
    /\ UNCHANGED <<readyState, retryPending, serializerConnected, sockets, toClient,
                   captchaRequired, now, onVm, currentVm, serverVars, joined, route, typed, clicks,
                   navs>>

\* Variant of ResendFire: the timer sends the input itself instead of
\* clicking the button again, skipping the checks.
ResendFireNoRecheck(i) ==
    /\ resends[i] <= now
    /\ sendDisabled' = FALSE /\ resends' = RemoveAt(resends, i)
    /\ lastChatMessageTime' = now /\ draft' = Empty
    /\ toServer' = Sent(<<>>, IF draft # Empty THEN <<ChatRequest(draft, FALSE)>> ELSE <<>>)
    /\ sentAt' = IF readyState = "OPEN" /\ draft # Empty THEN now ELSE sentAt
    /\ UNCHANGED <<readyState, retryPending, serializerConnected, sockets, toClient,
                   captchaRequired, captchaModal, now, onVm, currentVm, serverVars,
                   dropped, joined, route, typed, clicks, navs>>

\* A resend setTimeout due by now fires (main.js 278-280): enable the
\* button and click it again, which runs every check anew.
ResendFire(i) ==
    /\ resends[i] <= now
    /\ SendClick(FALSE, captchaRequired, captchaModal, RemoveAt(resends, i), <<>>)
    /\ UNCHANGED <<readyState, retryPending, serializerConnected, sockets, toClient,
                   captchaRequired, now, onVm, currentVm, serverVars, joined, route, typed, clicks,
                   navs>>

\* The captcha widget's callback (main.js 626-634): hide the modal,
\* sendCaptchaCompleted, captchaRequired = false, replay the click.  On a
\* CONNECTING socket (the modal a resend timer opened after a drop)
\* sendCaptchaCompleted throws and the rest of the callback is skipped.
CaptchaSolved ==
    /\ captchaModal # "none"
    /\ \/ /\ readyState = "CONNECTING"
          /\ captchaModal' = "none"
          /\ UNCHANGED <<toServer, captchaRequired, sendDisabled, draft, lastChatMessageTime,
                         resends, sentAt, dropped>>
       \/ /\ readyState # "CONNECTING"
          /\ captchaRequired' = FALSE
          /\ IF captchaModal = "send"
             THEN SendClick(sendDisabled, FALSE, "none", resends, <<CaptchaCompleted>>)
             ELSE /\ captchaModal' = "none"
                  /\ toServer' = Sent(<<CaptchaCompleted>>, <<>>)
                  /\ UNCHANGED <<sendDisabled, draft, lastChatMessageTime, resends, sentAt,
                                 dropped>>
    /\ UNCHANGED <<readyState, retryPending, serializerConnected, sockets, toClient,
                   now, onVm, currentVm, serverVars, joined, route, typed, clicks, navs>>

\* The user closes the captcha modal.
UserDismiss ==
    /\ captchaModal # "none"
    /\ captchaModal' = "none"
    /\ UNCHANGED <<transportVars, captchaRequired, sendDisabled, draft, lastChatMessageTime,
                   resends, now, onVm, currentVm, serverVars, sentAt, dropped, joined,
                   route, typed, clicks, navs>>

\* Time passes; past MaxNow only up to the resend timers still pending.
Tick ==
    /\ now < MaxNow \/ \E i \in 1..Len(resends) : resends[i] > now
    /\ now' = now + 1
    /\ UNCHANGED <<transportVars, captchaRequired, buttonVars, onVm, currentVm,
                   serverVars, joined, route, typed, clicks, navs>>

-----------------------------------------------------------------------------
(* The page.                                                               *)

\* viewVm() (main.js 542-562) for the chat: hideEverything (the captcha
\* modal included), #vm-view shown, #chat-send-btn enabled.
ViewVm ==
    /\ onVm' = TRUE /\ captchaModal' = "none" /\ sendDisabled' = FALSE

\* The router's onSocketConnect for "/vm/v" (main.js 41-48), on a socket
\* in readyState state: viewVm() if currentVmId === vmId, else set it and
\* send the connect request.
OnSocketConnectVm(state) ==
    IF currentVm
    THEN ViewVm /\ UNCHANGED <<currentVm, toServer>>
    ELSE /\ currentVm' = TRUE
         /\ SendOn(state, ConnectRequest)
         /\ UNCHANGED <<onVm, captchaModal, sendDisabled>>

\* The router leaves for "/login" (main.js 49-50, 71-72): showLoginForm
\* hides everything.
LeaveVmPage ==
    /\ route = "vm" /\ navs < MaxNavs
    /\ navs' = navs + 1 /\ route' = "login"
    /\ onVm' = FALSE /\ captchaModal' = "none"
    /\ UNCHANGED <<transportVars, captchaRequired, sendDisabled, draft, lastChatMessageTime,
                   resends, now, currentVm, serverVars, sentAt, dropped, joined, typed,
                   clicks>>

\* The router back on "/vm/v" (main.js 39-63): onSocketConnect runs at once
\* if serializer.connected.
BackToVmPage ==
    /\ route = "login" /\ navs < MaxNavs
    /\ navs' = navs + 1 /\ route' = "vm"
    /\ IF serializerConnected
       THEN OnSocketConnectVm(readyState)
       ELSE UNCHANGED <<onVm, captchaModal, sendDisabled, currentVm, toServer>>
    /\ UNCHANGED <<readyState, retryPending, serializerConnected, sockets, toClient,
                   captchaRequired, draft, lastChatMessageTime, resends, now, serverVars,
                   sentAt, dropped, joined, typed, clicks>>

ChatSocketOpen ==
    /\ SocketOpen
    /\ IF route = "vm" THEN OnSocketConnectVm("OPEN")
                       ELSE UNCHANGED <<onVm, captchaModal, sendDisabled, currentVm, toServer>>
    /\ UNCHANGED <<captchaRequired, draft, lastChatMessageTime, resends, now, serverVars,
                   sentAt, dropped, joined, route, typed, clicks, pushes, navs>>

\* onSocketDisconnect (main.js 22-27): currentVmId = null; showLoading().
\* The server forgets the connection.
ChatSocketDropped ==
    /\ SocketDropped
    /\ currentVm' = FALSE /\ onVm' = FALSE /\ captchaModal' = "none"
    /\ srvJoined' = FALSE /\ joined' = FALSE
    /\ UNCHANGED <<captchaRequired, sendDisabled, draft, lastChatMessageTime, resends, now,
                   srvCaptcha, gatedChat, pushes, sentAt, dropped, route, typed, clicks, navs>>

ChatSocketFailed == SocketFailed /\ UNCHANGED chatVars
ChatRetryFire == RetryFire /\ UNCHANGED chatVars

\* onConnect (main.js 656-666): captchaRequired = captchaRequired2;
\* lastChatMessageTime = 0; the chat box emptied; viewVm().
OnConnect(c) ==
    /\ captchaRequired' = c /\ lastChatMessageTime' = 0
    /\ ViewVm
    /\ sentAt' = 0 /\ joined' = TRUE
    /\ UNCHANGED <<draft, resends, currentVm>>

\* onCaptchaRequired (main.js 672-678): captchaRequired = flag; if hasTurn
\* (not modelled here: either), showCaptchaModal() with no callback.
OnCaptchaRequired(c) ==
    /\ captchaRequired' = c
    /\ \/ captchaModal' = "noAction"
       \/ UNCHANGED captchaModal
    /\ UNCHANGED <<sendDisabled, draft, lastChatMessageTime, resends, sentAt, onVm, currentVm, joined>>

Receive ==
    /\ toClient # <<>>
    /\ toClient' = Tail(toClient)
    /\ LET e == Head(toClient) IN
         CASE e.type = "connect"         -> OnConnect(e.captcha)
           [] e.type = "captchaRequired" -> OnCaptchaRequired(e.captcha)
    /\ UNCHANGED <<readyState, retryPending, serializerConnected, sockets, toServer,
                   now, serverVars, dropped, route, typed, clicks, navs>>

-----------------------------------------------------------------------------
(* The server (environment): it joins the connection with or without a     *)
(* captcha requirement, lifts it on a captcha completion, and may demand   *)
(* a captcha again between requests.  Whether it drops a chat sent while   *)
(* it requires a captcha is not in this repository: gatedChat records an  *)
(* informed one.                                                          *)

ServerStep ==
    /\ toServer # <<>>
    /\ toServer' = Tail(toServer)
    /\ LET req == Head(toServer) IN
       CASE req.type = "connectRequest" ->
              /\ srvJoined' = TRUE
              /\ \E c \in BOOLEAN : srvCaptcha' = c /\ toClient' = Append(toClient, ConnectReply(c))
              /\ UNCHANGED gatedChat
         [] req.type = "captchaCompleted" ->
              /\ srvCaptcha' = FALSE
              /\ UNCHANGED <<toClient, srvJoined, gatedChat>>
         [] req.type = "chat" ->
              /\ gatedChat' = (gatedChat \/ (srvCaptcha /\ req.informed))
              /\ UNCHANGED <<toClient, srvJoined, srvCaptcha>>
    /\ UNCHANGED <<readyState, retryPending, serializerConnected, sockets, captchaRequired,
                   buttonVars, now, onVm, currentVm, joined, pushes, route, typed, clicks, navs>>

ServerCaptchaStep ==
    /\ srvJoined /\ readyState = "OPEN" /\ toServer = <<>> /\ pushes < MaxPushes
    /\ pushes' = pushes + 1
    /\ \E c \in BOOLEAN : srvCaptcha' = c /\ toClient' = Append(toClient, CaptchaPush(c))
    /\ UNCHANGED <<readyState, retryPending, serializerConnected, sockets, toServer,
                   captchaRequired, buttonVars, now, onVm, currentVm, joined, srvJoined, gatedChat,
                   route, typed, clicks, navs>>

-----------------------------------------------------------------------------
\* A fresh page on "/vm/v" (main.js module state and line 263).
ChatInit ==
    /\ Init
    /\ captchaRequired = FALSE /\ captchaModal = "none" /\ sendDisabled = FALSE
    /\ draft = Empty /\ lastChatMessageTime = 0 /\ resends = <<>> /\ now = RateLimit
    /\ onVm = FALSE /\ currentVm = FALSE /\ joined = FALSE /\ route = "vm"
    /\ srvJoined = FALSE /\ srvCaptcha = FALSE
    /\ sentAt = 0 /\ gatedChat = FALSE /\ dropped = FALSE
    /\ typed = 0 /\ clicks = 0 /\ pushes = 0 /\ navs = 0

ChatNext ==
    \/ Type \/ UserSend \/ \E i \in 1..Len(resends) : ResendFire(i)
    \/ CaptchaSolved \/ UserDismiss \/ Tick
    \/ LeaveVmPage \/ BackToVmPage
    \/ ChatSocketOpen \/ ChatSocketDropped \/ ChatSocketFailed \/ ChatRetryFire
    \/ Receive \/ ServerStep \/ ServerCaptchaStep

\* Time passes, and a setTimeout that is due fires.
ChatFairness ==
    /\ WF_vars(Tick)
    /\ WF_vars(\E i \in 1..Len(resends) : ResendFire(i))

ChatSpec == ChatInit /\ [][ChatNext]_vars /\ ChatFairness

-----------------------------------------------------------------------------
(* Properties.                                                             *)

\* A step that puts a chat frame on the wire.
ChatSent == Len(toServer') > Len(toServer) /\ Last(toServer').type = "chat"

\* Spec 4.2 and 6: consecutive chat messages of one session (between two
\* onConnect) go out at least chatRateLimit apart; an early send is
\* deferred and retried, never sent early, whatever the resend timers,
\* viewVm's re-enabling of the button and captcha replays interleave.
SendsRateLimited == [][ChatSent => now - sentAt >= RateLimit]_vars

\* Spec 4.2 captcha gating: a chat message sent after onConnect and with
\* every push handled never reaches the server while it still requires a captcha of the
\* connection; the captcha callback sends the completion before the
\* replayed click.
NoGatedChat == ~gatedChat

\* Spec 4.2: a deferred send is never dropped.  Once the send handler
\* has cleared #chat-input the frame has gone out on an open socket.
NoChatDropped == ~dropped
\* The send button, once disabled by the rate limit (main.js 276-277), is
\* enabled again: the resend timer that disabled it fires, re-enables it
\* and clicks it, whatever drops, page changes and captcha demands happen
\* in between.  Only viewVm enables it otherwise.
SendButtonEventuallyEnabled == sendDisabled ~> ~sendDisabled

=============================================================================
