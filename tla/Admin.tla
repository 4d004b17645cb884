-------------------------------- MODULE Admin --------------------------------
(***************************************************************************)
(* The admin console (admin.js) over the transport of common.js: the       *)
(* "/admin" router and the callbacks it installs, the reCAPTCHA login, the *)
(* VM table with its selection-bound buttons, the VM settings form and the *)
(* reply handlers.                                                         *)
(*                                                                         *)
(* `page` is the section the show* functions leave visible.  The form of   *)
(* #vm-settings and the VM buttons are taken to sit in #view-vms, which    *)
(* showServerConfig shows (admin.html is not in the repository).  The      *)
(* server is an environment that answers each request on the current      *)
(* socket in order.  Its replies carry no VM id: onVmConfig gets a         *)
(* VmConfig object.  The `vm` field of a vmConfig reply is bookkeeping for *)
(* the properties, and no handler reads it.                                *)
(***************************************************************************)
EXTENDS Transport, FiniteSets, SequencesExt

CONSTANTS
    Vms,        \* VM ids
    NoVm,       \* currentVmId undefined; the settings button disabled
    Sids,       \* session ids
    NoSid,      \* nothing in localStorage["sessionId"]
    MaxClicks   \* bound: the admin's clicks

LoginRequest == [type |-> "login"]
ServerConfigRequest == [type |-> "serverConfigRequest"]
ReadVmsRequest == [type |-> "readVms"]
ReadVmConfig(v) == [type |-> "readVmConfig", vm |-> v]
CreateVmRequest == [type |-> "createVm"]
VmSettings(v) == [type |-> "vmSettings", vm |-> v]
DeleteVmRequest(v) == [type |-> "deleteVm", vm |-> v]
VmsCommand(ids) == [type |-> "vmsCommand", vms |-> ids]
CreateInviteRequest == [type |-> "createInvite"]

LoginSucceeded(s) == [type |-> "loginSucceeded", sid |-> s]
LoginFailed == [type |-> "loginFailed"]
ServerConfig == [type |-> "serverConfig"]
AdminVms(S) == [type |-> "adminVms", vms |-> S]
VmConfig(v) == [type |-> "vmConfig", vm |-> v]
VmCreated(v) == [type |-> "vmCreated", vm |-> v]
InviteResult(ok) == [type |-> "inviteResult", ok |-> ok]

VARIABLES
    routed,          \* the "/admin" router ran: onSocketConnect / onSocketDisconnect set
    page,            \* "loading" (#loading), "login" (the login form), "vms" (#view-vms)
    storedSid,       \* localStorage["sessionId"] (saveSessionInfo)
    currentVmId,     \* admin.js currentVmId
    formShown,       \* #vm-settings visible
    formVm,          \* the VM whose settings the form shows (bookkeeping)
    table,           \* VM ids in the #vm-list Tabulator of the last onAdminVms
    selection,       \* rows selected in that table
    cmdIds,          \* vmIds the start / stop / restart handlers captured
    cmdEnabled,      \* start / stop / restart buttons enabled
    settingsTarget,  \* data[0].id of #settings-vm-button, NoVm while it is disabled
    inviteShown,     \* #user-invite-modal shown
    srvVms,          \* VMs the server holds
    clicks           \* the admin's clicks so far (bounded)

adminVars == <<routed, page, storedSid, currentVmId, formShown, formVm, table, selection,
               cmdIds, cmdEnabled, settingsTarget, inviteShown, srvVms, clicks>>
vars == <<transportVars, adminVars>>
formVars == <<currentVmId, formShown, formVm>>
tableVars == <<table, selection, cmdIds, cmdEnabled, settingsTarget>>

AdminTypeOK ==
    /\ TypeOK
    /\ routed \in BOOLEAN
    /\ page \in {"loading", "login", "vms"}
    /\ storedSid \in Sids \cup {NoSid}
    /\ currentVmId \in Vms \cup {NoVm} /\ formVm \in Vms \cup {NoVm}
    /\ formShown \in BOOLEAN
    /\ table \subseteq Vms /\ selection \subseteq table
    /\ cmdIds \subseteq Vms /\ cmdEnabled \in BOOLEAN
    /\ settingsTarget \in Vms \cup {NoVm}
    /\ inviteShown \in BOOLEAN
    /\ srvVms \subseteq Vms
    /\ clicks \in 0..MaxClicks

-----------------------------------------------------------------------------
(* The sections (admin.js 422-452, 495-502).                               *)

\* showLoading(): #loading over everything else.
ShowLoading == page' = "loading"

\* showLoginForm(): the login form, with a fresh reCAPTCHA widget.
ShowLoginForm == page' = "login"

\* Variant of Route: the router only installs the callbacks.
RouteNoCatchUp ==
    /\ ~routed
    /\ routed' = TRUE
    /\ UNCHANGED page
    /\ UNCHANGED <<transportVars, storedSid, formVars, tableVars, inviteShown, srvVms, clicks>>

\* registerUrlRouter callback for "/admin" (admin.js 10-35), run once by
\* findRoute on DOM ready: it installs onSocketDisconnect = showLoading and
\* onSocketConnect = showLoginForm, and calls the latter if
\* serializer.connected already holds.
Route ==
    /\ ~routed
    /\ routed' = TRUE
    /\ IF serializerConnected THEN ShowLoginForm ELSE UNCHANGED page
    /\ UNCHANGED <<transportVars, storedSid, formVars, tableVars, inviteShown, srvVms, clicks>>

-----------------------------------------------------------------------------
(* Reply handlers (admin.js 245-329).  A reply is handled on an OPEN       *)
(* socket, so the requests they send go out.                               *)

\* onLoginSucceeded: saveSessionInfo, then the server configuration and
\* the VM list are requested.  #loading stays up.
OnLoginSucceeded(s) ==
    /\ storedSid' = s
    /\ toServer' = toServer \o <<ServerConfigRequest, ReadVmsRequest>>
    /\ UNCHANGED <<page, formVars, tableVars, inviteShown>>

\* onLoginFailed: the error text, then showLoginForm().
OnLoginFailed ==
    /\ ShowLoginForm
    /\ UNCHANGED <<toServer, storedSid, formVars, tableVars, inviteShown>>

\* onServerConfig -> showServerConfig (504-563): #view-vms replaces
\* #loading; the #server-config inputs it fills are never shown (510).
OnServerConfig ==
    /\ page' = "vms"
    /\ UNCHANGED <<toServer, storedSid, formVars, tableVars, inviteShown>>

\* Variant of OnAdminVms: the new table keeps the old selection.
OnAdminVmsKeepSelection(S) ==
    /\ table' = S
    /\ UNCHANGED <<selection, cmdIds, cmdEnabled, settingsTarget>>
    /\ UNCHANGED <<toServer, page, storedSid, formVars, inviteShown>>

OnAdminVms(S) ==
    /\ table' = S
    /\ selection' = {}
    /\ cmdIds' = {} /\ cmdEnabled' = FALSE /\ settingsTarget' = NoVm
    /\ UNCHANGED <<toServer, page, storedSid, formVars, inviteShown>>

\* showVmConfig(vmConfig) (37-242): fills the form, rebinds its change
\* handlers and shows #vm-settings.
ShowVmConfig(v) == formShown' = TRUE /\ formVm' = v

\* onVmConfig: showVmConfig(vmConfig); currentVmId is left as it is.
OnVmConfig(v) ==
    /\ ShowVmConfig(v)
    /\ UNCHANGED <<toServer, page, storedSid, currentVmId, tableVars, inviteShown>>

\* onVmCreated: currentVmId = vmId; showVmConfig of default settings.
OnVmCreated(v) ==
    /\ currentVmId' = v
    /\ ShowVmConfig(v)
    /\ UNCHANGED <<toServer, page, storedSid, tableVars, inviteShown>>

\* onCreateInviteResult: an empty id only logs; otherwise the link modal.
OnCreateInviteResult(ok) ==
    /\ inviteShown' = (inviteShown \/ ok)
    /\ UNCHANGED <<toServer, page, storedSid, formVars, tableVars>>

Dispatch(e) ==
    CASE e.type = "loginSucceeded" -> OnLoginSucceeded(e.sid)
      [] e.type = "loginFailed"    -> OnLoginFailed
      [] e.type = "serverConfig"   -> OnServerConfig
      [] e.type = "adminVms"       -> OnAdminVms(e.vms)
      [] e.type = "vmConfig"       -> OnVmConfig(e.vm)
      [] e.type = "vmCreated"      -> OnVmCreated(e.vm)
      [] e.type = "inviteResult"   -> OnCreateInviteResult(e.ok)

-----------------------------------------------------------------------------
(* The admin's clicks.                                                     *)

Click == clicks < MaxClicks /\ clicks' = clicks + 1

\* The reCAPTCHA callback of showLoginForm (439-443; RECAPTCHA_ENABLED is
\* true, webpack.common.js 1): sendLoginRequest, then showLoading().  On a
\* CONNECTING socket send throws and showLoading is not reached.
Login ==
    /\ page = "login"
    /\ Click
    /\ IF readyState = "CONNECTING"
       THEN UNCHANGED <<toServer, page>>
       ELSE SendOn(readyState, LoginRequest) /\ ShowLoading
    /\ UNCHANGED <<readyState, retryPending, serializerConnected, sockets, toClient,
                   routed, storedSid, formVars, tableVars, inviteShown, srvVms>>

\* Actions of the sections showServerConfig shows, which send on the
\* current socket.
UserSend(msg) ==
    /\ page = "vms"
    /\ Click
    /\ SendOn(readyState, msg)

\* rowSelectionChanged (260-279): #settings-vm-button is enabled for
\* exactly one row and reads data[0].id; start / stop / restart are
\* enabled for a non-empty selection and capture its ids.
SelectRows ==
    /\ page = "vms"
    /\ Click
    /\ \E S \in SUBSET table :
         /\ S # selection
         /\ selection' = S
         /\ cmdIds' = S
         /\ cmdEnabled' = (S # {})
         /\ settingsTarget' = IF Cardinality(S) = 1 THEN CHOOSE v \in S : TRUE ELSE NoVm
    /\ UNCHANGED <<transportVars, routed, page, storedSid, formVars, table,
                   inviteShown, srvVms>>

\* #settings-vm-button (263-266): currentVmId = data[0].id;
\* sendReadVmConfig(currentVmId).
OpenSettings ==
    /\ settingsTarget # NoVm
    /\ UserSend(ReadVmConfig(settingsTarget))
    /\ currentVmId' = settingsTarget
    /\ UNCHANGED <<readyState, retryPending, serializerConnected, sockets, toClient,
                   routed, page, storedSid, formShown, formVm, tableVars, inviteShown, srvVms>>

\* #start-vm-button, #stop-vm-button, #restart-vm-button (267-278): the
\* request for the captured vmIds (the three differ only in its type).
RunVmsCommand ==
    /\ cmdEnabled
    /\ UserSend(VmsCommand(cmdIds))
    /\ UNCHANGED <<readyState, retryPending, serializerConnected, sockets, toClient,
                   routed, page, storedSid, formVars, tableVars, inviteShown, srvVms>>

\* #new-vm-button (420): sendCreateVmRequest.
NewVm ==
    /\ UserSend(CreateVmRequest)
    /\ UNCHANGED <<readyState, retryPending, serializerConnected, sockets, toClient,
                   routed, page, storedSid, formVars, tableVars, inviteShown, srvVms>>

\* A change of any field, checkbox or Guacamole parameter of the form
\* (48-198): sendVmSettings(currentVmId, settings), currentVmId read now.
EditSettings ==
    /\ formShown
    /\ UserSend(VmSettings(currentVmId))
    /\ UNCHANGED <<readyState, retryPending, serializerConnected, sockets, toClient,
                   routed, page, storedSid, formVars, tableVars, inviteShown, srvVms>>

\* #delete-vm-button and the modal's approve (229-236): hide the form,
\* sendDeleteVm(currentVmId), read at approval.
DeleteVm ==
    /\ formShown
    /\ UserSend(DeleteVmRequest(currentVmId))
    /\ formShown' = FALSE
    /\ UNCHANGED <<readyState, retryPending, serializerConnected, sockets, toClient,
                   routed, page, storedSid, currentVmId, formVm, tableVars, inviteShown, srvVms>>

\* The form's close button (484).
CloseSettings ==
    /\ formShown
    /\ formShown' = FALSE
    /\ UNCHANGED <<transportVars, routed, page, storedSid, currentVmId, formVm,
                   tableVars, inviteShown, srvVms, clicks>>

\* #user-invite-create-button (410-418): createUserInvite.
CreateUserInvite ==
    /\ UserSend(CreateInviteRequest)
    /\ UNCHANGED <<readyState, retryPending, serializerConnected, sockets, toClient,
                   routed, page, storedSid, formVars, tableVars, inviteShown, srvVms>>

\* The invite modal is closed.
DismissInvite ==
    /\ inviteShown
    /\ inviteShown' = FALSE
    /\ UNCHANGED <<transportVars, routed, page, storedSid, formVars, tableVars, srvVms, clicks>>

-----------------------------------------------------------------------------
(* The socket.                                                             *)

\* onmessage: the handler of the frame at the head of toClient.
Receive ==
    /\ toClient # <<>>
    /\ toClient' = Tail(toClient)
    /\ Dispatch(Head(toClient))
    /\ UNCHANGED <<readyState, retryPending, serializerConnected, sockets,
                   routed, srvVms, clicks>>

\* onopen: serializer.onSocketConnect(), showLoginForm once routed.
AdminSocketOpen ==
    /\ SocketOpen
    /\ UNCHANGED toServer
    /\ IF routed THEN ShowLoginForm ELSE UNCHANGED page
    /\ UNCHANGED <<routed, storedSid, formVars, tableVars, inviteShown, srvVms, clicks>>

\* onclose of an open socket: onSocketDisconnect(), showLoading once
\* routed.  Nothing else is reset.  The server keeps its VMs.
AdminSocketDropped ==
    /\ SocketDropped
    /\ IF routed THEN ShowLoading ELSE UNCHANGED page
    /\ UNCHANGED <<routed, storedSid, formVars, tableVars, inviteShown, srvVms, clicks>>

AdminSocketFailed == SocketFailed /\ UNCHANGED adminVars
AdminRetryFire == RetryFire /\ UNCHANGED adminVars

-----------------------------------------------------------------------------
(* The server (environment): it handles the request at the head of         *)
(* toServer.  It answers readVmConfig only for a VM it holds, and          *)
(* createVm only while it has a free id.                                   *)

Reply(e) == toClient' = Append(toClient, e)

ServerStep ==
    /\ toServer # <<>>
    /\ toServer' = Tail(toServer)
    /\ LET req == Head(toServer) IN
         CASE req.type = "login" ->
                /\ \/ \E s \in Sids : Reply(LoginSucceeded(s))
                   \/ Reply(LoginFailed)
                /\ UNCHANGED srvVms
           [] req.type = "serverConfigRequest" -> Reply(ServerConfig) /\ UNCHANGED srvVms
           [] req.type = "readVms" -> Reply(AdminVms(srvVms)) /\ UNCHANGED srvVms
           [] req.type = "readVmConfig" ->
                /\ IF req.vm \in srvVms THEN Reply(VmConfig(req.vm)) ELSE UNCHANGED toClient
                /\ UNCHANGED srvVms
           [] req.type = "createVm" ->
                IF srvVms = Vms THEN UNCHANGED <<toClient, srvVms>>
                ELSE \E v \in Vms \ srvVms : srvVms' = srvVms \cup {v} /\ Reply(VmCreated(v))
           [] req.type = "deleteVm" -> srvVms' = srvVms \ {req.vm} /\ UNCHANGED toClient
           [] req.type = "createInvite" -> \E ok \in BOOLEAN : Reply(InviteResult(ok)) /\ UNCHANGED srvVms
           [] req.type \in {"vmSettings", "vmsCommand"} -> UNCHANGED <<toClient, srvVms>>
    /\ UNCHANGED <<readyState, retryPending, serializerConnected, sockets,
                   routed, page, storedSid, formVars, tableVars, inviteShown, clicks>>

-----------------------------------------------------------------------------
\* A fresh admin.html: showLoading() at load (8); localStorage may hold a
\* session from an earlier visit; the server holds some VMs.
AdminInit ==
    /\ Init
    /\ routed = FALSE
    /\ page = "loading"
    /\ storedSid \in Sids \cup {NoSid}
    /\ currentVmId = NoVm /\ formShown = FALSE /\ formVm = NoVm
    /\ table = {} /\ selection = {} /\ cmdIds = {} /\ cmdEnabled = FALSE
    /\ settingsTarget = NoVm
    /\ inviteShown = FALSE
    /\ srvVms \in SUBSET Vms
    /\ clicks = 0

AdminNext ==
    \/ Route
    \/ Login \/ SelectRows \/ OpenSettings \/ RunVmsCommand \/ NewVm
    \/ EditSettings \/ DeleteVm \/ CloseSettings \/ CreateUserInvite \/ DismissInvite
    \/ Receive
    \/ AdminSocketOpen \/ AdminSocketDropped \/ AdminSocketFailed \/ AdminRetryFire
    \/ ServerStep

\* findRoute runs on DOM ready; the browser delivers frames and settles
\* handshakes; the timer fires; the server answers.  The admin is not
\* assumed to do anything.
AdminFairness ==
    /\ WF_vars(Route)
    /\ WF_vars(Receive)
    /\ WF_vars(AdminSocketOpen \/ AdminSocketFailed) /\ WF_vars(AdminRetryFire)
    /\ WF_vars(ServerStep)

AdminSpec == AdminInit /\ [][AdminNext]_vars /\ AdminFairness

-----------------------------------------------------------------------------
(* Properties.                                                             *)

Sent(t) == Len(toServer') > Len(toServer) /\ Last(toServer').type = t

\* The admin page never stays behind #loading: after the start, a drop, a
\* login sent or a failed attempt, the login form or the VM view follows.
\* This needs the router's catch-up call when the socket opened before
\* DOM ready, onLoginFailed's showLoginForm and onSocketConnect after
\* every reconnection.
LoadingEventuallyEnds == page = "loading" ~> page # "loading"

\* A settings change or a delete that the form sends goes to the VM whose
\* settings the form shows (currentVmId is also written by the settings
\* button before the VM's configuration arrives).
SettingsTargetShownVm ==
    [][(Sent("vmSettings") \/ Sent("deleteVm")) => Last(toServer').vm = formVm]_vars

====
