------------------------------ MODULE MainClient ------------------------------
(***************************************************************************)
(* The main page (main.js) on top of the transport (common.js): the URL    *)
(* router, the onSocketConnect / onSocketDisconnect callbacks it installs, *)
(* and the handlers of the replies to a VM connect request.                *)
(*                                                                         *)
(* A path is Home ("/"), a VM id v ("/vm/v"), LoginPath, RegisterPath,   *)
(* InvitePath ("/invite/<id>") or OtherPath (any other, e.g. "/about").   *)
(* `path` is the path the router last ran for; `route` is the path whose  *)
(* serializer.onSocketConnect is installed, NoHandler before any.  The    *)
(* router's last branch installs nothing, so `route` can lag `path`.      *)
(* The server is not part of this repository: it is modelled   *)
(* as an environment that answers each request on the current socket, in  *)
(* order, with a reply that carries no VM id (the `vm` field of a reply   *)
(* is bookkeeping for the properties; no handler reads it).               *)
(***************************************************************************)
EXTENDS Transport

CONSTANTS
    Vms,        \* VM ids
    NoVm,       \* currentVmId = null
    Home,       \* the route "/"
    LoginPath, RegisterPath, InvitePath, OtherPath,
    NoHandler,  \* serializer.onSocketConnect never set
    MaxNavs     \* bound: user navigations (setUrl, back/forward)

Routes == {Home, LoginPath, RegisterPath, InvitePath} \cup Vms
Paths == Routes \cup {OtherPath}

ConnectRequest(v) == [type |-> "connectRequest", vm |-> v]
VmListRequest == [type |-> "vmListRequest", vm |-> NoVm]
ConnectReply(t, v) == [type |-> t, vm |-> v]
VmInfo == [type |-> "vmInfo", vm |-> NoVm]
ValidateInvite == [type |-> "validateInvite", vm |-> NoVm]
InviteValidation(ok) == [type |-> IF ok THEN "inviteValid" ELSE "inviteInvalid", vm |-> NoVm]

VARIABLES
    path,         \* path of the last router run (getPath())
    route,        \* path whose onSocketConnect is installed
    currentVmId,  \* main.js currentVmId
    view,         \* panel shown: "loading", "list" (#vm-list), "vm" (#vm-view),
                  \* "login"/"register" (the forms), "page" (page-<name> / #not-found)
    backPending,  \* history.back() called by goBackOrHome, popstate not yet fired
    serverVm,     \* the VM the server has joined this client to on the current socket
    navs,         \* navigations so far (bounded)
    readyPending  \* $(() => findRoute()) queued by the runtime handler, not yet run

clientVars == <<path, route, currentVmId, view, backPending, serverVm, navs, readyPending>>
vars == <<transportVars, clientVars>>

ClientTypeOK ==
    /\ TypeOK
    /\ path \in Paths
    /\ route \in Routes \cup {NoHandler}
    /\ currentVmId \in Vms \cup {NoVm}
    /\ view \in {"loading", "list", "vm", "login", "register", "page"}
    /\ backPending \in BOOLEAN
    /\ serverVm \in Vms \cup {NoVm}
    /\ navs \in 0..MaxNavs
    /\ readyPending \in BOOLEAN

-----------------------------------------------------------------------------
(* onSocketConnect installed for "/vm/v" (main.js 41-48).  `cur` is        *)
(* currentVmId when it runs, `state` the readyState send will see.         *)
OnSocketConnectVm(v, cur, state) ==
    IF cur = v
    THEN \* viewVm(): hideEverything, show #vm-view
         /\ view' = "vm"
         /\ currentVmId' = cur
         /\ UNCHANGED toServer
    ELSE /\ currentVmId' = v
         /\ SendOn(state, ConnectRequest(v))
         /\ UNCHANGED view

\* serializer.onSocketConnect() for the installed route (main.js 41-56;
\* for Home the one viewServerList() installed, 532-534).  Before any
\* router installed one, onopen skips it (common.js 122).
OnSocketConnect(r, cur, state) ==
    CASE r \in Vms        -> OnSocketConnectVm(r, cur, state)
      [] r = Home         -> SendOn(state, VmListRequest) /\ currentVmId' = cur
                             /\ UNCHANGED view
      [] r = InvitePath   -> SendOn(state, ValidateInvite) /\ currentVmId' = cur
                             /\ UNCHANGED view
      [] r = LoginPath    -> view' = "login" /\ currentVmId' = cur /\ UNCHANGED toServer
      [] r = RegisterPath -> view' = "register" /\ currentVmId' = cur /\ UNCHANGED toServer
      [] r = NoHandler    -> currentVmId' = cur /\ UNCHANGED <<view, toServer>>

\* The router's tail (main.js 61-63): the callback just installed runs at
\* once if serializer.connected.
RouterInstall(r, cur) ==
    /\ route' = r
    /\ IF serializerConnected
       THEN OnSocketConnect(r, cur, readyState)
       ELSE currentVmId' = cur /\ UNCHANGED <<view, toServer>>

\* Variant of ViewServerList: the request is left to onSocketConnect.
ViewServerListNoSend(cur) ==
    /\ view' = "loading"
    /\ route' = Home
    /\ currentVmId' = cur
    /\ UNCHANGED toServer

\* viewServerList() (main.js 529-534) with the router's tail: show
\* #loading, install the list request, send it if connected.
ViewServerList(cur) ==
    /\ view' = "loading"
    /\ route' = Home
    /\ currentVmId' = cur
    /\ IF serializerConnected THEN SendOn(readyState, VmListRequest)
                              ELSE UNCHANGED toServer

\* The router's last branch (main.js 57-60): hideEverything(); return
\* false, so findRoute shows page-<name> or #not-found.  onSocketConnect
\* is left as the previous route installed it.
HidePage(cur) ==
    /\ view' = "page"
    /\ currentVmId' = cur
    /\ UNCHANGED <<route, toServer>>

\* Variant of Router: the "/" case is not told apart from "/vm/".
RouterNoHomeCase(r, cur) ==
    /\ path' = r
    /\ CASE r = OtherPath       -> HidePage(cur)
         [] r \in Vms \cup {Home} ->
               /\ route' = r
               /\ IF serializerConnected
                  THEN OnSocketConnectVm(r, cur, readyState)
                  ELSE currentVmId' = cur /\ UNCHANGED <<view, toServer>>
         [] OTHER               -> RouterInstall(r, cur)

\* The router registered by main.js (20-64), run by findRoute for path r
\* with currentVmId = cur.
Router(r, cur) ==
    /\ path' = r
    /\ CASE r = OtherPath -> HidePage(cur)
         [] r = Home      -> ViewServerList(cur)
         [] OTHER         -> RouterInstall(r, cur)

\* onSocketDisconnect installed by the router (main.js 22-27):
\* currentVmId = null; showLoading().
OnSocketDisconnect ==
    /\ currentVmId' = NoVm
    /\ view' = "loading"

-----------------------------------------------------------------------------
(* Steps of the browser and the user.                                      *)

\* setUrl(url) from a link / VM card, or a popstate from back/forward:
\* findRoute() runs the router for the new path.
Navigate ==
    /\ navs < MaxNavs
    /\ navs' = navs + 1
    /\ \E r \in Paths : Router(r, currentVmId)
    /\ UNCHANGED <<retryPending, serializerConnected, sockets, toClient, readyState,
                   backPending, serverVm, readyPending>>

\* The popstate of a history.back() issued by goBackOrHome: the previous
\* history entry may hold any route.
PopState ==
    /\ backPending
    /\ backPending' = FALSE
    /\ \E r \in Paths : Router(r, currentVmId)
    /\ UNCHANGED <<retryPending, serializerConnected, sockets, toClient, readyState,
                   serverVm, navs, readyPending>>

ClientSocketOpen ==
    /\ SocketOpen
    /\ OnSocketConnect(route, currentVmId, "OPEN")
    /\ UNCHANGED <<path, route, backPending, serverVm, navs, readyPending>>

ClientSocketDropped ==
    /\ SocketDropped
    /\ OnSocketDisconnect
    /\ serverVm' = NoVm
    /\ UNCHANGED <<path, route, backPending, navs, readyPending>>

ClientSocketFailed ==
    /\ SocketFailed
    /\ UNCHANGED clientVars

ClientRetryFire ==
    /\ RetryFire
    /\ UNCHANGED clientVars

\* The runtime is initialised and runs common.js's handler (common.js
\* 97-141): the serializer replacement, $(() => findRoute()), which jQuery
\* runs later even when the DOM is already ready, and connectWebSocket().
ClientRuntimeInitialized ==
    /\ RuntimeInitialized
    /\ readyPending' = TRUE
    /\ UNCHANGED <<path, route, currentVmId, view, backPending, serverVm, navs>>

\* The DOM-ready callback: findRoute() for the page's path.  The first
\* socket may already be open (its onopen found no onSocketConnect), and
\* the user may already have navigated.
FindRouteOnReady ==
    /\ readyPending
    /\ readyPending' = FALSE
    /\ Router(path, currentVmId)
    /\ UNCHANGED <<retryPending, serializerConnected, sockets, toClient, readyState,
                   backPending, serverVm, navs>>

-----------------------------------------------------------------------------
(* Message handlers (main.js addMessageHandlers), run by onmessage for the *)
(* frame at the head of toClient.                                          *)

\* onConnect: ...; viewVm() (main.js 656-666).  The reply is applied
\* whatever the state of the client.
OnConnect ==
    /\ view' = "vm"
    /\ UNCHANGED <<currentVmId, path, route, backPending, toServer>>

\* goBackOrHome (main.js 639-645): history.back() if history.state, else
\* setUrl("/").  Which holds depends on how the page was reached; both are
\* possible.
GoBackOrHome(cur) ==
    \/ /\ backPending' = TRUE
       /\ currentVmId' = cur
       /\ UNCHANGED <<path, route, view, toServer>>
    \/ /\ Router(Home, cur)
       /\ UNCHANGED backPending

\* onConnectFail: currentVmId = null; goBackOrHome() (main.js 667-670).
OnConnectFail == GoBackOrHome(NoVm)

\* onVmInfo: the router replaces it by a no-op on every path (main.js
\* 28-30) and by displayVmList on "/" (33-37), which ends by showing #vm-list.
OnVmInfo ==
    /\ view' = IF path = Home THEN "list" ELSE view
    /\ UNCHANGED <<currentVmId, path, route, backPending, toServer>>

\* onInviteValidationResponse (main.js 884-891): a valid invite shows the
\* register form; an invalid one is only logged.  Applied on any path.
OnInviteValidation(ok) ==
    /\ view' = IF ok THEN "register" ELSE view
    /\ UNCHANGED <<currentVmId, path, route, backPending, toServer>>

Receive ==
    /\ toClient # <<>>
    /\ toClient' = Tail(toClient)
    /\ CASE Head(toClient).type = "connect"     -> OnConnect
         [] Head(toClient).type = "connectFail" -> OnConnectFail
         [] Head(toClient).type = "vmInfo"      -> OnVmInfo
         [] Head(toClient).type = "inviteValid"   -> OnInviteValidation(TRUE)
         [] Head(toClient).type = "inviteInvalid" -> OnInviteValidation(FALSE)
    /\ UNCHANGED <<readyState, retryPending, serializerConnected, sockets, serverVm, navs,
                   readyPending>>

-----------------------------------------------------------------------------
(* The server (environment): it answers the request at the head of         *)
(* toServer.  A connect request may be accepted or refused; a refused one  *)
(* leaves the client where it was.                                         *)

ServerConnect ==
    /\ toServer # <<>>
    /\ Head(toServer).type = "connectRequest"
    /\ toServer' = Tail(toServer)
    /\ LET v == Head(toServer).vm IN
         \/ /\ serverVm' = v
            /\ toClient' = Append(toClient, ConnectReply("connect", v))
         \/ /\ toClient' = Append(toClient, ConnectReply("connectFail", v))
            /\ UNCHANGED serverVm
    /\ UNCHANGED <<readyState, retryPending, serializerConnected, sockets,
                   path, route, currentVmId, view, backPending, navs, readyPending>>

ServerVmList ==
    /\ toServer # <<>>
    /\ Head(toServer).type = "vmListRequest"
    /\ toServer' = Tail(toServer)
    /\ toClient' = Append(toClient, VmInfo)
    /\ UNCHANGED <<readyState, retryPending, serializerConnected, sockets, clientVars>>

ServerValidateInvite ==
    /\ toServer # <<>>
    /\ Head(toServer).type = "validateInvite"
    /\ toServer' = Tail(toServer)
    /\ \E ok \in BOOLEAN : toClient' = Append(toClient, InviteValidation(ok))
    /\ UNCHANGED <<readyState, retryPending, serializerConnected, sockets, clientVars>>

-----------------------------------------------------------------------------
\* The page has loaded on some path, on #loading, before the runtime is
\* initialised: no router has run and no socket exists.  The menu links
\* and popstate already call findRoute.
ClientInit ==
    /\ PreRuntimeInit
    /\ backPending = FALSE
    /\ serverVm = NoVm
    /\ navs = 0
    /\ readyPending = FALSE
    /\ currentVmId = NoVm
    /\ path \in Paths
    /\ route = NoHandler
    /\ view = "loading"

ClientNext ==
    \/ ClientRuntimeInitialized \/ FindRouteOnReady
    \/ Navigate \/ PopState
    \/ ClientSocketOpen \/ ClientSocketDropped \/ ClientSocketFailed \/ ClientRetryFire
    \/ Receive
    \/ ServerConnect \/ ServerVmList \/ ServerValidateInvite

\* The browser settles every handshake and fires every armed timer; the
\* server answers every request and onmessage runs for every frame.  The
\* wasm runtime finishes loading, and jQuery runs the ready callback.
ClientFairness ==
    /\ WF_vars(ClientRuntimeInitialized)
    /\ WF_vars(FindRouteOnReady)
    /\ WF_vars(ClientSocketOpen \/ ClientSocketFailed)
    /\ WF_vars(ClientRetryFire)
    /\ WF_vars(ServerConnect \/ ServerVmList \/ ServerValidateInvite)
    /\ WF_vars(Receive)
    /\ WF_vars(PopState)

ClientSpec == ClientInit /\ [][ClientNext]_vars /\ ClientFairness

-----------------------------------------------------------------------------
(* Properties.                                                             *)

Quiescent ==
    /\ readyState = "OPEN"
    /\ toServer = <<>>
    /\ toClient = <<>>
    /\ ~backPending
    /\ ~readyPending

\* Once the socket is open and every request has been answered and every
\* reply handled, a VM view on screen is the VM the server has this client
\* in, and it is the VM main.js sends chat and admin requests for
\* (currentVmId).  This is what the router's currentVmId check and
\* onSocketDisconnect's reset of currentVmId are for.
ViewMatchesServer ==
    (Quiescent /\ view = "vm") => (currentVmId # NoVm /\ currentVmId = serverVm)

\* A VM view on screen, once everything sent has been answered and handled,
\* belongs to the page's URL: after the user has left "/vm/v" for another
\* path, neither the onSocketConnect the VM route installed nor a late
\* onConnect puts VM v back on screen.
ViewOnUrlVm ==
    (Quiescent /\ view = "vm") => path = currentVmId

\* A page on "/" eventually shows the server list, unless the user or
\* goBackOrHome leaves "/" first.  viewServerList's request is lost when
\* it runs before the runtime, or while the socket is closed; it must then
\* be sent by the onSocketConnect it installed, and when findRoute's
\* DOM-ready callback runs after the first onopen, by the router itself.
HomeListEventuallyShown == (path = Home) ~> (view = "list" \/ path # Home)

=============================================================================
