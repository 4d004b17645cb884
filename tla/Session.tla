------------------------------- MODULE Session -------------------------------
(***************************************************************************)
(* The session state of the main page (main.js): username, isAdmin,        *)
(* isLoggedIn and the session saved in localStorage (common.js             *)
(* saveSessionInfo), driven by the handlers of onConnect, login,           *)
(* registration and username-change replies, and reset by                  *)
(* onSocketDisconnect.  It runs on the Transport of common.js.             *)
(*                                                                         *)
(* Joining a VM is abstracted to sending the connect request (MainClient   *)
(* models how the router decides to send it); the part of onConnect kept   *)
(* here is its call of updateSession and the viewVm() that follows.        *)
(* The server is an environment holding this connection's user name,      *)
(* session id and admin flag; it answers requests in order.                *)
(*                                                                         *)
(* The online-users panel (#online-users) is kept as the sequence of names *)
(* its items show.  The server keeps the other users on the VM (names in   *)
(* Others); they join, leave and rename at any time, and the server pushes *)
(* each change to this connection while it has it in the VM.              *)
(***************************************************************************)
EXTENDS Transport, SequencesExt

CONSTANTS
    Names,          \* user names
    Guests,         \* names the server hands out to guests (subset of Names)
    Accounts,       \* accounts that may log in (subset of Names)
    AdminAccounts,  \* accounts with the admin flag
    Others,         \* names of other users on the VM, never held by this client
    Sids,           \* session ids
    NoName,         \* username null / "" (updateSession treats both alike)
    NoSid,          \* sessionId "" (guest)
    MaxClicks       \* bound: requests the user makes

ASSUME Guests \subseteq Names /\ Accounts \subseteq Names /\ AdminAccounts \subseteq Accounts
ASSUME Others \cap Names = {}

ConnectRequest == [type |-> "connectRequest"]
LoginRequest(a) == [type |-> "login", name |-> a]
RegisterRequest(n) == [type |-> "register", name |-> n]
ChangeUsernameRequest(n) == [type |-> "changeUsername", name |-> n]

VARIABLES
    username,       \* main.js username
    isAdmin,        \* main.js isAdmin
    isLoggedIn,     \* main.js isLoggedIn
    storedSid,      \* localStorage["sessionId"]
    storedUser,     \* localStorage["username"]
    onVmView,       \* #vm-view is shown (not the login / register form)
    renameShown,    \* #change-username-button visible: toggle(!isLoggedIn) in viewVm
    renameDisabled, \* the button is disabled for getUsernameChangeRateLimit()
    srvUser,        \* the server's name for this connection
    srvSid,         \* the server's session for this connection
    srvAdmin,       \* the server's admin flag for this connection
    userList,       \* the names of the #online-users items, in order
    srvInVm,        \* the server has this connection in the VM
    srvOthers,      \* the other users the server has in the VM
    clicks          \* user requests so far (bounded)

sessionVars == <<username, isAdmin, isLoggedIn, storedSid, storedUser, onVmView,
                 renameShown, renameDisabled, srvUser, srvSid, srvAdmin, userList,
                 srvInVm, srvOthers, clicks>>
vars == <<transportVars, sessionVars>>
uiVars == <<onVmView, renameShown, renameDisabled>>
serverVars == <<srvUser, srvSid, srvAdmin>>
listVars == <<userList, srvInVm, srvOthers>>
UserNames == Names \cup Others

SessionTypeOK ==
    /\ TypeOK
    /\ username \in UserNames \cup {NoName}
    /\ isAdmin \in BOOLEAN /\ isLoggedIn \in BOOLEAN
    /\ storedSid \in Sids \cup {NoSid} /\ storedUser \in UserNames \cup {NoName}
    /\ onVmView \in BOOLEAN /\ renameShown \in BOOLEAN /\ renameDisabled \in BOOLEAN
    /\ srvUser \in Names \cup {NoName} /\ srvSid \in Sids \cup {NoSid}
    /\ srvAdmin \in BOOLEAN
    /\ userList \in Seq(UserNames \cup {NoName}) /\ srvInVm \in BOOLEAN
    /\ srvOthers \subseteq Others
    /\ clicks \in 0..MaxClicks

-----------------------------------------------------------------------------
\* Variant of UpdateSession: isLoggedIn = sessionId, without the !! cast.
UpdateSessionNoBoolCast(sid, newName) ==
    /\ IF username # newName
       THEN /\ username' = newName
            /\ isLoggedIn' = sid
       ELSE UNCHANGED <<username, isLoggedIn>>
    /\ storedSid' = sid
    /\ storedUser' = newName

\* updateSession(sessionId, newUsername) (main.js 296-303): username and
\* isLoggedIn change only when the name changes; the session is saved
\* either way, with the (possibly new) username.
UpdateSession(sid, newName) ==
    /\ IF username # newName
       THEN /\ username' = newName
            /\ isLoggedIn' = (sid # NoSid)
       ELSE UNCHANGED <<username, isLoggedIn>>
    /\ storedSid' = sid
    /\ storedUser' = newName

\* viewVm() (main.js 542-552): shows #vm-view and the change-username
\* button iff not logged in.
ViewVm(loggedIn) ==
    /\ onVmView' = TRUE
    /\ renameShown' = (loggedIn = FALSE)

\* onConnect(newUsername, ...) (main.js 656-666): updateSession("", name)
\* when a name is given, then viewVm().
OnConnect(n) ==
    /\ IF n # NoName THEN UpdateSession(NoSid, n)
                     ELSE UNCHANGED <<username, isLoggedIn, storedSid, storedUser>>
    /\ ViewVm(isLoggedIn')
    /\ UNCHANGED <<isAdmin, renameDisabled>>

\* goBackOrHome() (main.js 639-645) as far as the session is concerned:
\* back on a VM page whose request was answered, the router calls viewVm()
\* (currentVmId === vmId); anywhere else #vm-view is hidden (a VM page
\* whose request is still to be sent is a later JoinVm).
GoBackOrHome(loggedIn) ==
    /\ \/ ViewVm(loggedIn)
       \/ onVmView' = FALSE /\ UNCHANGED renameShown
    /\ UNCHANGED renameDisabled

\* onLoginSucceeded (main.js 871-876): updateSession; isAdmin = isAdmin2;
\* goBackOrHome().
OnLoginSucceeded(sid, n, admin) ==
    /\ UpdateSession(sid, n)
    /\ isAdmin' = admin
    /\ GoBackOrHome(isLoggedIn')

\* onRegisterAccountSucceeded (main.js 862-865): updateSession;
\* goBackOrHome().  isAdmin is left as it was.
OnRegisterAccountSucceeded(sid, n) ==
    /\ UpdateSession(sid, n)
    /\ GoBackOrHome(isLoggedIn')
    /\ UNCHANGED isAdmin

\* Variant of OnUsernameChange: every rename broadcast is applied.
OnUsernameChangeAnyUser(old, new) ==
    /\ userList' = ReplaceAll(userList, old, new)
    /\ UpdateSession(NoSid, new)
    /\ renameDisabled' = TRUE
    /\ UNCHANGED <<isAdmin, onVmView, renameShown>>

\* onUsernameChange (main.js 841-850): every #online-users item showing
\* the old name is renamed; only the client's own rename updates the
\* session and disables the button for the rate limit.
OnUsernameChange(old, new) ==
    /\ userList' = ReplaceAll(userList, old, new)
    /\ IF username = old
       THEN /\ UpdateSession(NoSid, new)
            /\ renameDisabled' = TRUE
            /\ UNCHANGED <<isAdmin, onVmView, renameShown>>
       ELSE UNCHANGED <<username, isAdmin, isLoggedIn, storedSid, storedUser, uiVars>>

clientSession == <<username, isAdmin, isLoggedIn, storedSid, storedUser, uiVars>>

\* Variant of OnUserList: the new items are added to the old ones.
OnUserListKeepOld(names) ==
    /\ userList' = userList \o names
    /\ UNCHANGED clientSession

\* onUserList / onAdminUserList (main.js 813-818, 827-833): remove every
\* item, then addUsers appends one item per name (434-476).
OnUserList(names) ==
    /\ userList' = names
    /\ UNCHANGED clientSession

\* onUserListAdd / onAdminUserListAdd (main.js 819-821, 834-836):
\* addUsers appends the item.
OnUserListAdd(n) ==
    /\ userList' = Append(userList, n)
    /\ UNCHANGED clientSession

\* onUserListRemove (main.js 822-826): removes every item whose text is
\* the name.
OnUserListRemove(n) ==
    /\ userList' = Remove(userList, n)
    /\ UNCHANGED clientSession

\* onLoginFailed / onRegisterAccountFailed / onUsernameTaken only redraw a
\* form or raise an alert (main.js 838-840, 866-870, 877-881).
OnFailure == UNCHANGED <<username, isAdmin, isLoggedIn, storedSid, storedUser, uiVars>>

\* onSocketDisconnect (main.js 22-27): username = ""; isAdmin = false;
\* showLoading().  isLoggedIn and localStorage are kept.
OnSocketDisconnect ==
    /\ username' = NoName
    /\ isAdmin' = FALSE
    /\ onVmView' = FALSE
    /\ UNCHANGED <<isLoggedIn, storedSid, storedUser, renameShown, renameDisabled>>

Dispatch(e) ==
    CASE e.type = "connect"           -> OnConnect(e.name) /\ UNCHANGED userList
      [] e.type = "loginSucceeded"    -> OnLoginSucceeded(e.sid, e.name, e.admin)
                                         /\ UNCHANGED userList
      [] e.type = "registerSucceeded" -> OnRegisterAccountSucceeded(e.sid, e.name)
                                         /\ UNCHANGED userList
      [] e.type = "usernameChange"    -> OnUsernameChange(e.old, e.new)
      [] e.type = "failed"            -> OnFailure /\ UNCHANGED userList
      [] e.type = "userList"          -> OnUserList(e.names)
      [] e.type = "userListAdd"       -> OnUserListAdd(e.name)
      [] e.type = "userListRemove"    -> OnUserListRemove(e.name)

-----------------------------------------------------------------------------
(* The user.                                                               *)

Click(msg) ==
    /\ clicks < MaxClicks
    /\ clicks' = clicks + 1
    /\ SendOn(readyState, msg)

\* Opening a VM page: the router sends the connect request.
JoinVm ==
    /\ Click(ConnectRequest)
    /\ UNCHANGED <<readyState, retryPending, serializerConnected, sockets, toClient,
                   username, isAdmin, isLoggedIn, storedSid, storedUser, uiVars, serverVars, listVars>>

\* Back on a VM page whose request was already answered (the router's
\* currentVmId === vmId branch): viewVm() only.  That needs an open
\* socket on which onConnect has already named the user.
ViewVmAgain ==
    /\ ~onVmView
    /\ readyState = "OPEN" /\ username # NoName
    /\ ViewVm(isLoggedIn)
    /\ UNCHANGED <<transportVars, username, isAdmin, isLoggedIn, storedSid,
                   storedUser, renameDisabled, serverVars, listVars, clicks>>

\* The login form's button or captcha callback: sendLoginRequest
\* (main.js 71-94).  The form replaces #vm-view.
Login ==
    /\ \E a \in Accounts : Click(LoginRequest(a))
    /\ onVmView' = FALSE
    /\ UNCHANGED <<readyState, retryPending, serializerConnected, sockets, toClient,
                   username, isAdmin, isLoggedIn, storedSid, storedUser,
                   renameShown, renameDisabled, serverVars, listVars>>

\* The register form: sendAccountRegistrationRequest (main.js 105-134).
Register ==
    /\ \E n \in Names : Click(RegisterRequest(n))
    /\ onVmView' = FALSE
    /\ UNCHANGED <<readyState, retryPending, serializerConnected, sockets, toClient,
                   username, isAdmin, isLoggedIn, storedSid, storedUser,
                   renameShown, renameDisabled, serverVars, listVars>>

\* The change-username modal (main.js 546-552): only reachable while the
\* VM view and the enabled button are on screen.
ChangeUsername ==
    /\ onVmView /\ renameShown /\ ~renameDisabled
    /\ \E n \in Names : Click(ChangeUsernameRequest(n))
    /\ UNCHANGED <<readyState, retryPending, serializerConnected, sockets, toClient,
                   username, isAdmin, isLoggedIn, storedSid, storedUser, uiVars, serverVars, listVars>>

\* The setTimeout of onUsernameChange re-enables the button.
RenameCooldownElapsed ==
    /\ renameDisabled
    /\ renameDisabled' = FALSE
    /\ UNCHANGED <<transportVars, username, isAdmin, isLoggedIn, storedSid,
                   storedUser, onVmView, renameShown, serverVars, listVars, clicks>>
-----------------------------------------------------------------------------
(* The socket.                                                             *)

\* onmessage: the handler of the frame at the head of toClient.
Receive ==
    /\ toClient # <<>>
    /\ toClient' = Tail(toClient)
    /\ Dispatch(Head(toClient))
    /\ UNCHANGED <<readyState, retryPending, serializerConnected, sockets, toServer,
                   serverVars, srvInVm, srvOthers, clicks>>

\* A drop: onSocketDisconnect; the server forgets the connection.
SessionSocketDropped ==
    /\ SocketDropped
    /\ OnSocketDisconnect
    /\ srvUser' = NoName /\ srvSid' = NoSid /\ srvAdmin' = FALSE
    /\ srvInVm' = FALSE
    /\ UNCHANGED <<userList, srvOthers, clicks>>

SessionSocketOpen ==
    /\ SocketOpen
    /\ UNCHANGED <<toServer, sessionVars>>

SessionSocketFailed == SocketFailed /\ UNCHANGED sessionVars
SessionRetryFire == RetryFire /\ UNCHANGED sessionVars

-----------------------------------------------------------------------------
(* The server (environment): it answers the request at the head of         *)
(* toServer.  A guest gets a name on its first connect; a later connect    *)
(* may repeat the name or send none.                                       *)

Reply(e) == toClient' = Append(toClient, e)
Failed == [type |-> "failed"]
UserListPush(me) == [type |-> "userList", names |-> SetToSeq(srvOthers) \o <<me>>]

\* A connect joins the connection to the VM: the reply, then the users.
Joined(n, me) ==
    toClient' = toClient \o <<[type |-> "connect", name |-> n], UserListPush(me)>>

ServerStep ==
    /\ toServer # <<>>
    /\ toServer' = Tail(toServer)
    /\ LET req == Head(toServer) IN
         CASE req.type = "connectRequest" ->
                IF srvUser = NoName
                THEN \E g \in Guests :
                       /\ srvUser' = g
                       /\ Joined(g, g)
                       /\ UNCHANGED <<srvSid, srvAdmin>>
                ELSE /\ \E n \in {srvUser, NoName} : Joined(n, srvUser)
                     /\ UNCHANGED serverVars
           [] req.type = "login" ->
                \/ \E s \in Sids :
                     /\ srvUser' = req.name /\ srvSid' = s
                     /\ srvAdmin' = (req.name \in AdminAccounts)
                     /\ Reply([type |-> "loginSucceeded", sid |-> s, name |-> req.name,
                               admin |-> srvAdmin'])
                \/ Reply(Failed) /\ UNCHANGED serverVars
           [] req.type = "register" ->
                \/ \E s \in Sids :
                     /\ srvUser' = req.name /\ srvSid' = s /\ srvAdmin' = FALSE
                     /\ Reply([type |-> "registerSucceeded", sid |-> s, name |-> req.name])
                \/ Reply(Failed) /\ UNCHANGED serverVars
           [] req.type = "changeUsername" ->
                \/ /\ req.name # srvUser
                   /\ srvUser' = req.name
                   /\ Reply([type |-> "usernameChange", old |-> srvUser, new |-> req.name])
                   /\ UNCHANGED <<srvSid, srvAdmin>>
                \/ Reply(Failed) /\ UNCHANGED serverVars
    /\ srvInVm' = (srvInVm \/ Head(toServer).type = "connectRequest")
    /\ UNCHANGED <<readyState, retryPending, serializerConnected, sockets,
                   username, isAdmin, isLoggedIn, storedSid, storedUser, uiVars,
                   userList, srvOthers, clicks>>

\* The server pushes a change of the VM's users to this connection only
\* while it has it in the VM.
Push(e) == toClient' = IF srvInVm THEN Append(toClient, e) ELSE toClient

\* Another user joins, leaves, or renames itself (to a name nobody holds).
ServerOthersChange ==
    /\ clicks < MaxClicks
    /\ clicks' = clicks + 1
    /\ \/ \E o \in Others \ srvOthers :
            srvOthers' = srvOthers \cup {o} /\ Push([type |-> "userListAdd", name |-> o])
       \/ \E o \in srvOthers :
            srvOthers' = srvOthers \ {o} /\ Push([type |-> "userListRemove", name |-> o])
       \/ \E o \in srvOthers, n \in Others \ srvOthers :
            /\ srvOthers' = (srvOthers \ {o}) \cup {n}
            /\ Push([type |-> "usernameChange", old |-> o, new |-> n])
    /\ UNCHANGED <<readyState, retryPending, serializerConnected, sockets, toServer,
                   clientSession, serverVars, userList, srvInVm>>

-----------------------------------------------------------------------------
\* A fresh page: nothing known yet; localStorage may hold a session from
\* an earlier visit.
SessionInit ==
    /\ Init
    /\ username = NoName /\ isAdmin = FALSE /\ isLoggedIn = FALSE
    /\ storedSid \in Sids \cup {NoSid}
    /\ storedUser \in Names \cup {NoName}
    /\ onVmView = FALSE /\ renameShown = FALSE /\ renameDisabled = FALSE
    /\ srvUser = NoName /\ srvSid = NoSid /\ srvAdmin = FALSE
    /\ userList = <<>> /\ srvInVm = FALSE /\ srvOthers \in SUBSET Others
    /\ clicks = 0

SessionNext ==
    \/ JoinVm \/ ViewVmAgain \/ Login \/ Register \/ ChangeUsername \/ RenameCooldownElapsed
    \/ Receive
    \/ SessionSocketOpen \/ SessionSocketDropped \/ SessionSocketFailed \/ SessionRetryFire
    \/ ServerStep \/ ServerOthersChange

SessionSpec == SessionInit /\ [][SessionNext]_vars

-----------------------------------------------------------------------------
(* Properties.                                                             *)

Quiescent == readyState = "OPEN" /\ toServer = <<>> /\ toClient = <<>>

\* Once every request is answered and every reply handled, the name the
\* page shows (and compares turn lists against) is the name the server
\* has for this connection, or none yet: onUsernameChange must apply only
\* the client's own renames, and every name-changing reply must reach
\* updateSession.
UsernameTracksServer == Quiescent => username \in {NoName, srvUser}

\* Once every request is answered and every push handled, the
\* #online-users panel of a connection the server has in the VM lists
\* every other user the server has there, once each, and nobody who has
\* left: across drops (the panel is kept while users come and go),
\* rejoins (onUserList must replace the items, not add to them), renames
\* and removals that match items by their text.
UserListMatchesServer ==
    (Quiescent /\ srvInVm) =>
        LET others == SelectSeq(userList, LAMBDA x : x \in Others)
        IN  ToSet(others) = srvOthers /\ IsInjective(others)
=============================================================================
